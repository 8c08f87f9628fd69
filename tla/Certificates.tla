---------------------------- MODULE Certificates ----------------------------
(***************************************************************************)
(* SSL_Initor of src/Util/SSLBox.cpp: the contexts of the certificates     *)
(* that were loaded, by name and by wildcard, and the one a server answers *)
(* the name with that a client asks for.  A name is a sequence of          *)
(* characters without its case; a context is the number of its loading.    *)
(***************************************************************************)
EXTENDS SequencesExt, Integers

CONSTANTS Names,   \* names of certificates, the empty one for a certificate without
          Hosts,   \* names a client asks for, the empty one for none
          MaxLoad  \* bound: certificates that are loaded

Mode == {"server", "client"}
None == -1       \* no context
Nobody == <<>>   \* no name

VARIABLES
  loads,         \* certificates loaded so far
  empty,         \* _ctx_empty
  ctxs,          \* _ctxs, per mode
  wildcards,     \* _ctxs_wildcards: suffixes
  default,       \* _default_vhost
  named,         \* the name of each context
  ofServer,      \* contexts loaded for servers
  isDefault,     \* those of them that were loaded as the default, with a name
  answer         \* the last handshake: mode, the host asked for, the context, None if refused

vars == <<loads, empty, ctxs, wildcards, default, named, ofServer, isDefault, answer>>

NoAnswer == [mode |-> "client", host |-> Nobody, ctx |-> 0]

\* The constructor puts a context without certificate in both modes.
Init ==
  /\ loads = 0
  /\ empty = [m \in Mode |-> 0]
  /\ ctxs = [m \in Mode |-> <<>>] /\ wildcards = [m \in Mode |-> <<>>]
  /\ default = [m \in Mode |-> Nobody]
  /\ named = <<>> /\ ofServer = {} /\ isDefault = {} /\ answer = NoAnswer

-----------------------------------------------------------------------------
Put(f, name, c) == [n \in DOMAIN f \cup {name} |-> IF n = name THEN c ELSE f[n]]
IsWildcard(name) == IsPrefix(<<"*", ".">>, name)

\* Mutant: what is the default is noted before a name was seen.
SetContextEarly(m, name, c, is_default) ==
  /\ default' = IF is_default THEN [default EXCEPT ![m] = name] ELSE default
  /\ IF name = Nobody THEN empty' = [empty EXCEPT ![m] = c] /\ UNCHANGED <<ctxs, wildcards>>
     ELSE /\ ctxs' = [ctxs EXCEPT ![m] = Put(@, name, c)]
          /\ wildcards' = IF IsWildcard(name) THEN [wildcards EXCEPT ![m] = Put(@, Tail(name), c)]
                          ELSE wildcards
          /\ UNCHANGED empty

SetContext(m, name, c, is_default) ==
  IF name = Nobody THEN empty' = [empty EXCEPT ![m] = c] /\ UNCHANGED <<ctxs, wildcards, default>>
  ELSE /\ ctxs' = [ctxs EXCEPT ![m] = Put(@, name, c)]
       /\ default' = IF is_default THEN [default EXCEPT ![m] = name] ELSE default
       /\ wildcards' = IF IsWildcard(name) THEN [wildcards EXCEPT ![m] = Put(@, Tail(name), c)]
                       ELSE wildcards
       /\ UNCHANGED empty

\* A certificate that cannot be read changes nothing.
LoadCertificate(m, name, is_default) ==
  /\ loads < MaxLoad
  /\ loads' = loads + 1
  /\ SetContext(m, name, loads + 1, is_default)
  /\ named' = Append(named, name)
  /\ ofServer' = IF m = "server" THEN ofServer \cup {loads + 1} ELSE ofServer
  /\ isDefault' = IF m = "server" /\ is_default /\ name # Nobody THEN isDefault \cup {loads + 1}
                  ELSE isDefault
  /\ UNCHANGED answer

-----------------------------------------------------------------------------
\* strcasestr finds the first place only, and that must be at the end.
EndsWith(host, suffix) ==
  LET places == {i \in 0 .. Len(host) - Len(suffix) : SubSeq(host, i + 1, i + Len(suffix)) = suffix} IN
  places = {Len(host) - Len(suffix)}

\* getSSLCtxWildcards: the first suffix in the order of the map; here any of them.
Wildcards(host, m) == {wildcards[m][s] : s \in {s \in DOMAIN wildcards[m] : EndsWith(host, s)}}

\* getSSLCtx_l, and getSSLCtx, which goes on with the wildcards.
Exact(host, m) ==
  LET vhost == IF host = Nobody THEN default[m] ELSE host IN
  IF m = "client" THEN empty[m] ELSE IF vhost \in DOMAIN ctxs[m] THEN ctxs[m][vhost] ELSE None
GetSSLCtx(host, m) ==
  IF Exact(host, m) # None \/ Wildcards(host, m) = {} THEN {Exact(host, m)} ELSE Wildcards(host, m)

\* makeSSL of a client; what it asks for is up to setHost.
MakeClient ==
  /\ answer' = [mode |-> "client", host |-> Nobody, ctx |-> empty["client"]]
  /\ UNCHANGED <<loads, empty, ctxs, wildcards, default, named, ofServer, isDefault>>

\* findCertificate, which OpenSSL calls for a box that makeSSL made of the empty context.
FindCertificate(host) ==
  /\ \E c \in GetSSLCtx(host, "server") :
       IF c # None \/ host = Nobody THEN answer' = [mode |-> "server", host |-> host, ctx |-> c]
       ELSE answer' = [mode |-> "server", host |-> host, ctx |-> Exact(Nobody, "server")]
  /\ UNCHANGED <<loads, empty, ctxs, wildcards, default, named, ofServer, isDefault>>

Next ==
  \/ \E m \in Mode, name \in Names, d \in BOOLEAN : LoadCertificate(m, name, d)
  \/ MakeClient
  \/ \E host \in Hosts : FindCertificate(host)

Spec == Init /\ [][Next]_vars

-----------------------------------------------------------------------------
\* The name a context answers for: its own, or one that ends as it does behind the '*'.
Covers(name, host) ==
  \/ name = host
  \/ IsWildcard(name) /\ IsSuffix(Tail(name), host)

\* The name that was made the default last is `name`.
LastDefault(name) ==
  \E d \in isDefault : name = named[d] /\ \A c \in isDefault : c <= d

\* A server answers with a certificate of the name that was asked for, the one loaded last if
\* it is the name itself, or with one of the name that was made the default last; never with
\* one that was loaded for clients.
Answered ==
  LET a == answer' IN
  a.mode = "server" /\ UNCHANGED loads /\ a.ctx # None =>
    /\ a.ctx \in {ctxs["server"][n] : n \in DOMAIN ctxs["server"]}
    /\ Covers(named[a.ctx], a.host) \/ LastDefault(named[a.ctx])
    /\ a.host \in DOMAIN ctxs["server"] => named[a.ctx] = a.host
    /\ \A c \in DOMAIN named : named[c] = named[a.ctx] /\ c > a.ctx => c \notin ofServer

\* Once a default with a name was loaded, no handshake is refused.
NeverRefused ==
  answer'.mode = "server" /\ UNCHANGED loads /\ answer'.ctx = None => isDefault = {}

CertificatesRight == [][Answered /\ NeverRefused]_vars
=============================================================================
