------------------------------ MODULE Origins ------------------------------
(***************************************************************************)
(* Where a request says it comes from and where the server thinks it is:   *)
(* the origin the application's URLs are built on (originFromHeaders), the *)
(* same-origin check of upgrades (isOriginAllowed) and of the authenticate *)
(* endpoint, and the configurations the server refuses to start in. The    *)
(* check and the URL derive the server's own origin from the same headers  *)
(* in two pieces of code.                                                  *)
(*                                                                         *)
(* A host is a name with a port or none; a header's value is what a proxy  *)
(* writes, nothing, or Bad, which no grammar accepts.                      *)
(***************************************************************************)
CONSTANTS Own,     \* the name the site is known under
          Foreign, \* another name
          None,    \* no header, no port, no configured origin
          Bad      \* a value of the wrong form

Schemes == {"http", "https"}
Ports == {"80", "443", "8080"}
Host(name, port) == [name |-> name, port |-> port]
Origin(scheme, host) == [scheme |-> scheme, host |-> host]

DefaultPort(scheme) == IF scheme = "https" THEN "443" ELSE "80"

\* host without the port its scheme has anyway, as URL prints it.
Stripped(host, scheme) == IF host.port = DefaultPort(scheme) THEN Host(host.name, None) ELSE host

\* What a browser can send: the scheme's own port is left out.
BrowserOrigins ==
    {Origin(s, Stripped(Host(Own, p), s)) : s \in Schemes, p \in Ports \cup {None}}
       \cup {Origin("https", Host(Foreign, None))}

Setups ==
    [isTls: BOOLEAN, protocolHeader: BOOLEAN, hostHeader: BOOLEAN, portHeader: BOOLEAN,
     origin: {None, Origin("https", Host(Own, None))},
     allowedOrigins: {"*", "same-origin", "list"}, upgradeHook: BOOLEAN]

\* Headers that no setting names are not looked at and stay None here.
Requests(s) ==
    [kind: {"upgrade", "auth"}, origin: BrowserOrigins \cup {None, Bad}, sameSite: BOOLEAN,
     host: {None, Bad} \cup {Host(Own, p) : p \in {None, "80", "8080"}},
     proto: IF s.protocolHeader THEN {None, "http", "https", Bad} ELSE {None},
     fwdHost: IF s.hostHeader THEN {None, Bad, Host(Own, None), Host(Own, "443")} ELSE {None},
     fwdPort: IF s.portHeader THEN {None, Bad, "443", "8080"} ELSE {None}]

VARIABLES setup, \* the configuration
          phase  \* "starting", "refused", "up"

originVars == <<setup, phase>>

-------------------------------------------------------------------------------
(* The decisions.                                                            *)

\* describeUnsafeSameOriginConfig, without the opt-out: nothing pins the host.
describeUnsafeSameOriginConfig(s) ==
    /\ s.allowedOrigins = "same-origin"
    /\ s.origin = None /\ ~s.hostHeader /\ ~s.isTls /\ ~s.upgradeHook

\* The scheme and host both derivations start from.
Claimed(value, default) == IF value = None THEN default ELSE value
Listener(s) == IF s.isTls THEN "https" ELSE "http"

\* (mutant: the default port is that of the listener, not of the scheme the proxy names)
isOriginAllowedByListener(s, q, hook) ==
    LET host == Claimed(q.fwdHost, q.host)
        scheme == Claimed(q.proto, Listener(s))
        there == IF q.fwdPort = None THEN host ELSE Host(host.name, q.fwdPort)
    IN  \/ s.allowedOrigins = "*"
        \/ q.origin = None /\ hook
        \/ /\ q.origin \notin {None, Bad} /\ s.allowedOrigins = "same-origin"
           /\ host \notin {None, Bad} /\ q.origin = Origin(scheme, Stripped(there, Listener(s)))
        \/ q.origin # None /\ s.allowedOrigins = "list" /\ q.origin = Origin("https", Host(Foreign, None))

\* isOriginAllowed: hook says whether a request without Origin may pass. The
\* list holds the foreign site. PORT_HEADER's value is not checked here.
isOriginAllowed(s, q, hook) ==
    LET host == Claimed(q.fwdHost, q.host)
        scheme == Claimed(q.proto, Listener(s))
        there == IF q.fwdPort = None THEN host ELSE Host(host.name, q.fwdPort)
    IN  \/ s.allowedOrigins = "*"
        \/ q.origin = None /\ hook
        \/ /\ q.origin \notin {None, Bad} /\ s.allowedOrigins = "same-origin"
           /\ host \notin {None, Bad} /\ q.origin = Origin(scheme, Stripped(there, scheme))
        \/ q.origin # None /\ s.allowedOrigins = "list" /\ q.origin = Origin("https", Host(Foreign, None))

\* isAuthOriginAccepted: what only script of the same site can have written is
\* enough; a request without Origin never is.
isAuthOriginAccepted(s, q) == q.sameSite \/ isOriginAllowed(s, q, FALSE)

\* originFromHeaders: None stands for the OriginHeaderError its callers answer 400.
originFromHeaders(s, q) ==
    LET host == Claimed(q.fwdHost, q.host)
        scheme == Claimed(q.proto, Listener(s))
    IN  IF scheme \notin Schemes \/ host \in {None, Bad} \/ q.fwdPort = Bad THEN None
        ELSE Origin(scheme, IF q.fwdPort = None THEN host ELSE Host(host.name, q.fwdPort))

\* The base of the request's URL: the configured origin, or the headers'.
BaseOrigin(s, q) == IF s.origin # None THEN s.origin ELSE originFromHeaders(s, q)

-------------------------------------------------------------------------------
Init == setup \in Setups /\ phase = "starting"

Start ==
    /\ phase = "starting"
    /\ phase' = IF describeUnsafeSameOriginConfig(setup) THEN "refused" ELSE "up"
    /\ UNCHANGED setup

Next == Start

OriginSpec == Init /\ [][Next]_originVars

\* What a request is answered once the server is up, an upgrade or a POST to the
\* authenticate endpoint, which needs the origin of its URL too. Answering
\* changes nothing, so every request is looked at in every state.
Accepted(s, q) ==
    IF q.kind = "upgrade" THEN isOriginAllowed(s, q, s.upgradeHook)
    ELSE isAuthOriginAccepted(s, q) /\ BaseOrigin(s, q) # None

SameOriginOnly == phase = "up" /\ setup.allowedOrigins = "same-origin"

-------------------------------------------------------------------------------
(* Properties.                                                               *)

\* The check and the URL agree: without a configured ORIGIN, a page may connect
\* exactly when its origin is the one the application sees itself under, on
\* whichever port and scheme the proxy in front says it was reached.
OneOwnOrigin ==
    SameOriginOnly /\ setup.origin = None =>
       \A q \in Requests(setup) :
          LET base == BaseOrigin(setup, q) IN
          base # None /\ q.origin # None /\ ~q.sameSite =>
             (Accepted(setup, q) <=> q.origin = Origin(base.scheme, Stripped(base.host, base.scheme)))

\* README.md: behind a proxy that terminates TLS, ORIGIN=https://... is all the
\* server needs: the pages of that origin may connect.
OwnPagesConnect ==
    SameOriginOnly /\ setup.origin # None =>
       \A q \in Requests(setup) :
          q.origin = setup.origin /\ q.host = setup.origin.host /\ q.fwdHost = None /\ q.fwdPort = None =>
             Accepted(setup, q)
=============================================================================
