----------------------------- MODULE StaticFiles -----------------------------
(***************************************************************************)
(* Files from memory (handler.js): the cache built at start from the client*)
(* files and the prerendered pages (cacheDir), the clean paths of pages    *)
(* (tryPrerendered) and how an entry is sent (serveStatic, parseRange).    *)
(*                                                                         *)
(* A path is a name, whether it ends in a slash, and whether it is written *)
(* with percent escapes that decode to the name.  Names need no escaping   *)
(* themselves: a redirect names the decoded path.                          *)
(***************************************************************************)
EXTENDS Integers

CONSTANTS Assets,     \* immutable client files, the ones without an etag
          DirPages,   \* pages written as name/index.html
          FilePages,  \* pages written as name.html
          Others,     \* names nothing is stored for
          Size,       \* bytes of a file
          MaxByte,    \* the largest number in a Range header
          None        \* an absent number

VARIABLES listed,   \* the directory pages the manifest lists with a slash
          request,  \* the request being answered
          reply     \* its answer

vars == <<listed, request, reply>>

Pages == DirPages \cup FilePages
Names == Assets \cup Pages \cup Others
Numbers == 0..MaxByte \cup {None}

Paths == [name: Names, slash: BOOLEAN, escaped: BOOLEAN]
Requests ==
    [path: Paths, etagMatches: BOOLEAN,
     range: [from: Numbers, to: Numbers, wellFormed: BOOLEAN], ifRange: {"none", "same", "stale"}]

Clean(n, s) == [name |-> n, slash |-> s, escaped |-> FALSE]

\* (mutant: directory pages are stored under their bare names)
staticCacheBare == {Clean(n, FALSE) : n \in Assets \cup Pages}

\* staticCache, the fast path: by the path as it was sent.  A directory page is
\* stored under its name with a slash, a file page under its bare name.
staticCache ==
    {Clean(n, FALSE) : n \in Assets \cup FilePages} \cup {Clean(n, TRUE) : n \in DirPages}

prerenderedDirStyle == {Clean(n, FALSE) : n \in DirPages}
prerendered == {Clean(n, n \in listed) : n \in Pages}

-------------------------------------------------------------------------------
(* serveStatic.                                                              *)

Smaller(a, b) == IF a < b THEN a ELSE b
Larger(a, b) == IF a < b THEN b ELSE a

\* What a Range header comes to: an interval, possibly of no byte, or nothing.
Interval(a, b) == [used |-> TRUE, bytes |-> a..b]
Ignored == [used |-> FALSE, bytes |-> {}]

\* (mutant: the last byte of a range past the end of the file is not clamped)
parseRangeUnclamped(h) ==
    IF ~h.wellFormed \/ h.from = None \/ h.to = None \/ h.to < h.from THEN Ignored
    ELSE Interval(h.from, h.to)

parseRange(h) ==
    LET suffix == h.from = None
        start == IF suffix THEN Larger(0, Size - h.to) ELSE h.from
        end == IF suffix \/ h.to = None THEN Size - 1 ELSE Smaller(h.to, Size - 1)
    IN  IF \/ ~h.wellFormed
           \/ suffix /\ (h.to = None \/ h.to = 0)
           \/ ~suffix /\ h.to # None /\ h.to < h.from
        THEN Ignored ELSE Interval(start, end)

Reply(status, bytes, to) == [status |-> status, bytes |-> bytes, location |-> to]
Nowhere == Clean(None, FALSE)
All == 0..(Size - 1)

\* An asset has no etag, so neither If-None-Match nor Range is looked at.
serveStatic(q, n) ==
    LET tagged == n \notin Assets
        range == parseRange(q.range)
        asked == tagged /\ (q.range.from # None \/ q.range.to # None) /\ q.ifRange # "stale"
    IN  IF tagged /\ q.etagMatches THEN Reply(304, {}, Nowhere)
        ELSE IF asked /\ range.used
             THEN Reply(IF range.bytes = {} THEN 416 ELSE 206, range.bytes, Nowhere)
        ELSE Reply(200, All, Nowhere)

-------------------------------------------------------------------------------
(* handleRequest: the fast path, the prerendered pages, and the rest, which  *)
(* is rendered by the application (status 0 here).                           *)

tryPrerendered(q) ==
    LET decoded == Clean(q.path.name, q.path.slash)
        alt == Clean(q.path.name, ~q.path.slash)
    IN  IF decoded \in prerendered /\ decoded \in prerenderedDirStyle
            THEN Reply(308, {}, [decoded EXCEPT !.slash = TRUE])
        ELSE IF decoded \in prerendered /\ decoded \in staticCache
            THEN serveStatic(q, decoded.name)
        ELSE IF alt \in prerendered /\ alt \in prerenderedDirStyle /\ decoded.slash /\ decoded \in staticCache
            THEN serveStatic(q, decoded.name)
        ELSE IF alt \in prerendered
            THEN Reply(308, {}, alt)
        ELSE Reply(0, {}, Nowhere)

Answer(q) == IF q.path \in staticCache THEN serveStatic(q, q.path.name) ELSE tryPrerendered(q)

NoRequest ==
    [path |-> Nowhere, etagMatches |-> FALSE,
     range |-> [from |-> None, to |-> None, wellFormed |-> TRUE], ifRange |-> "none"]

Init ==
    /\ listed \in SUBSET DirPages
    /\ request = NoRequest
    /\ reply = Reply(0, {}, Nowhere)

\* One request; every answer is made in one turn.
Get == \E q \in Requests :
    /\ request = NoRequest
    /\ request' = q
    /\ reply' = Answer(q)
    /\ UNCHANGED listed

Next == Get

Spec == Init /\ [][Next]_vars

-------------------------------------------------------------------------------
(* Properties.                                                               *)

\* The bytes a Range header asks for, from its meaning: those from the first to
\* the last number, or the last so many.
Wanted(h) ==
    IF h.from = None THEN {i \in All : h.to # None /\ i >= Size - h.to}
    ELSE {i \in All : i >= h.from /\ (h.to = None \/ i <= h.to)}

\* A partial answer holds exactly the bytes that were asked for and exist, 416
\* says that none of them does, and everything else is the whole file.
RangesAreExact ==
    /\ reply.status = 206 => reply.bytes = Wanted(request.range) /\ reply.bytes # {}
    /\ reply.status = 416 => Wanted(request.range) = {}
    /\ reply.status = 200 => reply.bytes = All

\* However the path of a stored page is spelled, with or without the slash or
\* escapes and however the manifest lists it, the answer is the page or one
\* redirect that leads to it: never a loop, and never the application.
PagesAreReached ==
    request.path.name \in Pages =>
       \/ reply.status \in {200, 206, 304, 416}
       \/ reply.status = 308 /\ Answer([request EXCEPT !.path = reply.location]).status \in {200, 206, 304, 416}

StaticIsRight == RangesAreExact /\ PagesAreReached
===============================================================================
