----------------------------- MODULE MCAdmission -----------------------------
(***************************************************************************)
(* Instances for TLC of how the server answers before there is a socket:   *)
(* the admission of upgrades, their limit per address, HTTP requests,      *)
(* files from memory, and the decisions about origins.                     *)
(*                                                                         *)
(* The five share no state; part, chosen at the start, says which of them  *)
(* moves. The two that are only functions of a configuration have the one  *)
(* they are checked in chosen with it.                                     *)
(***************************************************************************)
EXTENDS Admission, TLC

CONSTANTS None, Bad,
          \* as in Ssr; Responses are its Pages
          Reqs, Kinds, Keys, Responses, BodyCap, MaxDedup, PoolMax, NoReq,
          \* as in StaticFiles
          Assets, DirPages, FilePages, Others, Size, MaxByte,
          \* as in Origins
          Own, Foreign,
          \* as in UpgradeRate
          PerWindow, Window, MaxTicks, MaxEvicted

VARIABLES part,
          kind, key, at, upload, leader, promise, inflight, page, out, pos, wire, sent,
          misuse, state, flags, pool, rendering, draining,
          listed, fileRequest, reply,
          setup, originPhase,
          tick, known, entry, verdict, granted, evicted

httpVars == <<kind, key, at, upload, leader, promise, inflight, page, out, pos, wire, sent,
              misuse, state, flags, pool, rendering, draining>>
fileVars == <<listed, fileRequest, reply>>
originVars == <<setup, originPhase>>
rateVars == <<tick, known, entry, verdict, granted, evicted>>

\* One response of each shape that the handler tells apart.
Page(c, n, f) == [class |-> c, size |-> n, fails |-> f]
SomePages ==
    {Page("none", 0, FALSE), Page("error", 0, FALSE), Page("own", 1, FALSE), Page("sse", 0, TRUE),
     Page("plain", 0, FALSE), Page("plain", 1, TRUE), Page("plain", 2, FALSE)}

\* An anonymous GET, and any other request at its side.
SomeKinds == "r1" :> {"get"} @@ "r2" :> {"get", "credentialed", "head", "post", "auth"}

Http == INSTANCE Ssr WITH Pages <- Responses, inFlight <- rendering

\* What handler.js takes for granted: a limit is a count, and what a request
\* asks for and what a rendering answers is one of the forms Ssr knows.
ASSUME HttpConstantsOK ==
    /\ IsFiniteSet(Reqs) /\ NoReq \notin Reqs
    /\ Kinds \in [Reqs -> SUBSET Http!AllKinds] /\ Responses \subseteq Http!AllPages
    /\ BodyCap \in Nat /\ MaxDedup \in Nat /\ PoolMax \in Nat

Files == INSTANCE StaticFiles WITH request <- fileRequest

\* None is no name and no number, and a file has a length.
ASSUME FilesConstantsOK ==
    /\ None \notin DirPages \cup FilePages /\ None \notin Nat
    /\ Size \in Nat /\ MaxByte \in Nat

Origin == INSTANCE Origins WITH phase <- originPhase

\* Bad is not an origin a URL can have.
ASSUME OriginConstantsOK ==
    \A s \in Origin!Schemes, p \in Origin!Ports \cup {None} :
        Bad # Origin!Origin(s, Origin!Host(Own, p))

Rate == INSTANCE UpgradeRate

\* The limit is switched on, and a window lasts.
ASSUME RateConstantsOK ==
    /\ PerWindow \in Nat \ {0} /\ Window \in Nat \ {0}
    /\ MaxTicks \in Nat /\ MaxEvicted \in Nat

PartsInit ==
    /\ part \in {"admission", "http", "files", "origins", "rate"}
    /\ Init /\ Http!Init /\ Files!Init /\ Origin!Init /\ Rate!Init
    /\ part # "admission" => ~hasHook
    /\ part # "files" => listed = {}
    /\ part # "origins" => setup = CHOOSE s \in Origin!Setups : TRUE

PartsNext ==
    /\ UNCHANGED part
    /\ \/ part = "admission" /\ Next /\ UNCHANGED <<httpVars, fileVars, originVars, rateVars>>
       \/ part = "http" /\ Http!Next /\ UNCHANGED <<vars, fileVars, originVars, rateVars>>
       \/ part = "files" /\ Files!Next /\ UNCHANGED <<vars, httpVars, originVars, rateVars>>
       \/ part = "origins" /\ Origin!Next /\ UNCHANGED <<vars, httpVars, fileVars, rateVars>>
       \/ part = "rate" /\ Rate!Next /\ UNCHANGED <<vars, httpVars, fileVars, originVars>>

\* The fairness of Admission and of Ssr, each while its part moves.
PartsSpec ==
    /\ PartsInit /\ [][PartsNext]_<<part, vars, httpVars, fileVars, originVars, rateVars>>
    /\ WF_vars(part = "admission" /\ LoopTurns)
    /\ \A r \in Reqs : WF_httpVars(part = "http" /\ Http!Progress(r))

\* What the other modules state of their own variables: the books, answers and
\* bodies of HTTP requests, handlers that end, and the decisions about files,
\* origins and the rate of upgrades.
HttpIsSound == Http!HttpBooks /\ Http!OneAnswer /\ Http!WholeBody
HandlersEnd == Http!HandlersEnd
DecisionsAreRight == Files!StaticIsRight /\ Origin!OneOwnOrigin /\ Rate!RateIsLimited
==============================================================================
