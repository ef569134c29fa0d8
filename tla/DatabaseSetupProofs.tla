------------------------- MODULE DatabaseSetupProofs -------------------------
(* What the run of DatabaseSetup checks but for its liveness, for any number *)
(* of processes, names, polls, retries and stops of the server.             *)
EXTENDS DatabaseSetup, TLAPS

USE DEF Goto

\* Who is about to create a database has seen no other spelling of its name, and
\* none can have come up since: others create the lower-case one, too.
CreatorSawNone == \A p \in Procs : pc[p] = "create" =>
  \A d \in databases : Lower[d] = Lower[name[p]] => d = Lower[name[p]]

\* Who is ready holds a connection to the database of the name it kept.
ReadyConnected == \A p \in Procs : pc[p] = "ready" =>
  conn[p] = {name[p]} /\ name[p] \in databases

\* Each loop begins with no attempt made and goes on below its limit only.
TriesLeft == \A p \in Procs :
  /\ pc[p] \in {"check", "start"} => tries[p] = 0
  /\ pc[p] = "wait" => tries[p] < Polls
  /\ pc[p] \in {"probe", "connect"} => tries[p] < MaxRetries

IInv == TypeOK /\ TriesLeft /\ NoTwin /\ CreatorSawNone /\ ReadyConnected


\* A step of p leaves the others where they are.
LEMMA OthersStay ==
  ASSUME TypeOK, NEW p \in Procs, Step(p), NEW q \in Procs, q # p
  PROVE  pc'[q] = pc[q] /\ name'[q] = name[q] /\ tries'[q] = tries[q] /\ conn'[q] = conn[q]
<1> USE DEF TypeOK, env
<1>1. CASE Check(p) \/ StartServer(p) \/ Wait(p)
  BY <1>1 DEF Check, StartServer, Wait
<1>2. CASE Look(p) \/ Create(p)
  BY <1>2 DEF Look, LookFor, Create, CreateAs
<1>3. CASE ReadGrants(p) \/ Probe(p)
  BY <1>3 DEF ReadGrants, Probe
<1>4. ASSUME NEW d, Connected(p, d)
      PROVE  pc'[q] = pc[q] /\ name'[q] = name[q] /\ tries'[q] = tries[q] /\ conn'[q] = conn[q]
  BY <1>4 DEF Connected
<1>5. CASE Connect(p) \/ ConnectLower(p)
  BY <1>4, <1>5 DEF Connect, ConnectLower
<1>6. CASE ConnectMissing(p) \/ ConnectRefused(p) \/ ConnectRetry(p)
  BY <1>6 DEF ConnectMissing, ConnectRefused, ConnectRetry
<1> QED BY <1>1, <1>2, <1>3, <1>5, <1>6 DEF Step

\* Creating is the only step that changes the databases.
LEMMA ServerGrows ==
  ASSUME NEW p \in Procs, Step(p)
  PROVE  /\ databases \subseteq databases'
         /\ granted' = granted /\ denied' = denied /\ host' = host /\ stops' = stops
         /\ databases' # databases => Create(p)
<1>1. CASE Check(p) \/ StartServer(p) \/ Wait(p)
  BY <1>1 DEF Check, StartServer, Wait, env
<1>2. CASE Look(p) \/ Create(p)
  BY <1>2 DEF Look, LookFor, Create, CreateAs, env
<1>3. CASE ReadGrants(p) \/ Probe(p)
  BY <1>3 DEF ReadGrants, Probe, env
<1>4. CASE Connect(p) \/ ConnectLower(p)
  BY <1>4 DEF Connect, ConnectLower, Connected, env
<1>5. CASE ConnectMissing(p) \/ ConnectRefused(p) \/ ConnectRetry(p)
  BY <1>5 DEF ConnectMissing, ConnectRefused, ConnectRetry, env
<1> QED BY <1>1, <1>2, <1>3, <1>4, <1>5 DEF Step

\* Counters stay below their limits.
LEMMA TypeStep ==
  ASSUME TypeOK, TriesLeft, NEW p \in Procs, Step(p)
  PROVE  TypeOK' /\ TriesLeft'
<1> DEFINE Own == /\ tries'[p] \in 0..Bound
                  /\ pc'[p] \in {"check", "start"} => tries'[p] = 0
                  /\ pc'[p] = "wait" => tries'[p] < Polls
                  /\ pc'[p] \in {"probe", "connect"} => tries'[p] < MaxRetries
           Typed == /\ server' \in {"down", "starting", "up"}
                    /\ databases' \subseteq Names
                    /\ sessions' \subseteq Procs
                    /\ pc' \in [Procs -> {"check", "start", "wait", "look", "create", "grants",
                                          "probe", "connect", "fallback", "ready", "failed"}]
                    /\ name' \in [Procs -> Names]
                    /\ conn'[p] \subseteq databases'
                    /\ conn' = [conn EXCEPT ![p] = conn'[p]]
                    /\ tries' = [tries EXCEPT ![p] = tries'[p]]
<1>0. /\ Polls \in Nat \ {0} /\ MaxRetries \in Nat \ {0} /\ Lower \in [Names -> Names]
      /\ Bound \in Nat /\ Polls <= Bound /\ MaxRetries <= Bound
      /\ tries[p] \in 0..Bound
  BY DatabaseSetupAssumption DEF TypeOK, Bound
<1>1. ASSUME Check(p) PROVE Own /\ Typed
  BY <1>0, <1>1 DEF Check, env, TypeOK, TriesLeft
<1>2. ASSUME StartServer(p) PROVE Own /\ Typed
  BY <1>0, <1>2 DEF StartServer, TypeOK, TriesLeft
<1>3. ASSUME Wait(p) PROVE Own /\ Typed
  BY <1>0, <1>3 DEF Wait, env, TypeOK, TriesLeft
<1>4. ASSUME Look(p) PROVE Own /\ Typed
  BY <1>0, <1>4 DEF Look, LookFor, env, TypeOK, TriesLeft
<1>5. ASSUME Create(p) PROVE Own /\ Typed
  BY <1>0, <1>5 DEF Create, CreateAs, TypeOK, TriesLeft
<1>6. ASSUME ReadGrants(p) PROVE Own /\ Typed
  BY <1>0, <1>6 DEF ReadGrants, env, TypeOK, TriesLeft
<1>7. ASSUME Probe(p) PROVE Own /\ Typed
  BY <1>0, <1>7 DEF Probe, env, TypeOK, TriesLeft
<1>8. ASSUME Connect(p) PROVE Own /\ Typed
  BY <1>0, <1>8 DEF Connect, Connected, CanConnect, env, TypeOK, TriesLeft
<1>9. ASSUME ConnectMissing(p) PROVE Own /\ Typed
  BY <1>0, <1>9 DEF ConnectMissing, env, TypeOK, TriesLeft
<1>10. ASSUME ConnectRefused(p) PROVE Own /\ Typed
  BY <1>0, <1>10 DEF ConnectRefused, env, TypeOK, TriesLeft
<1>11. ASSUME ConnectRetry(p) PROVE Own /\ Typed
  BY <1>0, <1>11 DEF ConnectRetry, env, TypeOK, TriesLeft
<1>12. ASSUME ConnectLower(p) PROVE Own /\ Typed
  <2>1. CASE Connected(p, Lower[name[p]])
    BY <1>0, <1>12, <2>1 DEF ConnectLower, Connected, CanConnect, env, TypeOK, TriesLeft
  <2>2. CASE ~CanConnect(Lower[name[p]]) /\ Goto(p, "failed") /\ UNCHANGED <<env, sessions, name, tries, conn>>
    BY <1>0, <1>12, <2>2 DEF env, TypeOK, TriesLeft
  <2> QED BY <1>12, <2>1, <2>2 DEF ConnectLower
<1>13. Own /\ Typed
  BY <1>1, <1>2, <1>3, <1>4, <1>5, <1>6, <1>7, <1>8, <1>9, <1>10, <1>11, <1>12 DEF Step
<1>14. tries' \in [Procs -> 0..Bound] /\ TriesLeft'
  <2>1. \A q \in Procs : q # p => tries'[q] = tries[q] /\ pc'[q] = pc[q]
    BY OthersStay
  <2> QED BY <1>0, <1>13, <2>1 DEF TypeOK, TriesLeft
<1>15. \A q \in Procs : conn'[q] \subseteq databases'
  BY <1>13, OthersStay, ServerGrows DEF TypeOK
<1> QED BY <1>13, <1>14, <1>15, ServerGrows DEF TypeOK

\* Of those that are about to create the same database only the first succeeds.
LEMMA NamesStep ==
  ASSUME TypeOK, NoTwin, CreatorSawNone, NEW p \in Procs, Step(p)
  PROVE  NoTwin' /\ CreatorSawNone'
<1>0. /\ Lower \in [Names -> Names] /\ \A n \in Names : Lower[Lower[n]] = Lower[n]
      /\ name \in [Procs -> Names] /\ databases \subseteq Names
  BY DatabaseSetupAssumption DEF TypeOK
<1>1. CASE databases' = databases
  <2>1. NoTwin'
    BY <1>1 DEF NoTwin
  <2>2. pc'[p] = "create" => /\ name'[p] = name[p]
                             /\ \A d \in databases : Lower[d] # Lower[name[p]]
    <3>1. CASE Look(p)
      BY <3>1 DEF Look, LookFor, TypeOK
    <3>2. CASE ~Look(p)
      <4>1. pc'[p] # "create"
        BY <3>2 DEF TypeOK, Step, Check, StartServer, Wait, Create, CreateAs, ReadGrants, Probe,
                    Connect, Connected, ConnectMissing, ConnectRefused, ConnectRetry, ConnectLower
      <4> QED BY <4>1
    <3> QED BY <3>1, <3>2
  <2>3. CreatorSawNone'
    BY <1>1, <2>2, OthersStay DEF CreatorSawNone
  <2> QED BY <2>1, <2>3
<1>2. CASE databases' # databases
  <2> DEFINE new == Lower[name[p]]
  <2>1. Create(p)
    BY <1>2, ServerGrows
  <2>2. /\ pc[p] = "create" /\ new \notin databases /\ databases' = databases \cup {new}
        /\ pc'[p] = "grants"
    BY <1>2, <2>1 DEF Create, CreateAs, TypeOK
  <2>3. Lower[new] = new
    BY <1>0
  <2>4. \A d \in databases : Lower[d] # new
    BY <2>2 DEF CreatorSawNone
  <2>5. NoTwin'
    BY <2>2, <2>3, <2>4 DEF NoTwin
  <2>6. CreatorSawNone'
    <3> SUFFICES ASSUME NEW q \in Procs, pc'[q] = "create",
                        NEW d \in databases', Lower[d] = Lower[name'[q]]
                 PROVE  d = Lower[name'[q]]
      BY DEF CreatorSawNone
    <3>1. q # p /\ pc[q] = "create" /\ name'[q] = name[q]
      BY <2>2, OthersStay
    <3>2. CASE d \in databases
      BY <3>1, <3>2 DEF CreatorSawNone
    <3>3. CASE d = new
      BY <2>3, <3>1, <3>3
    <3> QED BY <2>2, <3>2, <3>3
  <2> QED BY <2>5, <2>6
<1> QED BY <1>1, <1>2

\* Who is ready stays connected: a database is never dropped.
LEMMA ReadyStep ==
  ASSUME TypeOK, ReadyConnected, NEW p \in Procs, Step(p)
  PROVE  ReadyConnected'
<1>1. pc'[p] = "ready" => conn'[p] = {name'[p]} /\ name'[p] \in databases'
  <2>1. ASSUME NEW d, Connected(p, d)
        PROVE  conn'[p] = {name'[p]} /\ name'[p] \in databases'
    <3>1. conn' = [conn EXCEPT ![p] = {d}] /\ name' = [name EXCEPT ![p] = d]
            /\ d \in databases /\ databases' = databases
      BY <2>1 DEF Connected, CanConnect, env
    <3>2. conn'[p] = {d} /\ name'[p] = d
      BY <3>1 DEF TypeOK
    <3> QED BY <3>1, <3>2
  <2>2. CASE Connect(p) \/ \E d \in Names : Connected(p, d)
    BY <2>1, <2>2 DEF Connect
  <2>3. CASE pc'[p] # "ready"
    BY <2>3
  <2>4. pc'[p] # "ready" \/ \E d \in Names : Connected(p, d)
    BY DatabaseSetupAssumption
    DEF TypeOK, Step, Check, StartServer, Wait, Look, LookFor, Create, CreateAs, ReadGrants, Probe,
        Connect, ConnectMissing, ConnectRefused, ConnectRetry, ConnectLower
  <2> QED BY <2>2, <2>3, <2>4
<1>2. ASSUME NEW q \in Procs, q # p, pc'[q] = "ready"
      PROVE  conn'[q] = {name'[q]} /\ name'[q] \in databases'
  BY <1>2, OthersStay, ServerGrows DEF ReadyConnected
<1> QED BY <1>1, <1>2 DEF ReadyConnected

\* IInv holds of every execution.
THEOREM Inductive == Spec => []IInv
<1>1. Init => IInv
  BY DatabaseSetupAssumption
  DEF Init, IInv, TypeOK, TriesLeft, NoTwin, CreatorSawNone, ReadyConnected, Bound
<1>2. IInv /\ [Next]_vars => IInv'
  <2> SUFFICES ASSUME IInv, [Next]_vars PROVE IInv'
    OBVIOUS
  <2> USE DEF IInv
  <2>1. CASE \E p \in Procs : Step(p)
    BY <2>1, TypeStep, NamesStep, ReadyStep
  <2>2. CASE ServerUp \/ ServerStops
    <3>1. stops' \in 0..MaxStops
      BY <2>2, DatabaseSetupAssumption DEF TypeOK, ServerUp, ServerStops
    <3>2. /\ server' \in {"down", "starting", "up"} /\ sessions' \subseteq Procs
          /\ UNCHANGED <<databases, granted, denied, host, pc, name, tries, conn>>
      BY <2>2 DEF TypeOK, ServerUp, ServerStops
    <3> QED BY <3>1, <3>2 DEF TypeOK, TriesLeft, NoTwin, CreatorSawNone, ReadyConnected
  <2>3. CASE UNCHANGED vars
    BY <2>3 DEF vars, TypeOK, TriesLeft, NoTwin, CreatorSawNone, ReadyConnected
  <2> QED BY <2>1, <2>2, <2>3 DEF Next
<1> QED BY <1>1, <1>2, PTL DEF Spec

\* Every variable keeps its type; polls and attempts stay below their limits.
THEOREM TypeCorrect == Spec => []TypeOK
<1>1. IInv => TypeOK
  BY DEF IInv
<1> QED BY <1>1, Inductive, PTL

\* However many setups run at once, the server never gets a second spelling of a
\* database's name.
THEOREM OneSpelling == Spec => []NoTwin
<1>1. IInv => NoTwin
  BY DEF IInv
<1> QED BY <1>1, Inductive, PTL

\* Services configured with the same name, however it is spelled, end up connected
\* to the same database.
THEOREM ServicesShareDatabase == Spec => []SameDatabase
<1>1. IInv => SameDatabase
  BY DEF IInv, NoTwin, ReadyConnected, SameDatabase
<1> QED BY <1>1, Inductive, PTL

=============================================================================
