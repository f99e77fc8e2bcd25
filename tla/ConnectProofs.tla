---------------------------- MODULE ConnectProofs ----------------------------
(***************************************************************************)
(* Proofs about Connect, for any set of clients and any number of calls of *)
(* open() and start(): type correctness, an acceptor that is not deaf in   *)
(* silence, assertions that only a misuse makes fail, and closures of      *)
(* open() that are told the truth.                                         *)
(***************************************************************************)
EXTENDS Connect, FiniteSetTheorems, TLAPS

------------------------------------------------------------------------------
(***************************************************************************)
(* The inductive invariant.                                                *)
(***************************************************************************)

\* Every start() makes one accept at most, which is outstanding or has its handler
\* queued.
AcceptsBounded ==
    /\ IsFiniteSet(accepted)
    /\ accepting + Cardinality(accepted) + failed + aborted <= starts

\* A closure that was told something belongs to an open() that is done; as long as
\* the client is not misused, one open() at most is pending, and the transport is
\* NEW and has its listener meanwhile.
OpenOK(c) ==
    /\ \A i \in Opens : stage[c][i] # "done" => told[c][i] = "none"
    /\ ~misused[c] => /\ fault[c] = "none"
                      /\ \A i, j \in Pending(c) : i = j
                      /\ Pending(c) # {} => myListener[c] /\ myState[c] = "NEW"

Inv == TypeOK /\ AcceptsBounded /\ NotDeafSilently /\ \A c \in Clients : OpenOK(c)

\* The types of the two sides.
ClientTypeOK ==
    /\ myState \in [Clients -> {"NEW", "OPEN", "CLOSED"}]
    /\ myListener \in [Clients -> BOOLEAN]
    /\ stage \in [Clients -> [Opens -> {"none", "resolving", "resolved",
                    "unresolved", "connecting", "connected", "refused", "done"}]]
    /\ told \in [Clients -> [Opens -> {"none", "true", "error", "already"}]]
    /\ misused \in [Clients -> BOOLEAN]
    /\ fault \in [Clients -> {"none", "assert", "null"}]

AcceptTypeOK ==
    /\ acceptor \in {"closed", "opened", "bound", "listening"}
    /\ accepting \in 0..MaxStarts
    /\ accepted \subseteq Connections
    /\ failed \in 0..MaxStarts /\ aborted \in 0..MaxStarts
    /\ backlog \subseteq Connections /\ myClients \subseteq Connections
    /\ threw \in BOOLEAN
    /\ starts \in 0..MaxStarts

LEMMA TypeByParts == TypeOK <=> ClientTypeOK /\ AcceptTypeOK
BY DEF TypeOK, ClientTypeOK, AcceptTypeOK

------------------------------------------------------------------------------
(***************************************************************************)
(* The service's side.                                                     *)
(***************************************************************************)

\* A connection is added to or taken from the accepted ones.
LEMMA AcceptedCount ==
    ASSUME IsFiniteSet(accepted), NEW n
    PROVE  /\ Cardinality(accepted) \in Nat
           /\ IsFiniteSet(accepted \cup {n}) /\ IsFiniteSet(accepted \ {n})
           /\ Cardinality(accepted \cup {n}) \in Nat
           /\ Cardinality(accepted \ {n}) \in Nat
           /\ Cardinality(accepted \cup {n}) <= Cardinality(accepted) + 1
           /\ Cardinality(accepted \cup {n}) > 0
           /\ n \in accepted => Cardinality(accepted \ {n}) = Cardinality(accepted) - 1
<1>1. /\ Cardinality(accepted) \in Nat
      /\ IsFiniteSet(accepted \cup {n}) /\ IsFiniteSet(accepted \ {n})
    BY FS_CardinalityType, FS_AddElement, FS_RemoveElement
<1>2. Cardinality(accepted \cup {n}) \in Nat /\ Cardinality(accepted \ {n}) \in Nat
    BY <1>1, FS_CardinalityType
<1>3. Cardinality(accepted \cup {n}) <= Cardinality(accepted) + 1
    BY <1>1, FS_AddElement
<1>4. Cardinality(accepted \cup {n}) > 0
  <2>1. accepted \cup {n} # {}
    OBVIOUS
  <2>2. Cardinality(accepted \cup {n}) # 0
    BY <1>1, <2>1, FS_EmptySet
  <2> QED
    BY <1>2, <2>2
<1>5. n \in accepted => Cardinality(accepted \ {n}) = Cardinality(accepted) - 1
    BY FS_RemoveElement
<1> QED
    BY <1>1, <1>2, <1>3, <1>4, <1>5

\* What the sum says about its parts.
LEMMA SumBounds ==
    ASSUME NEW a \in Nat, NEW k \in Nat, NEW f \in Nat, NEW b \in Nat, NEW s,
           s \in 0..MaxStarts, a + k + f + b <= s
    PROVE  a \in 0..MaxStarts /\ f \in 0..MaxStarts /\ b \in 0..MaxStarts
BY ConnectAssumption

\* What has to be shown of a step of the service.
LEMMA AcceptParts ==
    ASSUME AcceptTypeOK, NEW k \in Nat, Cardinality(accepted)' = k,
           IsFiniteSet(accepted)', accepting' \in Nat, failed' \in Nat, aborted' \in Nat,
           accepting' + k + failed' + aborted' <= starts', starts' \in 0..MaxStarts,
           acceptor' \in {"closed", "opened", "bound", "listening"},
           accepted' \subseteq Connections, backlog' \subseteq Connections,
           myClients' \subseteq Connections, threw' \in BOOLEAN,
           is_open' /\ ~threw' => acceptor' = "listening" /\ accepting' + k + failed' > 0
    PROVE  AcceptTypeOK' /\ AcceptsBounded' /\ NotDeafSilently'
<1>1. accepting' \in 0..MaxStarts /\ failed' \in 0..MaxStarts /\ aborted' \in 0..MaxStarts
    BY SumBounds
<1> QED
    BY <1>1 DEF AcceptTypeOK, AcceptsBounded, NotDeafSilently

LEMMA AcceptInv ==
    ASSUME AcceptTypeOK, AcceptsBounded, NotDeafSilently,
           Start \/ StartAgain \/ Stop \/ AcceptStep
    PROVE  AcceptTypeOK' /\ AcceptsBounded' /\ NotDeafSilently'
<1> DEFINE k == Cardinality(accepted)
<1>1. /\ k \in Nat /\ accepting \in Nat /\ failed \in Nat /\ aborted \in Nat
      /\ starts \in Nat /\ starts <= MaxStarts /\ MaxStarts \in Nat
      /\ accepting + k + failed + aborted <= starts
      /\ IsFiniteSet(accepted)
  <2>1. IsFiniteSet(accepted) /\ accepting + k + failed + aborted <= starts
    BY DEF AcceptsBounded
  <2>2. k \in Nat
    BY <2>1, AcceptedCount
  <2>3. /\ accepting \in Nat /\ failed \in Nat /\ aborted \in Nat
        /\ starts \in Nat /\ starts <= MaxStarts /\ MaxStarts \in Nat
    BY ConnectAssumption DEF AcceptTypeOK
  <2> QED
    BY <2>1, <2>2, <2>3
<1> HIDE DEF k
<1> USE <1>1 DEF AcceptTypeOK
<1>2. CASE Start
  <2>1. k = Cardinality(accepted)' /\ IsFiniteSet(accepted)'
    BY <1>2 DEF Start, k
  <2>2. accepting' + k + failed' + aborted' <= starts' /\ starts' \in 0..MaxStarts
    BY <1>2 DEF Start
  <2>3. is_open' /\ ~threw' => acceptor' = "listening" /\ accepting' + k + failed' > 0
    BY <1>2 DEF Start, is_open
  <2>4. accepting' \in Nat /\ failed' \in Nat /\ aborted' \in Nat
    BY <1>2 DEF Start
  <2>5. acceptor' \in {"closed", "opened", "bound", "listening"} /\ threw' \in BOOLEAN
    BY <1>2 DEF Start
  <2>6. /\ accepted' \subseteq Connections /\ backlog' \subseteq Connections
        /\ myClients' \subseteq Connections
    BY <1>2 DEF Start
  <2> QED
    BY <2>1, <2>2, <2>3, <2>4, <2>5, <2>6, AcceptParts
<1>3. CASE StartAgain
  <2>1. k = Cardinality(accepted)' /\ IsFiniteSet(accepted)'
    BY <1>3 DEF StartAgain, k
  <2>2. accepting' + k + failed' + aborted' <= starts' /\ starts' \in 0..MaxStarts
    BY <1>3 DEF StartAgain
  <2>3. is_open' /\ ~threw' => acceptor' = "listening" /\ accepting' + k + failed' > 0
    BY <1>3 DEF StartAgain, is_open, NotDeafSilently, k
  <2> QED
    BY <1>3, <2>1, <2>2, <2>3, AcceptParts DEF StartAgain
<1>4. CASE Stop
  <2>1. k = Cardinality(accepted)' /\ IsFiniteSet(accepted)'
    BY <1>4 DEF Stop, k
  <2>2. accepting' + k + failed' + aborted' <= starts' /\ starts' \in 0..MaxStarts
    BY <1>4 DEF Stop
  <2>3. ~is_open'
    BY <1>4 DEF Stop, is_open
  <2>4. accepting' \in Nat /\ failed' \in Nat /\ aborted' \in Nat
    BY <1>4 DEF Stop
  <2>5. acceptor' = "closed" /\ threw' \in BOOLEAN
    BY <1>4 DEF Stop
  <2>6. /\ accepted' \subseteq Connections /\ backlog' \subseteq Connections
        /\ myClients' \subseteq Connections
    BY <1>4 DEF Stop
  <2> QED
    BY <2>1, <2>2, <2>3, <2>4, <2>5, <2>6, AcceptParts
<1>5. CASE AcceptCompletes
  <2>0. accepting > 0 /\ accepting' = accepting - 1
    BY <1>5 DEF AcceptCompletes
  <2>1. ASSUME NEW n \in backlog, accepted' = accepted \cup {n},
               backlog' = backlog \ {n}, failed' = failed
        PROVE  AcceptTypeOK' /\ AcceptsBounded' /\ NotDeafSilently'
    <3> DEFINE j == Cardinality(accepted \cup {n})
    <3>1. j \in Nat /\ j > 0 /\ j <= k + 1 /\ IsFiniteSet(accepted')
      BY <2>1, AcceptedCount DEF k
    <3>2. j = Cardinality(accepted)' /\ accepted' \subseteq Connections
      BY <2>1
    <3> HIDE DEF j
    <3>3. accepting' + j + failed' + aborted' <= starts' /\ accepting' + j + failed' > 0
      BY <1>5, <2>0, <2>1, <3>1 DEF AcceptCompletes
    <3>4. is_open' /\ ~threw' => acceptor' = "listening"
      BY <1>5 DEF AcceptCompletes, is_open, NotDeafSilently
    <3>5. /\ accepting' \in Nat /\ failed' \in Nat /\ aborted' \in Nat
          /\ starts' \in 0..MaxStarts /\ threw' \in BOOLEAN
          /\ acceptor' \in {"closed", "opened", "bound", "listening"}
          /\ backlog' \subseteq Connections /\ myClients' \subseteq Connections
      BY <1>5, <2>0, <2>1 DEF AcceptCompletes
    <3> QED
      BY <3>1, <3>2, <3>3, <3>4, <3>5, AcceptParts
  <2>2. CASE failed' = failed + 1 /\ UNCHANGED <<accepted, backlog>>
    <3>1. k = Cardinality(accepted)' /\ IsFiniteSet(accepted)'
      BY <2>2 DEF k
    <3>2. accepting' + k + failed' + aborted' <= starts' /\ accepting' + k + failed' > 0
      BY <1>5, <2>0, <2>2 DEF AcceptCompletes
    <3>3. is_open' /\ ~threw' => acceptor' = "listening"
      BY <1>5 DEF AcceptCompletes, is_open, NotDeafSilently
    <3> QED
      BY <1>5, <2>0, <2>2, <3>1, <3>2, <3>3, AcceptParts DEF AcceptCompletes
  <2> QED
    BY <1>5, <2>1, <2>2 DEF AcceptCompletes
<1>6. ASSUME NEW n \in accepted, HandleAccepted(n)
      PROVE  AcceptTypeOK' /\ AcceptsBounded' /\ NotDeafSilently'
  <2> DEFINE j == Cardinality(accepted \ {n})
  <2>1. j \in Nat /\ j = k - 1 /\ IsFiniteSet(accepted')
    BY <1>6, AcceptedCount DEF k, HandleAccepted
  <2>2. j = Cardinality(accepted)'
    BY <1>6 DEF HandleAccepted
  <2> HIDE DEF j
  <2>3. /\ accepting' = accepting \/ accepting' = accepting + 1
        /\ is_open => accepting' = accepting + 1
        /\ failed' = failed /\ aborted' = aborted /\ starts' = starts
        /\ acceptor' = acceptor /\ threw' = threw
    BY <1>6 DEF HandleAccepted, Rearmed
  <2>4. accepting' + j + failed' + aborted' <= starts'
    BY <2>1, <2>3
  <2>5. is_open' /\ ~threw' => acceptor' = "listening" /\ accepting' + j + failed' > 0
    <3>1. is_open' = is_open
      BY <2>3 DEF is_open
    <3>2. is_open => accepting' + j + failed' > 0
      BY <2>1, <2>3
    <3> QED
      BY <2>3, <3>1, <3>2 DEF NotDeafSilently
  <2>6. /\ accepting' \in Nat /\ failed' \in Nat /\ aborted' \in Nat
        /\ starts' \in 0..MaxStarts
    BY <2>3
  <2>7. /\ threw' \in BOOLEAN /\ acceptor' \in {"closed", "opened", "bound", "listening"}
        /\ accepted' \subseteq Connections /\ backlog' \subseteq Connections
        /\ myClients' \subseteq Connections
    BY <1>6 DEF HandleAccepted
  <2> QED
    BY <2>1, <2>2, <2>4, <2>5, <2>6, <2>7, AcceptParts
<1>7. CASE HandleAcceptError
  <2>1. k = Cardinality(accepted)' /\ IsFiniteSet(accepted)'
    BY <1>7 DEF HandleAcceptError, k
  <2>2. failed' \in Nat /\ accepting' + k + failed' + aborted' <= starts'
    BY <1>7 DEF HandleAcceptError
  <2>3. is_open' => threw'
    BY <1>7 DEF HandleAcceptError, is_open
  <2> QED
    BY <1>7, <2>1, <2>2, <2>3, AcceptParts DEF HandleAcceptError
<1>8. CASE HandleAcceptAborted
  <2>1. k = Cardinality(accepted)' /\ IsFiniteSet(accepted)'
    BY <1>8 DEF HandleAcceptAborted, k
  <2>2. aborted' \in Nat /\ accepting' + k + failed' + aborted' <= starts'
    BY <1>8 DEF HandleAcceptAborted
  <2>3. is_open' => threw'
    BY <1>8 DEF HandleAcceptAborted, is_open
  <2> QED
    BY <1>8, <2>1, <2>2, <2>3, AcceptParts DEF HandleAcceptAborted
<1> QED
    BY <1>2, <1>3, <1>4, <1>5, <1>6, <1>7, <1>8 DEF AcceptStep

------------------------------------------------------------------------------
(***************************************************************************)
(* The client's side.                                                      *)
(***************************************************************************)
ClientStep(c) ==
    \/ Open(c) \/ Close(c) \/ Destroy(c)
    \/ \E i \in Opens : OpenAsync(c, i) \/ OpenAlready(c, i) \/ OpenStep(c, i)

Stages == {"none", "resolving", "resolved", "unresolved", "connecting", "connected",
           "refused", "done"}

\* ConnectsAborted changes nothing but stages that stay pending.
LEMMA AbortedStages ==
    ASSUME ClientTypeOK, NEW c \in Clients
    PROVE  /\ ConnectsAborted(c) \in [Opens -> Stages]
           /\ \A i \in Opens : /\ ConnectsAborted(c)[i] = "none" <=> stage[c][i] = "none"
                               /\ ConnectsAborted(c)[i] = "done" <=> stage[c][i] = "done"
BY DEF ClientTypeOK, ConnectsAborted, Stages

\* The types; a step of client c leaves the service and the other clients alone.
LEMMA ClientStepType ==
    ASSUME ClientTypeOK, backlog \subseteq Connections, NEW c \in Clients, ClientStep(c)
    PROVE  /\ ClientTypeOK' /\ backlog' \subseteq Connections /\ UNCHANGED acceptVars
           /\ \A d \in Clients : d # c => /\ myState'[d] = myState[d]
                                          /\ myListener'[d] = myListener[d]
                                          /\ stage'[d] = stage[d] /\ told'[d] = told[d]
                                          /\ misused'[d] = misused[d]
                                          /\ fault'[d] = fault[d]
<1> USE DEF ClientTypeOK
<1> DEFINE Goal == /\ ClientTypeOK' /\ backlog' \subseteq Connections
                   /\ UNCHANGED acceptVars
                   /\ \A d \in Clients : d # c => /\ myState'[d] = myState[d]
                                                  /\ myListener'[d] = myListener[d]
                                                  /\ stage'[d] = stage[d]
                                                  /\ told'[d] = told[d]
                                                  /\ misused'[d] = misused[d]
                                                  /\ fault'[d] = fault[d]
<1>0. /\ ConnectsAborted(c) \in [Opens -> Stages]
      /\ 0 \in 0..MaxOpens /\ \A i \in Opens : i \in 0..MaxOpens
      /\ misused[c] \in BOOLEAN
    BY AbortedStages, ConnectAssumption DEF Opens
<1>1. CASE Open(c)
    BY <1>0, <1>1 DEF Open, Connections, Stages
<1>2. CASE Close(c)
    BY <1>0, <1>2 DEF Close, Stages
<1>3. CASE Destroy(c)
    BY <1>0, <1>3 DEF Destroy, Stages
<1>4. ASSUME NEW i \in Opens, OpenAsync(c, i)
      PROVE  Goal
    BY <1>0, <1>4 DEF OpenAsync
<1>5. ASSUME NEW i \in Opens, OpenAlready(c, i)
      PROVE  Goal
    BY <1>5 DEF OpenAlready, ClosureTold
<1>6. ASSUME NEW i \in Opens, Resolve(c, i) \/ ConnectFails(c, i)
      PROVE  Goal
  <2>1. PICK s \in Stages : stage' = [stage EXCEPT ![c][i] = s]
    BY <1>6 DEF Resolve, ConnectFails, Stages
  <2>2. /\ stage' \in [Clients -> [Opens -> Stages]]
        /\ \A d \in Clients : d # c => stage'[d] = stage[d]
    BY <2>1 DEF Stages
  <2>3. /\ UNCHANGED <<myState, myListener, told, misused, fault, backlog>>
        /\ UNCHANGED acceptVars
    BY <1>6 DEF Resolve, ConnectFails
  <2> QED
    BY <2>2, <2>3 DEF Stages
<1>7. ASSUME NEW i \in Opens, HandleResolve(c, i)
      PROVE  Goal
    BY <1>0, <1>7 DEF HandleResolve, Stages
<1>8. ASSUME NEW i \in Opens, Connected(c, i)
      PROVE  Goal
    BY <1>0, <1>8 DEF Connected, Connections
<1>9. ASSUME NEW i \in Opens, HandleOpenError(c, i) \/ HandleConnect(c, i)
      PROVE  Goal
  <2>0. /\ UNCHANGED <<myListener, misused, backlog>> /\ UNCHANGED acceptVars
        /\ myState' = myState \/ myState' = [myState EXCEPT ![c] = "OPEN"]
    BY <1>9 DEF HandleOpenError, HandleConnect, OpenFailed, Fault
  <2>1. CASE Fault(c, "null") \/ Fault(c, "assert")
    BY <2>0, <2>1 DEF Fault
  <2>2. CASE /\ ClosureTold(c, i, "error") \/ ClosureTold(c, i, "true")
             /\ UNCHANGED fault
    <3>0. PICK res \in {"error", "true"} :
              /\ told' = [told EXCEPT ![c][i] = res]
              /\ stage' = [stage EXCEPT ![c][i] = "done"]
      BY <2>2 DEF ClosureTold
    <3>1. /\ stage' \in [Clients -> [Opens -> Stages]]
          /\ \A d \in Clients : d # c => stage'[d] = stage[d]
      BY <3>0 DEF Stages
    <3>2. /\ told' \in [Clients -> [Opens -> {"none", "true", "error", "already"}]]
          /\ \A d \in Clients : d # c => told'[d] = told[d]
      BY <3>0
    <3> QED
      BY <2>0, <2>2, <3>1, <3>2 DEF Stages
  <2> QED
    BY <1>9, <2>1, <2>2 DEF HandleOpenError, HandleConnect, OpenFailed
<1> QED
    BY <1>1, <1>2, <1>3, <1>4, <1>5, <1>6, <1>7, <1>8, <1>9
    DEF ClientStep, OpenStep

\* An open() that is pending and gets its answer: no other is pending, if the client
\* is not misused.
LEMMA LastPending ==
    ASSUME NEW c \in Clients, OpenOK(c), ~misused[c], NEW i \in Opens,
           i \in Pending(c),
           \A j \in Opens : j # i => stage'[c][j] = stage[c][j],
           stage'[c][i] = "done"
    PROVE  Pending(c)' = {}
BY DEF OpenOK, Pending

\* A step that makes no open() pending keeps OpenOK.
LEMMA OpenKept ==
    ASSUME NEW c \in Clients, OpenOK(c),
           Pending(c)' \subseteq Pending(c),
           \A i \in Opens : stage'[c][i] # "done" =>
               stage[c][i] # "done" /\ told'[c][i] = told[c][i],
           ~misused'[c] => ~misused[c] /\ fault'[c] = "none",
           ~misused'[c] /\ Pending(c)' # {} =>
               myListener'[c] = myListener[c] /\ myState'[c] = myState[c]
    PROVE  OpenOK(c)'
BY DEF OpenOK

LEMMA ClientStepOpens ==
    ASSUME ClientTypeOK, NEW c \in Clients, OpenOK(c), ClientStep(c)
    PROVE  OpenOK(c)'
<1> USE DEF ClientTypeOK
<1>1. CASE Open(c)
  <2>1. \A i \in Opens : stage'[c][i] \in {"none", "done"} <=> stage[c][i] \in {"none", "done"}
    BY <1>1, AbortedStages DEF Open
  <2>2. \A i \in Opens : stage'[c][i] # "done" => stage[c][i] # "done" /\ told'[c][i] = told[c][i]
    BY <1>1, AbortedStages DEF Open
  <2>3. Pending(c)' = Pending(c) /\ fault' = fault /\ misused'[c] = (misused[c] \/ Pending(c) # {})
    BY <1>1, <2>1 DEF Open, Pending
  <2> QED
    BY <2>2, <2>3, OpenKept DEF OpenOK
<1>2. CASE Close(c)
  <2>1. \A i \in Opens : stage'[c][i] \in {"none", "done"} <=> stage[c][i] \in {"none", "done"}
    BY <1>2, AbortedStages DEF Close
  <2>2. \A i \in Opens : stage'[c][i] # "done" => stage[c][i] # "done" /\ told'[c][i] = told[c][i]
    BY <1>2, AbortedStages DEF Close
  <2>3. /\ Pending(c)' = Pending(c) /\ fault' = fault /\ misused' = misused
        /\ myState[c] = "OPEN"
    BY <1>2, <2>1 DEF Close, Pending
  <2> QED
    BY <2>2, <2>3, OpenKept DEF OpenOK
<1>3. CASE Destroy(c)
  <2>1. \A i \in Opens : stage'[c][i] \in {"none", "done"} <=> stage[c][i] \in {"none", "done"}
    BY <1>3, AbortedStages DEF Destroy
  <2>2. \A i \in Opens : stage'[c][i] # "done" => stage[c][i] # "done" /\ told'[c][i] = told[c][i]
    BY <1>3, AbortedStages DEF Destroy
  <2>3. Pending(c)' = Pending(c) /\ fault' = fault /\ misused'[c] = (misused[c] \/ Pending(c) # {})
    BY <1>3, <2>1 DEF Destroy, Pending
  <2> QED
    BY <2>2, <2>3, OpenKept DEF OpenOK
<1>4. ASSUME NEW i \in Opens, OpenAsync(c, i)
      PROVE  OpenOK(c)'
  <2>1. /\ stage'[c][i] = "resolving" /\ \A j \in Opens : j # i => stage'[c][j] = stage[c][j]
        /\ stage[c][i] = "none"
        /\ told' = told /\ fault' = fault /\ fault[c] = "none"
        /\ myListener' = myListener /\ myState' = myState
        /\ misused'[c] = (misused[c] \/ Pending(c) # {})
        /\ myListener[c] /\ myState[c] = "NEW"
    BY <1>4 DEF OpenAsync, UserRuns, NextOpen, MayOpen
  <2>2. Pending(c)' = Pending(c) \cup {i}
    BY <2>1 DEF Pending
  <2> QED
    BY <2>1, <2>2 DEF OpenOK
<1>5. ASSUME NEW i \in Opens, OpenAlready(c, i)
      PROVE  OpenOK(c)'
  <2>1. /\ stage'[c][i] = "done" /\ \A j \in Opens : j # i => /\ stage'[c][j] = stage[c][j]
                                                              /\ told'[c][j] = told[c][j]
        /\ stage[c][i] = "none"
        /\ misused' = misused /\ fault' = fault
        /\ myListener' = myListener /\ myState' = myState
    BY <1>5 DEF OpenAlready, NextOpen, ClosureTold
  <2>2. Pending(c)' = Pending(c)
    BY <2>1 DEF Pending
  <2> QED
    BY <2>1, <2>2 DEF OpenOK
<1>6. ASSUME NEW i \in Opens, Resolve(c, i) \/ ConnectFails(c, i) \/ Connected(c, i)
      PROVE  OpenOK(c)'
  <2>1. /\ stage'[c][i] \notin {"none", "done"} /\ stage[c][i] \notin {"none", "done"}
        /\ \A j \in Opens : j # i => stage'[c][j] = stage[c][j]
        /\ told' = told /\ misused' = misused /\ fault' = fault
        /\ myListener' = myListener /\ myState' = myState
    BY <1>6 DEF Resolve, ConnectFails, Connected, At
  <2>2. Pending(c)' = Pending(c)
    BY <2>1 DEF Pending
  <2> QED
    BY <2>1, <2>2 DEF OpenOK
<1>7. ASSUME NEW i \in Opens, HandleResolve(c, i)
      PROVE  OpenOK(c)'
  <2>0. /\ stage'[c] = [ConnectsAborted(c) EXCEPT ![i] = "connecting"]
        /\ stage[c][i] = "resolved"
        /\ told' = told /\ misused' = misused /\ fault' = fault
        /\ myListener' = myListener /\ myState' = myState
    BY <1>7 DEF HandleResolve, At
  <2>1. \A j \in Opens :
            /\ stage'[c][j] = "none" <=> stage[c][j] = "none"
            /\ stage'[c][j] = "done" <=> stage[c][j] = "done"
    BY <2>0, AbortedStages
  <2>2. Pending(c)' = Pending(c)
    BY <2>1 DEF Pending
  <2> QED
    BY <2>0, <2>1, <2>2 DEF OpenOK
<1>8. ASSUME NEW i \in Opens, HandleOpenError(c, i) \/ HandleConnect(c, i)
      PROVE  OpenOK(c)'
  <2>0. /\ stage[c][i] \in {"unresolved", "refused", "connected"}
        /\ misused' = misused /\ myListener' = myListener
        /\ i \in Pending(c)
    BY <1>8 DEF HandleOpenError, HandleConnect, At, Pending
  <2>1. CASE \E kind : Fault(c, kind)
    <3>1. misused[c]
      BY <1>8, <2>0, <2>1
      DEF HandleOpenError, HandleConnect, OpenFailed, Fault, ClosureTold, At, OpenOK
    <3>2. Pending(c)' = Pending(c) /\ stage' = stage /\ told' = told
      BY <2>1 DEF Fault, Pending
    <3> QED
      BY <2>0, <3>1, <3>2 DEF OpenOK
  <2>2. CASE \E res : ClosureTold(c, i, res) /\ UNCHANGED fault
    <3>1. /\ stage'[c][i] = "done" /\ fault' = fault
          /\ \A j \in Opens : j # i => /\ stage'[c][j] = stage[c][j]
                                       /\ told'[c][j] = told[c][j]
      BY <2>2 DEF ClosureTold
    <3>2. Pending(c)' \subseteq Pending(c)
      BY <3>1 DEF Pending
    <3>3. ~misused[c] => Pending(c)' = {}
      BY <2>0, <3>1, LastPending
    <3> QED
      BY <2>0, <3>1, <3>2, <3>3 DEF OpenOK
  <2> QED
    BY <1>8, <2>1, <2>2 DEF HandleOpenError, HandleConnect, OpenFailed
<1> QED
    BY <1>1, <1>2, <1>3, <1>4, <1>5, <1>6, <1>7, <1>8 DEF ClientStep, OpenStep

------------------------------------------------------------------------------
(***************************************************************************)
(* The theorems.                                                           *)
(***************************************************************************)

\* Inv is inductive: the closures' promises rest on the count of accepts and on the
\* one open() that is pending.
THEOREM ConnectCorrect == Spec => []Inv
<1>1. Init => Inv
  <2> SUFFICES ASSUME Init
               PROVE  Inv
    OBVIOUS
  <2> USE DEF Init
  <2>1. ClientTypeOK
    BY DEF ClientTypeOK
  <2>2. AcceptTypeOK
    <3>1. 0 \in 0..MaxStarts
      BY ConnectAssumption
    <3> QED
      BY <3>1 DEF AcceptTypeOK
  <2>3. AcceptsBounded
    BY FS_EmptySet DEF AcceptsBounded
  <2>4. NotDeafSilently
    BY DEF NotDeafSilently, is_open
  <2>5. ASSUME NEW c \in Clients
        PROVE  OpenOK(c)
    BY <2>5 DEF OpenOK, Pending
  <2> QED
    BY <2>1, <2>2, <2>3, <2>4, <2>5, TypeByParts DEF Inv
<1>2. Inv /\ [Next]_vars => Inv'
  <2> SUFFICES ASSUME Inv, [Next]_vars
               PROVE  Inv'
    OBVIOUS
  <2>0. /\ ClientTypeOK /\ AcceptTypeOK /\ AcceptsBounded /\ NotDeafSilently
        /\ \A c \in Clients : OpenOK(c)
    BY TypeByParts DEF Inv
  <2>1. CASE UNCHANGED vars
    BY <2>1
    DEF Inv, vars, clientVars, acceptVars, TypeOK, AcceptsBounded, NotDeafSilently, is_open,
        OpenOK, Pending
  <2>2. CASE Start \/ StartAgain \/ Stop \/ AcceptStep
    <3>1. AcceptTypeOK' /\ AcceptsBounded' /\ NotDeafSilently'
      BY <2>0, <2>2, AcceptInv
    <3>2. UNCHANGED clientVars
      BY <2>2
      DEF Start, StartAgain, Stop, AcceptStep, AcceptCompletes, HandleAcceptError,
          HandleAcceptAborted, HandleAccepted
    <3>3. ClientTypeOK' /\ \A c \in Clients : OpenOK(c)'
      BY <2>0, <3>2 DEF ClientTypeOK, OpenOK, Pending, clientVars
    <3> QED
      BY <3>1, <3>3 DEF Inv, TypeOK, ClientTypeOK, AcceptTypeOK
  <2>3. ASSUME NEW c \in Clients, ClientStep(c)
        PROVE  Inv'
    <3>0. backlog \subseteq Connections
      BY <2>0 DEF AcceptTypeOK
    <3>1. /\ ClientTypeOK' /\ backlog' \subseteq Connections /\ UNCHANGED acceptVars
          /\ \A d \in Clients : d # c => /\ myState'[d] = myState[d]
                                         /\ myListener'[d] = myListener[d]
                                         /\ stage'[d] = stage[d] /\ told'[d] = told[d]
                                         /\ misused'[d] = misused[d]
                                         /\ fault'[d] = fault[d]
      BY <2>0, <2>3, <3>0, ClientStepType
    <3>2. AcceptTypeOK' /\ AcceptsBounded' /\ NotDeafSilently'
      BY <2>0, <3>1
      DEF AcceptTypeOK, AcceptsBounded, NotDeafSilently, is_open, acceptVars
    <3>3. ASSUME NEW d \in Clients
          PROVE  OpenOK(d)'
      <4>1. CASE d = c
        BY <2>0, <2>3, <4>1, ClientStepOpens
      <4>2. CASE d # c
        BY <2>0, <3>1, <4>2 DEF OpenOK, Pending
      <4> QED
        BY <4>1, <4>2
    <3> QED
      BY <3>1, <3>2, <3>3 DEF Inv, TypeOK, ClientTypeOK, AcceptTypeOK
  <2> QED
    BY <2>1, <2>2, <2>3 DEF Next, ClientStep
<1> QED
    BY <1>1, <1>2, PTL DEF Spec

\* Type correctness; in particular the accepts outstanding or queued are never more
\* than the calls of start(), whatever stop() and errors come in between.
THEOREM TypeCorrect == Spec => []TypeOK
<1>1. Inv => TypeOK
    BY DEF Inv
<1> QED
    BY <1>1, ConnectCorrect, PTL

\* The asserts of BasicStreamTransport::open and the unchecked listener of
\* handle_resolve and handle_connect fail only after open() was called again, or the
\* Client destroyed, before the closure of the first open() was called.
THEOREM MisuseCorrect == Spec => []OnlyMisuseFails
<1>1. Inv => OnlyMisuseFails
    BY DEF Inv, OpenOK, OnlyMisuseFails
<1> QED
    BY <1>1, ConnectCorrect, PTL

\* An open acceptor listens and has an accept outstanding or its handler queued,
\* unless an exception told the user of the service, after any sequence of start(),
\* stop() and accept errors.
THEOREM AcceptorCorrect == Spec => []NotDeafSilently
<1>1. Inv => NotDeafSilently
    BY DEF Inv
<1> QED
    BY <1>1, ConnectCorrect, PTL

\* The closure of open() is called once; it is told true only in the step that opens
\* the transport; and it is told of an error only when nothing can open it any more.
THEOREM ClosureCorrect == Spec => OpenClosureTruthful
<1> DEFINE Truth(c, i) ==
        told'[c][i] # told[c][i] =>
          /\ told[c][i] = "none"
          /\ told'[c][i] = "true" => myState[c] = "NEW" /\ myState'[c] = "OPEN"
          /\ told'[c][i] = "error" /\ ~misused[c] =>
                myState'[c] # "OPEN" /\ Pending(c)' = {}
<1>1. Inv /\ [Next]_vars => [\A c \in Clients, i \in Opens : Truth(c, i)]_vars
  <2> SUFFICES ASSUME Inv, Next, NEW c \in Clients, NEW i \in Opens,
                      told'[c][i] # told[c][i]
               PROVE  Truth(c, i)
    OBVIOUS
  <2>0. ClientTypeOK /\ OpenOK(c)
    BY TypeByParts DEF Inv
  <2>1. ASSUME NEW d \in Clients, NEW j \in Opens, NEW res, ClosureTold(d, j, res)
        PROVE  /\ c = d /\ i = j /\ told'[c][i] = res
               /\ stage'[c][i] = "done"
               /\ \A k \in Opens : k # i => stage'[c][k] = stage[c][k]
    BY <2>0, <2>1 DEF ClosureTold, ClientTypeOK
  <2>2. ASSUME NEW d \in Clients, NEW j \in Opens, OpenAlready(d, j)
        PROVE  Truth(c, i)
    <3>1. ClosureTold(d, j, "already") /\ stage[d][j] = "none"
      BY <2>2 DEF OpenAlready, NextOpen
    <3>2. c = d /\ i = j /\ told'[c][i] = "already"
      BY <2>1, <3>1
    <3> QED
      BY <2>0, <3>1, <3>2 DEF OpenOK
  <2>3. ASSUME NEW d \in Clients, NEW j \in Opens, HandleOpenError(d, j)
        PROVE  Truth(c, i)
    <3>1. /\ ClosureTold(d, j, "error") /\ myState' = myState
          /\ stage[d][j] \in {"unresolved", "refused"}
      BY <2>3 DEF HandleOpenError, OpenFailed, Fault, At
    <3>2. /\ c = d /\ i = j /\ told'[c][i] = "error" /\ stage'[c][i] = "done"
          /\ \A k \in Opens : k # i => stage'[c][k] = stage[c][k]
      BY <2>1, <3>1
    <3>3. i \in Pending(c) /\ told[c][i] = "none"
      BY <2>0, <3>1, <3>2 DEF Pending, OpenOK
    <3>4. ~misused[c] => myState[c] = "NEW" /\ Pending(c)' = {}
      BY <2>0, <3>2, <3>3, LastPending DEF OpenOK
    <3> QED
      BY <3>1, <3>2, <3>3, <3>4
  <2>4. ASSUME NEW d \in Clients, NEW j \in Opens, HandleConnect(d, j)
        PROVE  Truth(c, i)
    <3>1. /\ ClosureTold(d, j, "true") /\ myState[d] = "NEW"
          /\ myState' = [myState EXCEPT ![d] = "OPEN"] /\ stage[d][j] = "connected"
      BY <2>4 DEF HandleConnect, Fault, At
    <3>2. c = d /\ i = j /\ told'[c][i] = "true"
      BY <2>1, <3>1
    <3>3. myState'[c] = "OPEN"
      BY <2>0, <3>1, <3>2 DEF ClientTypeOK
    <3> QED
      BY <2>0, <3>1, <3>2, <3>3 DEF OpenOK
  <2> QED
    BY <2>2, <2>3, <2>4
    DEF Next, Open, Close, Destroy, OpenAsync, OpenStep, Resolve, HandleResolve, Connected,
        ConnectFails, Start, StartAgain, Stop, AcceptStep, AcceptCompletes,
        HandleAcceptError, HandleAcceptAborted, HandleAccepted, clientVars
<1> QED
    BY <1>1, ConnectCorrect, PTL DEF Spec, OpenClosureTruthful
==============================================================================
