---------------------------- MODULE WalletsProofs ----------------------------
(***************************************************************************)
(* Proofs about Wallets, for any number of wallet-ids and requests: the     *)
(* registry and its reloads first, then the maps kept beside it.           *)
(***************************************************************************)
EXTENDS Wallets, TLAPS

(* A registered wallet is up and has its key's id, and so has the wallet a  *)
(* request found.                                                           *)
RegistryInv ==
  /\ \A id \in Ids : registry[id] # Null =>
       pc[registry[id]] = "up" /\ idOf[registry[id]] = id
  /\ \A q \in Stops \cup Uses :
       /\ pc[q] \in {"confirm", "stopping", "working"} => target[q] # Null
       /\ target[q] # Null => pc[target[q]] = "up" /\ idOf[target[q]] = idOf[q]

TypeInv == TypeOK /\ RegistryInv

USE WalletsAssumption
USE DEF Requests, Configs

LEMMA SlotType ==
  ASSUME NEW id \in Ids, TypeOK
  PROVE  /\ WalletLock(id) \in {HsmSlot} \cup (Ids \X Nat)
         /\ locks[id] + 1 \in Nat
BY DEF WalletLock, SlotOf, TypeOK

LEMMA StartType ==
  ASSUME TypeInv, NEW s \in Starts, StartStep(s)
  PROVE  TypeInv'
<1> USE DEF TypeInv, TypeOK, RegistryInv, Goto, mapVars, history, Registered
<1>1. CASE StartRefused(s)
  BY <1>1 DEF StartRefused
<1>2. CASE StartCrashes(s)
  <2>1. alive' \in BOOLEAN
    BY <1>2, Zenon DEF StartCrashes
  <2>2. /\ pc' = [pc EXCEPT ![s] = "failed"] /\ pc[s] # "up"
        /\ UNCHANGED <<idOf, kind, target, slot, cfg, old, visited, toClear, registry, hsmIds,
                     locks, taken, listened, closed, config>>
    BY <1>2 DEF StartCrashes
  <2> QED
    BY <2>1, <2>2
<1>3. CASE StartBegins(s)
  BY <1>3 DEF StartBegins
<1>4. CASE SignerAnswers(s)
  BY <1>4 DEF SignerAnswers
<1>5. CASE SignerFails(s)
  BY <1>5 DEF SignerFails
<1>6. CASE StartResolves(s)
  BY <1>6 DEF StartResolves
<1>7. CASE StartRejects(s)
  BY <1>7 DEF StartRejects
<1> QED
  BY <1>1, <1>2, <1>3, <1>4, <1>5, <1>6, <1>7 DEF StartStep

LEMMA LookupType ==
  ASSUME TypeInv, NEW q \in Stops \cup Uses,
         WalletFound(q) \/ WalletCrashes(q) \/ WalletRefused(q)
  PROVE  TypeInv'
<1> USE DEF TypeInv, TypeOK, RegistryInv, Goto, mapVars, history, Registered
<1>1. CASE WalletFound(q)
  BY <1>1 DEF WalletFound
<1>2. CASE WalletCrashes(q)
  <2>1. alive' \in BOOLEAN
    BY <1>2, Zenon DEF WalletCrashes
  <2>2. /\ pc' = [pc EXCEPT ![q] = "failed"] /\ pc[q] # "up"
        /\ UNCHANGED <<idOf, kind, target, slot, cfg, old, visited, toClear, registry, hsmIds,
                     locks, taken, listened, closed, config>>
    BY <1>2 DEF WalletCrashes
  <2> QED
    BY <2>1, <2>2
<1>3. CASE WalletRefused(q)
  BY <1>3 DEF WalletRefused
<1> QED
  BY <1>1, <1>2, <1>3

LEMMA StopType ==
  ASSUME TypeInv, NEW p \in Stops, StopStep(p)
  PROVE  TypeInv'
<1> USE DEF TypeInv, TypeOK, RegistryInv, Goto, mapVars, history, Registered
<1>1. CASE StopBegins(p)
  BY <1>1 DEF StopBegins
<1>2. CASE StopOfNothing(p)
  BY <1>2 DEF StopOfNothing
<1>3. CASE StopResolves(p)
  BY <1>3, SlotType DEF StopResolves, Deregister, ForgetProposals
<1>4. CASE StopRejects(p)
  BY <1>4 DEF StopRejects
<1> QED
  BY <1>1, <1>2, <1>3, <1>4, LookupType DEF StopStep

LEMMA UseType ==
  ASSUME TypeInv, NEW u \in Uses, UseStep(u)
  PROVE  TypeInv'
<1> USE DEF TypeInv, TypeOK, RegistryInv, Goto, mapVars, history, Registered
<1>1. CASE SendBegins(u)
  BY <1>1, SlotType DEF SendBegins
<1>2. CASE SendEnds(u)
  BY <1>2 DEF SendEnds
<1>3. CASE ListenBegins(u)
  BY <1>3 DEF ListenBegins
<1>4. CASE ListenFails(u)
  BY <1>4 DEF ListenFails
<1>5. CASE ListenEnds(u)
  BY <1>5 DEF ListenEnds
<1> QED
  BY <1>1, <1>2, <1>3, <1>4, <1>5, LookupType DEF UseStep

LEMMA ReloadType ==
  ASSUME TypeInv, NEW r \in Reloads, ReloadStep(r)
  PROVE  TypeInv'
<1> USE DEF TypeInv, TypeOK, RegistryInv, Goto, mapVars, history, Registered
<1>1. CASE ReloadBegins(r)
  BY <1>1 DEF ReloadBegins
<1>2. CASE ReloadFails(r)
  BY <1>2 DEF ReloadFails
<1>3. CASE ReloadExits(r)
  <2>1. alive' \in BOOLEAN
    BY <1>3, Zenon DEF ReloadExits
  <2>2. /\ pc' = [pc EXCEPT ![r] = "failed"] /\ pc[r] # "up"
        /\ UNCHANGED <<idOf, kind, target, slot, cfg, old, visited, toClear, registry, hsmIds,
                     locks, taken, listened, closed, config>>
    BY <1>3 DEF ReloadExits
  <2> QED
    BY <2>1, <2>2
<1>4. CASE ReloadKeeps(r)
  BY <1>4 DEF ReloadKeeps
<1>5. CASE ReloadStopsAll(r)
  BY <1>5 DEF ReloadStopsAll
<1>6. CASE ReloadStopsOne(r)
  BY <1>6 DEF ReloadStopsOne
<1>7. CASE ReloadStopsEnd(r)
  BY <1>7 DEF ReloadStopsEnd
<1>8. CASE ReloadClears(r)
  BY <1>8 DEF ReloadClears, Deregister, ForgetProposals
<1>9. CASE ReloadEnds(r)
  BY <1>9 DEF ReloadEnds
<1> QED
  BY <1>1, <1>2, <1>3, <1>4, <1>5, <1>6, <1>7, <1>8, <1>9 DEF ReloadStep

LEMMA TypeInductive == TypeInv /\ [Next]_vars => TypeInv'
<1> SUFFICES ASSUME TypeInv, [Next]_vars
             PROVE  TypeInv'
  OBVIOUS
<1>1. CASE LockTimesOut
  BY <1>1 DEF TypeInv, TypeOK, RegistryInv, LockTimesOut, requestVars, history
<1>2. CASE UNCHANGED vars
  BY <1>2 DEF TypeInv, TypeOK, RegistryInv, vars, requestVars, mapVars, history
<1> QED
  BY <1>1, <1>2, StartType, StopType, UseType, ReloadType DEF Next, Quiet

(***************************************************************************)
(* Every map keeps its type; a stopped wallet was up, and a registered one *)
(* is, under its own id.                                                   *)
(***************************************************************************)
LEMMA TypeInvHolds == Spec => []TypeInv
<1>1. Init => TypeInv
  BY DEF Init, TypeInv, TypeOK, RegistryInv
<1>2. TypeInv /\ [Next]_vars => TypeInv'
  BY TypeInductive
<1> QED
  BY <1>1, <1>2, PTL DEF Spec

(***************************************************************************)
(* The type invariant the runs check, for every value of the constants.    *)
(***************************************************************************)
THEOREM WalletsTypeCorrect == Spec => []TypeOK
<1>1. TypeInv => TypeOK
  BY DEF TypeInv
<1> QED
  BY <1>1, TypeInvHolds, PTL

-----------------------------------------------------------------------------
(* What the steps of other requests leave of the reloads. *)

LEMMA ReloadsUntouched ==
  ASSUME TypeInv,
         NEW q \in Starts \cup Stops \cup Uses,
         \/ q \in Starts /\ StartStep(q)
         \/ q \in Stops /\ StopStep(q)
         \/ q \in Uses /\ UseStep(q)
  PROVE  /\ \A r \in Reloads : pc'[r] = pc[r]
         /\ UNCHANGED <<old, config, toClear>>
<1> USE DEF TypeInv, TypeOK, Goto
<1>1. CASE q \in Starts /\ StartStep(q)
  BY <1>1 DEF StartStep, StartRefused, StartCrashes, StartBegins, SignerAnswers,
     SignerFails, StartResolves, StartRejects
<1>2. CASE WalletFound(q) \/ WalletCrashes(q) \/ WalletRefused(q)
  BY <1>2 DEF WalletFound, WalletCrashes, WalletRefused
<1>3. CASE StopBegins(q) \/ StopOfNothing(q) \/ StopResolves(q) \/ StopRejects(q)
  BY <1>3 DEF StopBegins, StopOfNothing, StopResolves, StopRejects
<1>4. CASE SendBegins(q) \/ SendEnds(q) \/ ListenBegins(q) \/ ListenFails(q) \/ ListenEnds(q)
  BY <1>4 DEF SendBegins, SendEnds, ListenBegins, ListenFails, ListenEnds
<1> QED
  BY <1>1, <1>2, <1>3, <1>4 DEF StopStep, UseStep

(* A reload that found a configuration keeps it null until it ends. *)
ReloadInv ==
  /\ OneReloadAtATime
  /\ config # Null => \A r \in Reloads : InFlight(r) => old[r] = Null
  /\ \A r \in Reloads : pc[r] \in {"loop", "clear"} => old[r] # Null

LEMMA ReloadInductive ==
  ASSUME TypeInv, ReloadInv, [Next]_vars
  PROVE  ReloadInv'
<1> USE DEF ReloadInv, OneReloadAtATime, InFlight
<1>1. ASSUME NEW r \in Reloads, ReloadStep(r)
      PROVE  ReloadInv'
  <2> USE DEF TypeInv, TypeOK, Goto
  <2>1. CASE ReloadBegins(r)
    BY <2>1 DEF ReloadBegins
  <2>2. CASE ReloadFails(r)
    BY <2>2 DEF ReloadFails
  <2>3. CASE ReloadExits(r)
    <3>1. /\ pc' = [pc EXCEPT ![r] = "failed"]
          /\ UNCHANGED <<old, config>>
      BY <2>3 DEF ReloadExits
    <3> QED
      BY <3>1
  <2>4. CASE ReloadKeeps(r)
    BY <2>4 DEF ReloadKeeps
  <2>5. CASE ReloadStopsAll(r)
    BY <2>5 DEF ReloadStopsAll
  <2>6. CASE ReloadStopsOne(r)
    BY <2>6 DEF ReloadStopsOne
  <2>7. CASE ReloadStopsEnd(r)
    BY <2>7 DEF ReloadStopsEnd
  <2>8. CASE ReloadClears(r)
    BY <2>8 DEF ReloadClears
  <2>9. CASE ReloadEnds(r)
    BY <2>9 DEF ReloadEnds
  <2> QED
    BY <1>1, <2>1, <2>2, <2>3, <2>4, <2>5, <2>6, <2>7, <2>8, <2>9 DEF ReloadStep
<1>2. CASE (\A r \in Reloads : pc'[r] = pc[r]) /\ UNCHANGED <<old, config>>
  BY <1>2
<1>3. CASE UNCHANGED vars \/ LockTimesOut
  BY <1>2, <1>3 DEF vars, requestVars, LockTimesOut
<1> QED
  BY <1>1, <1>2, <1>3, ReloadsUntouched DEF Next, Quiet

(***************************************************************************)
(* For any number of reloads, at most one of those in flight has an old    *)
(* configuration to compare with, and only it stops wallets.               *)
(***************************************************************************)
THEOREM ReloadsDoNotOverlap == Spec => []OneReloadAtATime
<1>1. Init => ReloadInv
  BY DEF Init, ReloadInv, OneReloadAtATime, InFlight
<1>2. TypeInv /\ ReloadInv /\ [Next]_vars => ReloadInv'
  BY ReloadInductive
<1>3. ReloadInv => OneReloadAtATime
  BY DEF ReloadInv
<1> QED
  BY <1>1, <1>2, <1>3, TypeInvHolds, PTL DEF Spec

-----------------------------------------------------------------------------
(* NoOrphan rests on what the requests that are about to register or to     *)
(* delete an id know of it.                                                 *)

Excused == overlapped \cup outlived

(* Two starts of an id are never in flight together, nor is one while the   *)
(* id is registered.                                                        *)
StartsInv ==
  /\ \A s, t \in Starts :
       InFlight(s) /\ InFlight(t) /\ idOf[s] = idOf[t] /\ s # t => idOf[s] \in overlapped
  /\ \A s \in Starts : InFlight(s) /\ idOf[s] \in Registered => idOf[s] \in overlapped

(* A stop that awaits is alone, and its wallet is still registered.         *)
StopsInv ==
  \A p \in Stops : pc[p] = "stopping" /\ idOf[p] \notin Excused =>
    /\ idOf[p] \in Registered /\ registry[idOf[p]] \in closed
    /\ \A q \in Stops : pc[q] = "stopping" /\ idOf[q] = idOf[p] => q = p

(* A reload only deletes the keys of wallets that it or a stop closed.      *)
ClearsInv ==
  \A r \in Reloads :
    /\ pc[r] \in {"idle", "import"} => visited[r] = {}
    /\ pc[r] = "loop" =>
         \A id \in visited[r] \ overlapped : id \in Registered /\ registry[id] \in closed
    /\ pc[r] = "clear" =>
         \A id \in toClear[r] \ overlapped :
           IF id \in Registered THEN registry[id] \in closed
           ELSE \A s \in Starts : InFlight(s) => idOf[s] # id

OrphanInv == NoOrphan /\ StartsInv /\ StopsInv /\ ClearsInv

(* A step that changes nothing OrphanInv speaks of.                         *)
Unmoved ==
  /\ UNCHANGED <<idOf, registry, closed, visited, toClear, overlapped, outlived>>
  /\ \A s \in Starts :
       /\ pc'[s] = "up" <=> pc[s] = "up"
       /\ InFlight(s)' => InFlight(s)
  /\ \A p \in Stops : pc'[p] = "stopping" => pc[p] = "stopping"
  /\ \A r \in Reloads :
       /\ pc'[r] \in {"idle", "import"} => pc[r] \in {"idle", "import"}
       /\ pc'[r] \in {"loop", "clear"} => pc'[r] = pc[r]

LEMMA OrphanUnmoved == OrphanInv /\ Unmoved => OrphanInv'
BY DEF Unmoved, OrphanInv, NoOrphan, StartsInv, StopsInv, ClearsInv, Excused, Running,
   Registered

LEMMA OrphanStart ==
  ASSUME TypeInv, ReloadInv, OrphanInv, NEW s \in Starts, StartStep(s)
  PROVE  OrphanInv'
<1> USE DEF TypeInv, TypeOK, RegistryInv, Goto, mapVars, history
<1>1. CASE StartRefused(s)
  <2>1. Unmoved
    BY <1>1 DEF StartRefused, Unmoved, InFlight
  <2> QED
    BY <2>1, OrphanUnmoved
<1>2. CASE StartCrashes(s)
  <2>1. Unmoved
    BY <1>2 DEF StartCrashes, Unmoved, InFlight
  <2> QED
    BY <2>1, OrphanUnmoved
<1>3. CASE StartBegins(s)
  <2> USE <1>3 DEF StartBegins, OrphanInv, InFlight, Registered
  <2>1. NoOrphan'
    BY DEF NoOrphan, Running
  <2>2. StartsInv'
    BY DEF StartsInv
  <2>3. StopsInv'
    BY DEF StopsInv, Excused
  <2>4. ClearsInv'
    BY DEF ClearsInv, ReloadInv
  <2> QED
    BY <2>1, <2>2, <2>3, <2>4
<1>4. CASE SignerAnswers(s)
  <2>1. Unmoved
    BY <1>4 DEF SignerAnswers, Unmoved, InFlight
  <2> QED
    BY <2>1, OrphanUnmoved
<1>5. CASE SignerFails(s)
  <2>1. Unmoved
    BY <1>5 DEF SignerFails, Unmoved, InFlight
  <2> QED
    BY <2>1, OrphanUnmoved
<1>6. CASE StartResolves(s)
  <2> USE <1>6 DEF StartResolves, OrphanInv, InFlight, Registered
  <2>1. NoOrphan'
    BY DEF NoOrphan, Running, StartsInv
  <2>2. StartsInv'
    BY DEF StartsInv
  <2>3. StopsInv'
    BY DEF StopsInv, Excused, StartsInv
  <2>4. ClearsInv'
    <3>1. /\ InFlight(s) /\ pc[s] # "up"
          /\ \A r \in Reloads : pc'[r] = pc[r]
          /\ \A t \in Starts : InFlight(t)' => InFlight(t)
      OBVIOUS
    <3>2. idOf[s] \in Registered => idOf[s] \in overlapped
      BY <3>1 DEF StartsInv
    <3>3. \A id \in Ids \ {idOf[s]} :
            (id \in Registered' <=> id \in Registered) /\ registry'[id] = registry[id]
      OBVIOUS
    <3>4. ASSUME NEW r \in Reloads, pc[r] = "loop", NEW id \in visited[r] \ overlapped
          PROVE  id \in Registered' /\ registry'[id] \in closed
      <4>1. id \in Ids /\ id \in Registered /\ registry[id] \in closed
        BY <3>4 DEF ClearsInv
      <4>2. id # idOf[s]
        BY <3>2, <3>4, <4>1
      <4> QED
        BY <3>3, <4>1, <4>2
    <3>5. ASSUME NEW r \in Reloads, pc[r] = "clear", NEW id \in toClear[r] \ overlapped
          PROVE  IF id \in Registered' THEN registry'[id] \in closed
                 ELSE \A t \in Starts : InFlight(t)' => idOf[t] # id
      <4>1. id \in Ids /\ IF id \in Registered THEN registry[id] \in closed
                           ELSE \A t \in Starts : InFlight(t) => idOf[t] # id
        BY <3>5 DEF ClearsInv
      <4>2. id # idOf[s]
        BY <3>1, <3>2, <3>5, <4>1
      <4> QED
        BY <3>1, <3>3, <4>1, <4>2
    <3> QED
      BY <3>1, <3>4, <3>5 DEF ClearsInv
  <2> QED
    BY <2>1, <2>2, <2>3, <2>4
<1>7. CASE StartRejects(s)
  <2>1. Unmoved
    BY <1>7 DEF StartRejects, Unmoved, InFlight
  <2> QED
    BY <2>1, OrphanUnmoved
<1> QED
  BY <1>1, <1>2, <1>3, <1>4, <1>5, <1>6, <1>7 DEF StartStep

LEMMA OrphanLookup ==
  ASSUME TypeInv, OrphanInv, NEW q \in Stops \cup Uses,
         WalletFound(q) \/ WalletCrashes(q) \/ WalletRefused(q)
  PROVE  OrphanInv'
<1> USE DEF TypeInv, TypeOK, Goto, mapVars, history
<1>1. CASE WalletFound(q)
  <2>1. Unmoved
    BY <1>1 DEF WalletFound, Unmoved, InFlight
  <2> QED
    BY <2>1, OrphanUnmoved
<1>2. CASE WalletCrashes(q)
  <2>1. Unmoved
    BY <1>2 DEF WalletCrashes, Unmoved, InFlight
  <2> QED
    BY <2>1, OrphanUnmoved
<1>3. CASE WalletRefused(q)
  <2>1. Unmoved
    BY <1>3 DEF WalletRefused, Unmoved, InFlight
  <2> QED
    BY <2>1, OrphanUnmoved
<1> QED
  BY <1>1, <1>2, <1>3

LEMMA OrphanStop ==
  ASSUME TypeInv, OrphanInv, NEW p \in Stops, StopStep(p)
  PROVE  OrphanInv'
<1> USE DEF TypeInv, TypeOK, RegistryInv, Goto, mapVars, history
<1>1. CASE StopBegins(p)
  <2> USE <1>1 DEF StopBegins, OrphanInv, InFlight, Registered
  <2>1. NoOrphan'
    BY DEF NoOrphan, Running
  <2>2. StartsInv'
    BY DEF StartsInv
  <2>3. StopsInv'
    BY DEF StopsInv, Excused, NoOrphan, Running
  <2>4. ClearsInv'
    BY DEF ClearsInv
  <2> QED
    BY <2>1, <2>2, <2>3, <2>4
<1>2. CASE StopOfNothing(p)
  <2>1. Unmoved
    BY <1>2 DEF StopOfNothing, Unmoved, InFlight
  <2> QED
    BY <2>1, OrphanUnmoved
<1>3. CASE StopResolves(p)
  <2> USE <1>3 DEF StopResolves, Deregister, OrphanInv, InFlight, Registered
  <2>1. NoOrphan'
    BY DEF NoOrphan, Running, StopsInv, Excused
  <2>2. StartsInv'
    BY DEF StartsInv
  <2>3. StopsInv'
    BY DEF StopsInv, Excused
  <2>4. ClearsInv'
    BY DEF ClearsInv, StartsInv
  <2> QED
    BY <2>1, <2>2, <2>3, <2>4
<1>4. CASE StopRejects(p)
  <2>1. Unmoved
    BY <1>4 DEF StopRejects, Unmoved, InFlight
  <2> QED
    BY <2>1, OrphanUnmoved
<1> QED
  BY <1>1, <1>2, <1>3, <1>4, OrphanLookup DEF StopStep

LEMMA OrphanUse ==
  ASSUME TypeInv, OrphanInv, NEW u \in Uses, UseStep(u)
  PROVE  OrphanInv'
<1> USE DEF TypeInv, TypeOK, Goto, mapVars, history
<1>1. CASE SendBegins(u)
  <2>1. Unmoved
    BY <1>1 DEF SendBegins, Unmoved, InFlight
  <2> QED
    BY <2>1, OrphanUnmoved
<1>2. CASE SendEnds(u)
  <2>1. Unmoved
    BY <1>2 DEF SendEnds, Unmoved, InFlight
  <2> QED
    BY <2>1, OrphanUnmoved
<1>3. CASE ListenBegins(u)
  <2>1. Unmoved
    BY <1>3 DEF ListenBegins, Unmoved, InFlight
  <2> QED
    BY <2>1, OrphanUnmoved
<1>4. CASE ListenFails(u)
  <2>1. Unmoved
    BY <1>4 DEF ListenFails, Unmoved, InFlight
  <2> QED
    BY <2>1, OrphanUnmoved
<1>5. CASE ListenEnds(u)
  <2>1. Unmoved
    BY <1>5 DEF ListenEnds, Unmoved, InFlight
  <2> QED
    BY <2>1, OrphanUnmoved
<1> QED
  BY <1>1, <1>2, <1>3, <1>4, <1>5, OrphanLookup DEF UseStep

LEMMA OrphanReload ==
  ASSUME TypeInv, OrphanInv, NEW r \in Reloads, ReloadStep(r)
  PROVE  OrphanInv'
<1> USE DEF TypeInv, TypeOK, RegistryInv, Goto, mapVars, history
<1>1. CASE ReloadBegins(r)
  <2>1. Unmoved
    BY <1>1 DEF ReloadBegins, Unmoved, InFlight
  <2> QED
    BY <2>1, OrphanUnmoved
<1>2. CASE ReloadFails(r)
  <2>1. Unmoved
    BY <1>2 DEF ReloadFails, Unmoved, InFlight
  <2> QED
    BY <2>1, OrphanUnmoved
<1>3. CASE ReloadExits(r)
  <2>1. Unmoved
    BY <1>3 DEF ReloadExits, Unmoved, InFlight
  <2> QED
    BY <2>1, OrphanUnmoved
<1>4. CASE ReloadKeeps(r)
  <2>1. Unmoved
    BY <1>4 DEF ReloadKeeps, Unmoved, InFlight
  <2> QED
    BY <2>1, OrphanUnmoved
<1>5. CASE ReloadStopsAll(r)
  BY <1>5 DEF ReloadStopsAll, OrphanInv, NoOrphan, StartsInv, StopsInv, ClearsInv, Excused,
     Running, InFlight, Registered
<1>6. CASE ReloadStopsOne(r)
  <2> USE <1>6 DEF ReloadStopsOne, OrphanInv, InFlight, Registered
  <2>1. NoOrphan'
    BY DEF NoOrphan, Running
  <2>2. StartsInv'
    BY DEF StartsInv
  <2>3. StopsInv'
    BY DEF StopsInv, Excused
  <2>4. ClearsInv'
    BY DEF ClearsInv
  <2> QED
    BY <2>1, <2>2, <2>3, <2>4
<1>7. CASE ReloadStopsEnd(r)
  BY <1>7 DEF ReloadStopsEnd, OrphanInv, NoOrphan, StartsInv, StopsInv, ClearsInv, Excused,
     Running, InFlight, Registered
<1>8. CASE ReloadClears(r)
  <2> USE <1>8 DEF ReloadClears, Deregister, OrphanInv, InFlight, Registered
  <2>1. NoOrphan'
    BY DEF NoOrphan, Running, ClearsInv
  <2>2. StartsInv'
    BY DEF StartsInv
  <2>3. StopsInv'
    BY DEF StopsInv, Excused
  <2>4. ClearsInv'
    BY DEF ClearsInv, StartsInv
  <2> QED
    BY <2>1, <2>2, <2>3, <2>4
<1>9. CASE ReloadEnds(r)
  <2>1. Unmoved
    BY <1>9 DEF ReloadEnds, Unmoved, InFlight
  <2> QED
    BY <2>1, OrphanUnmoved
<1> QED
  BY <1>1, <1>2, <1>3, <1>4, <1>5, <1>6, <1>7, <1>8, <1>9 DEF ReloadStep

LEMMA OrphanInitial == Init => ReloadInv /\ OrphanInv
<1>1. Init => ReloadInv
  BY DEF Init, ReloadInv, OneReloadAtATime, InFlight
<1>2. Init => OrphanInv
  BY DEF Init, OrphanInv, NoOrphan, StartsInv, StopsInv, ClearsInv, Running, InFlight, Registered
<1> QED
  BY <1>1, <1>2

LEMMA OrphanInductive ==
  ASSUME TypeInv, ReloadInv, OrphanInv, [Next]_vars
  PROVE  OrphanInv'
<1>1. CASE UNCHANGED vars \/ LockTimesOut
  BY <1>1 DEF vars, requestVars, mapVars, history, LockTimesOut, OrphanInv, NoOrphan,
     StartsInv, StopsInv, ClearsInv, Excused, Running, InFlight, Registered
<1> QED
  BY <1>1, OrphanStart, OrphanStop, OrphanUse, OrphanReload DEF Next, Quiet

(***************************************************************************)
(* For any number of wallets, starts, stops, uses and reloads: a wallet    *)
(* that runs is registered under its id, outside the two races.            *)
(***************************************************************************)
THEOREM NoWalletIsOrphaned == Spec => []NoOrphan
<1>1. Init => ReloadInv /\ OrphanInv
  BY OrphanInitial
<1>2. TypeInv /\ ReloadInv /\ OrphanInv /\ [Next]_vars => OrphanInv'
  BY OrphanInductive
<1>3. TypeInv /\ ReloadInv /\ [Next]_vars => ReloadInv'
  BY ReloadInductive
<1>4. OrphanInv => NoOrphan
  BY DEF OrphanInv
<1> QED
  BY <1>1, <1>2, <1>3, <1>4, TypeInvHolds, PTL DEF Spec

-----------------------------------------------------------------------------
(* CurrentConfig: what the wallets in flight and the registered ones were   *)
(* built with, while a reload decides and while it clears.                  *)

(* c is the configuration, and what a reload that still decides may restore. *)
Fits(c) ==
  /\ config # Null => c = config
  /\ \A r \in Reloads : pc[r] = "import" /\ old[r] # Null => c = old[r]

BuiltInv ==
  \A s \in Starts :
    \/ pc[s] \in {"starting", "up"}
    \/ pc[s] = "signer" /\ kind[s] # "hsm"
    => cfg[s] # Null

(* A start in flight fits, or straddles the reload that replaced its        *)
(* configuration.                                                           *)
StartedInv ==
  \A s \in Starts \ straddled : InFlight(s) /\ cfg[s] # Null =>
    /\ Fits(cfg[s])
    /\ \A r \in Reloads : pc[r] # "clear"

(* So does a registered wallet, and one that a reload will not clear        *)
(* straddles it.                                                            *)
RegisteredInv ==
  \A id \in Registered : registry[id] \notin straddled =>
    /\ Fits(cfg[registry[id]])
    /\ \A r \in Reloads : pc[r] = "clear" => id \in toClear[r]

ConfigInv == BuiltInv /\ StartedInv /\ RegisteredInv

(* A step that changes nothing ConfigInv speaks of, but for removing wallets. *)
ConfigUnmoved ==
  /\ UNCHANGED <<kind, cfg, config, old, toClear, straddled>>
  /\ \A id \in Ids : registry'[id] \in {registry[id], Null}
  /\ \A s \in Starts : pc'[s] = pc[s] \/ pc'[s] = "failed" \/ pc'[s] = "refused"
  /\ \A r \in Reloads :
       /\ pc'[r] = "import" => pc[r] = "import"
       /\ pc'[r] = "clear" => pc[r] = "clear"

LEMMA ConfigSteady == TypeInv /\ ConfigInv /\ ConfigUnmoved => ConfigInv'
<1> SUFFICES ASSUME TypeInv, ConfigInv, ConfigUnmoved
             PROVE  ConfigInv'
  OBVIOUS
<1> USE DEF ConfigUnmoved, ConfigInv, InFlight, Registered
<1>1. BuiltInv'
  BY DEF BuiltInv
<1>2. \A c : Fits(c) => Fits(c)'
  BY DEF Fits
<1>3. StartedInv'
  BY <1>2 DEF StartedInv
<1>4. RegisteredInv'
  BY <1>2 DEF RegisteredInv
<1> QED
  BY <1>1, <1>3, <1>4

LEMMA ConfigStart ==
  ASSUME TypeInv, ReloadInv, ConfigInv, NEW s \in Starts, StartStep(s)
  PROVE  ConfigInv'
<1> USE DEF TypeInv, TypeOK, RegistryInv, Goto, mapVars, history
<1>1. CASE StartRefused(s) \/ StartCrashes(s) \/ SignerFails(s) \/ StartRejects(s)
  <2>1. ConfigUnmoved
    BY <1>1 DEF StartRefused, StartCrashes, SignerFails, StartRejects, ConfigUnmoved
  <2> QED
    BY <2>1, ConfigSteady
<1>2. CASE StartBegins(s)
  <2> USE <1>2 DEF StartBegins, ConfigInv, InFlight, Registered
  <2>1. BuiltInv'
    BY DEF BuiltInv
  <2>2. Fits(config) /\ \A r \in Reloads : pc[r] # "clear"
    BY DEF Fits, ReloadInv
  <2>3. (\A c : Fits(c) <=> Fits(c)') /\ \A r \in Reloads : pc'[r] = pc[r]
    BY DEF Fits
  <2>4. StartedInv'
    BY <2>2, <2>3 DEF StartedInv
  <2>5. RegisteredInv'
    BY <2>2, <2>3 DEF RegisteredInv
  <2> QED
    BY <2>1, <2>4, <2>5
<1>3. CASE SignerAnswers(s)
  <2> USE <1>3 DEF SignerAnswers, ConfigInv, InFlight, Registered
  <2>1. BuiltInv'
    BY DEF BuiltInv
  <2>2. Fits(config) /\ \A r \in Reloads : pc[r] # "clear"
    BY DEF Fits, ReloadInv
  <2>3. (\A c : Fits(c) <=> Fits(c)') /\ \A r \in Reloads : pc'[r] = pc[r]
    BY DEF Fits
  <2>4. StartedInv'
    BY <2>2, <2>3 DEF StartedInv
  <2>5. RegisteredInv'
    BY <2>2, <2>3 DEF RegisteredInv
  <2> QED
    BY <2>1, <2>4, <2>5
<1>4. CASE StartResolves(s)
  <2> USE <1>4 DEF StartResolves, ConfigInv, InFlight, Registered
  <2>1. BuiltInv'
    BY DEF BuiltInv
  <2>2. cfg[s] # Null
    BY DEF BuiltInv
  <2>3. (\A c : Fits(c) <=> Fits(c)') /\ \A r \in Reloads : pc'[r] = pc[r]
    BY DEF Fits
  <2>4. StartedInv'
    BY <2>3 DEF StartedInv
  <2>5. RegisteredInv'
    BY <2>2, <2>3 DEF RegisteredInv, StartedInv
  <2> QED
    BY <2>1, <2>4, <2>5
<1> QED
  BY <1>1, <1>2, <1>3, <1>4 DEF StartStep

LEMMA ConfigOther ==
  ASSUME TypeInv, ConfigInv,
         NEW q \in Stops \cup Uses, (q \in Stops /\ StopStep(q)) \/ (q \in Uses /\ UseStep(q))
  PROVE  ConfigInv'
<1> USE DEF TypeInv, TypeOK, Goto, mapVars, history
<1>1. CASE WalletFound(q) \/ WalletCrashes(q) \/ WalletRefused(q)
  <2>1. ConfigUnmoved
    BY <1>1 DEF WalletFound, WalletCrashes, WalletRefused, ConfigUnmoved
  <2> QED
    BY <2>1, ConfigSteady
<1>2. CASE StopBegins(q) \/ StopOfNothing(q) \/ StopResolves(q) \/ StopRejects(q)
  <2>1. ConfigUnmoved
    BY <1>2 DEF StopBegins, StopOfNothing, StopResolves, StopRejects, Deregister, ConfigUnmoved
  <2> QED
    BY <2>1, ConfigSteady
<1>3. CASE SendBegins(q) \/ SendEnds(q) \/ ListenBegins(q) \/ ListenFails(q) \/ ListenEnds(q)
  <2>1. ConfigUnmoved
    BY <1>3 DEF SendBegins, SendEnds, ListenBegins, ListenFails, ListenEnds, ConfigUnmoved
  <2> QED
    BY <2>1, ConfigSteady
<1> QED
  BY <1>1, <1>2, <1>3 DEF StopStep, UseStep

LEMMA ConfigReload ==
  ASSUME TypeInv, ReloadInv, ConfigInv, NEW r \in Reloads, ReloadStep(r)
  PROVE  ConfigInv'
<1> USE DEF TypeInv, TypeOK, RegistryInv, Goto, mapVars, history
<1>1. CASE ReloadBegins(r)
  <2> USE <1>1 DEF ReloadBegins, ConfigInv, InFlight, Registered
  <2>1. BuiltInv'
    BY DEF BuiltInv
  <2>2. (\A c : Fits(c) => Fits(c)') /\ \A q \in Reloads : pc'[q] = "clear" => pc[q] = "clear"
    BY DEF Fits
  <2>3. StartedInv'
    BY <2>2 DEF StartedInv
  <2>4. RegisteredInv'
    BY <2>2 DEF RegisteredInv
  <2> QED
    BY <2>1, <2>3, <2>4
<1>2. CASE ReloadFails(r) \/ ReloadExits(r) \/ ReloadStopsAll(r) \/ ReloadStopsOne(r)
  <2>1. ConfigUnmoved
    BY <1>2 DEF ReloadFails, ReloadExits, ReloadStopsAll, ReloadStopsOne, ConfigUnmoved
  <2> QED
    BY <2>1, ConfigSteady
<1>3. CASE ReloadKeeps(r)
  <2> USE <1>3 DEF ReloadKeeps, ConfigInv, InFlight, Registered
  <2>1. BuiltInv'
    BY DEF BuiltInv
  <2>2. (\A c : Fits(c) => Fits(c)') /\ \A q \in Reloads : pc'[q] = "clear" => pc[q] = "clear"
    BY DEF Fits
  <2>3. StartedInv'
    BY <2>2 DEF StartedInv
  <2>4. RegisteredInv'
    BY <2>2 DEF RegisteredInv
  <2> QED
    BY <2>1, <2>3, <2>4
<1>4. CASE ReloadStopsEnd(r)
  <2> USE <1>4 DEF ReloadStopsEnd, ConfigInv, InFlight, Registered
  <2>1. BuiltInv'
    BY DEF BuiltInv
  <2>2. \A c : Fits(c) => Fits(c)'
    BY DEF Fits
  <2>3. StartedInv'
    BY <2>2 DEF StartedInv
  <2>4. RegisteredInv'
    BY <2>2 DEF RegisteredInv
  <2> QED
    BY <2>1, <2>3, <2>4
<1>5. CASE ReloadClears(r)
  <2> USE <1>5 DEF ReloadClears, Deregister, ConfigInv, InFlight, Registered
  <2>1. BuiltInv'
    BY DEF BuiltInv
  <2>2. (\A c : Fits(c) => Fits(c)') /\ \A q \in Reloads : pc'[q] = pc[q]
    BY DEF Fits
  <2>3. StartedInv'
    BY <2>2 DEF StartedInv
  <2>4. RegisteredInv'
    BY <2>2 DEF RegisteredInv
  <2> QED
    BY <2>1, <2>3, <2>4
<1>6. CASE ReloadEnds(r)
  <2> USE <1>6 DEF ReloadEnds, ConfigInv, InFlight, Registered
  <2>1. BuiltInv'
    BY DEF BuiltInv
  <2>2. StartedInv'
    BY DEF StartedInv
  <2>3. RegisteredInv'
    BY DEF RegisteredInv
  <2> QED
    BY <2>1, <2>2, <2>3
<1> QED
  BY <1>1, <1>2, <1>3, <1>4, <1>5, <1>6 DEF ReloadStep

(***************************************************************************)
(* For any number of reloads and wallets: whoever can read a configuration *)
(* finds registered wallets built with it, but for starts that straddled   *)
(* its reload.                                                             *)
(***************************************************************************)
THEOREM WalletsHaveCurrentConfig == Spec => []CurrentConfig
<1>1. Init => ConfigInv /\ ReloadInv
  BY DEF Init, ConfigInv, BuiltInv, StartedInv, RegisteredInv, InFlight, Registered,
     ReloadInv, OneReloadAtATime
<1>2. TypeInv /\ ReloadInv /\ ConfigInv /\ [Next]_vars => ConfigInv'
  <2> SUFFICES ASSUME TypeInv, ReloadInv, ConfigInv, [Next]_vars
               PROVE  ConfigInv'
    OBVIOUS
  <2>1. CASE UNCHANGED vars \/ LockTimesOut
    <3>1. ConfigUnmoved
      BY <2>1 DEF vars, requestVars, mapVars, history, LockTimesOut, ConfigUnmoved
    <3> QED
      BY <3>1, ConfigSteady
  <2> QED
    BY <2>1, ConfigStart, ConfigOther, ConfigReload DEF Next, Quiet
<1>3. TypeInv /\ ReloadInv /\ [Next]_vars => ReloadInv'
  BY ReloadInductive
<1>4. ConfigInv => CurrentConfig
  BY DEF ConfigInv, RegisteredInv, Fits, CurrentConfig
<1> QED
  BY <1>1, <1>2, <1>3, <1>4, TypeInvHolds, PTL DEF Spec

-----------------------------------------------------------------------------
(* The maps kept beside initializedWallets stay in step with it. *)

(* The wallets' own invariants: their conjunction is inductive.            *)
BaseInv == TypeInv /\ ReloadInv /\ OrphanInv

LEMMA BaseHolds == Spec => []BaseInv
<1>1. Init => ReloadInv /\ OrphanInv
  BY OrphanInitial
<1>2. TypeInv /\ ReloadInv /\ OrphanInv /\ [Next]_vars => ReloadInv' /\ OrphanInv'
  BY ReloadInductive, OrphanInductive
<1> QED
  BY <1>1, <1>2, TypeInvHolds, PTL DEF Spec, BaseInv

-----------------------------------------------------------------------------
(* hsmWalletIds *)

(* Ids that an HSM wallet lost other than by stopWallet.                    *)
Disowned ==
  {id \in Ids : \/ id \in overlapped \cup outlived
                \/ \E w \in cleared : idOf[w] = id /\ kind[w] = "hsm"}

(* A key of hsmWalletIds is registered, and a stop that awaits removed it.  *)
FlagInv ==
  /\ HsmFlagIsRight
  /\ \A id \in hsmIds \ Disowned : id \in Registered
  /\ \A p \in Stops : pc[p] = "stopping" /\ idOf[p] \notin Disowned => idOf[p] \notin hsmIds

(* A step that changes nothing FlagInv speaks of, but for closing wallets.  *)
FlagUnmoved ==
  /\ UNCHANGED <<idOf, kind, registry, hsmIds, outlived, cleared>>
  /\ closed \subseteq closed' /\ overlapped \subseteq overlapped'
  /\ \A s \in Starts : pc'[s] = "up" => pc[s] = "up"
  /\ \A p \in Stops : pc'[p] = "stopping" => pc[p] = "stopping"

LEMMA FlagSteady == TypeInv /\ FlagInv /\ FlagUnmoved => FlagInv'
BY DEF TypeInv, TypeOK, FlagInv, FlagUnmoved, HsmFlagIsRight, Disowned, Running, Registered

LEMMA FlagStart ==
  ASSUME TypeInv, OrphanInv, FlagInv, NEW s \in Starts, StartStep(s)
  PROVE  FlagInv'
<1> USE DEF TypeInv, TypeOK, RegistryInv, Goto, mapVars, history
<1>1. CASE StartResolves(s)
  <2> USE <1>1 DEF StartResolves, InFlight, Registered, FlagInv, Disowned
  <2>1. idOf[s] \in Registered => idOf[s] \in overlapped
    BY DEF OrphanInv, StartsInv
  <2>2. HsmFlagIsRight'
    BY <2>1 DEF HsmFlagIsRight, Running
  <2>3. \A id \in hsmIds' \ Disowned' : id \in Registered'
    OBVIOUS
  <2>4. \A p \in Stops : pc'[p] = "stopping" /\ idOf'[p] \notin Disowned' => idOf'[p] \notin hsmIds'
    BY <2>1 DEF OrphanInv, StopsInv, Excused
  <2> QED
    BY <2>2, <2>3, <2>4
<1>2. CASE StartRefused(s)
  <2>1. FlagUnmoved
    BY <1>2 DEF StartRefused, FlagUnmoved
  <2> QED
    BY <2>1, FlagSteady
<1>3. CASE StartCrashes(s)
  <2>1. FlagUnmoved
    BY <1>3 DEF StartCrashes, FlagUnmoved
  <2> QED
    BY <2>1, FlagSteady
<1>4. CASE StartBegins(s)
  <2>1. FlagUnmoved
    BY <1>4 DEF StartBegins, FlagUnmoved
  <2> QED
    BY <2>1, FlagSteady
<1>5. CASE SignerAnswers(s)
  <2>1. FlagUnmoved
    BY <1>5 DEF SignerAnswers, FlagUnmoved
  <2> QED
    BY <2>1, FlagSteady
<1>6. CASE SignerFails(s)
  <2>1. FlagUnmoved
    BY <1>6 DEF SignerFails, FlagUnmoved
  <2> QED
    BY <2>1, FlagSteady
<1>7. CASE StartRejects(s)
  <2>1. FlagUnmoved
    BY <1>7 DEF StartRejects, FlagUnmoved
  <2> QED
    BY <2>1, FlagSteady
<1> QED
  BY <1>1, <1>2, <1>3, <1>4, <1>5, <1>6, <1>7 DEF StartStep

LEMMA FlagLookup ==
  ASSUME TypeInv, FlagInv, NEW q \in Stops \cup Uses,
         WalletFound(q) \/ WalletCrashes(q) \/ WalletRefused(q)
  PROVE  FlagInv'
<1> USE DEF TypeInv, TypeOK, Goto, mapVars, history
<1>1. CASE WalletFound(q)
  <2>1. FlagUnmoved
    BY <1>1 DEF WalletFound, FlagUnmoved
  <2> QED
    BY <2>1, FlagSteady
<1>2. CASE WalletCrashes(q)
  <2>1. FlagUnmoved
    BY <1>2 DEF WalletCrashes, FlagUnmoved
  <2> QED
    BY <2>1, FlagSteady
<1>3. CASE WalletRefused(q)
  <2>1. FlagUnmoved
    BY <1>3 DEF WalletRefused, FlagUnmoved
  <2> QED
    BY <2>1, FlagSteady
<1> QED
  BY <1>1, <1>2, <1>3

LEMMA FlagStop ==
  ASSUME TypeInv, OrphanInv, FlagInv, NEW p \in Stops, StopStep(p)
  PROVE  FlagInv'
<1> USE DEF TypeInv, TypeOK, RegistryInv, Goto, mapVars, history
<1>1. CASE StopBegins(p)
  BY <1>1 DEF StopBegins, FlagInv, HsmFlagIsRight, Disowned, Running, Registered
<1>2. CASE StopResolves(p)
  BY <1>2 DEF StopResolves, Deregister, FlagInv, HsmFlagIsRight, Disowned, Running, Registered
<1>3. CASE StopOfNothing(p)
  <2>1. FlagUnmoved
    BY <1>3 DEF StopOfNothing, FlagUnmoved
  <2> QED
    BY <2>1, FlagSteady
<1>4. CASE StopRejects(p)
  <2>1. FlagUnmoved
    BY <1>4 DEF StopRejects, FlagUnmoved
  <2> QED
    BY <2>1, FlagSteady
<1> QED
  BY <1>1, <1>2, <1>3, <1>4, FlagLookup DEF StopStep

LEMMA FlagUse ==
  ASSUME TypeInv, FlagInv, NEW u \in Uses, UseStep(u)
  PROVE  FlagInv'
<1> USE DEF TypeInv, TypeOK, Goto, mapVars, history
<1>1. CASE SendBegins(u)
  <2>1. FlagUnmoved
    BY <1>1 DEF SendBegins, FlagUnmoved
  <2> QED
    BY <2>1, FlagSteady
<1>2. CASE SendEnds(u)
  <2>1. FlagUnmoved
    BY <1>2 DEF SendEnds, FlagUnmoved
  <2> QED
    BY <2>1, FlagSteady
<1>3. CASE ListenBegins(u)
  <2>1. FlagUnmoved
    BY <1>3 DEF ListenBegins, FlagUnmoved
  <2> QED
    BY <2>1, FlagSteady
<1>4. CASE ListenFails(u)
  <2>1. FlagUnmoved
    BY <1>4 DEF ListenFails, FlagUnmoved
  <2> QED
    BY <2>1, FlagSteady
<1>5. CASE ListenEnds(u)
  <2>1. FlagUnmoved
    BY <1>5 DEF ListenEnds, FlagUnmoved
  <2> QED
    BY <2>1, FlagSteady
<1> QED
  BY <1>1, <1>2, <1>3, <1>4, <1>5, FlagLookup DEF UseStep

LEMMA FlagReload ==
  ASSUME TypeInv, FlagInv, NEW r \in Reloads, ReloadStep(r)
  PROVE  FlagInv'
<1> USE DEF TypeInv, TypeOK, RegistryInv, Goto, mapVars, history
<1>1. CASE ReloadClears(r)
  <2> USE DEF FlagInv, Disowned, Registered
  <2>1. PICK id \in toClear[r] :
          /\ registry' = [registry EXCEPT ![id] = Null]
          /\ cleared' = cleared \cup ({registry[id]} \ {Null})
          /\ outlived \subseteq outlived'
    BY <1>1 DEF ReloadClears, Deregister
  <2>2. /\ UNCHANGED <<idOf, kind, hsmIds, closed, overlapped>> /\ id \in Ids
        /\ \A q \in Starts \cup Stops : pc'[q] = pc[q]
        /\ cleared \subseteq cleared' /\ Disowned \subseteq Disowned'
    BY <1>1, <2>1 DEF ReloadClears
  <2>3. id \in Registered => registry[id] \in Starts /\ idOf[registry[id]] = id
    BY <2>2 DEF RegistryInv
  <2>4. HsmFlagIsRight'
    BY <2>1, <2>2 DEF HsmFlagIsRight, Running
  <2>5. id \in Registered /\ id \in hsmIds => id \in Disowned'
    BY <2>1, <2>2, <2>3 DEF HsmFlagIsRight
  <2>6. \A i \in hsmIds' \ Disowned' : i \in Registered'
    BY <2>1, <2>2, <2>5
  <2>7. \A p \in Stops : pc'[p] = "stopping" /\ idOf'[p] \notin Disowned' => idOf'[p] \notin hsmIds'
    BY <2>2
  <2> QED BY <2>4, <2>6, <2>7
<1>2. CASE ReloadBegins(r)
  <2>1. FlagUnmoved
    BY <1>2 DEF ReloadBegins, FlagUnmoved
  <2> QED
    BY <2>1, FlagSteady
<1>3. CASE ReloadFails(r)
  <2>1. FlagUnmoved
    BY <1>3 DEF ReloadFails, FlagUnmoved
  <2> QED
    BY <2>1, FlagSteady
<1>4. CASE ReloadExits(r)
  <2>1. FlagUnmoved
    BY <1>4 DEF ReloadExits, FlagUnmoved
  <2> QED
    BY <2>1, FlagSteady
<1>5. CASE ReloadKeeps(r)
  <2>1. FlagUnmoved
    BY <1>5 DEF ReloadKeeps, FlagUnmoved
  <2> QED
    BY <2>1, FlagSteady
<1>6. CASE ReloadStopsAll(r)
  <2>1. FlagUnmoved
    BY <1>6 DEF ReloadStopsAll, FlagUnmoved
  <2> QED
    BY <2>1, FlagSteady
<1>7. CASE ReloadStopsOne(r)
  <2>1. FlagUnmoved
    BY <1>7 DEF ReloadStopsOne, FlagUnmoved
  <2> QED
    BY <2>1, FlagSteady
<1>8. CASE ReloadStopsEnd(r)
  <2>1. FlagUnmoved
    BY <1>8 DEF ReloadStopsEnd, FlagUnmoved
  <2> QED
    BY <2>1, FlagSteady
<1>9. CASE ReloadEnds(r)
  <2>1. FlagUnmoved
    BY <1>9 DEF ReloadEnds, FlagUnmoved
  <2> QED
    BY <2>1, FlagSteady
<1> QED
  BY <1>1, <1>2, <1>3, <1>4, <1>5, <1>6, <1>7, <1>8, <1>9 DEF ReloadStep

(***************************************************************************)
(* A running HSM wallet is always known as one; another wallet is taken    *)
(* for one only if stopAllWallets cleared an HSM wallet of its id, whose   *)
(* key in hsmWalletIds it leaves, or the id was lost to two starts in      *)
(* flight at once or to a stop that outlived a reload.                     *)
(***************************************************************************)
THEOREM HsmFlagsAreRight == Spec => []HsmFlagIsRight
<1>1. Init => FlagInv
  BY DEF Init, FlagInv, HsmFlagIsRight, Registered
<1>2. BaseInv /\ FlagInv /\ [Next]_vars => FlagInv'
  <2> SUFFICES ASSUME TypeInv, OrphanInv, FlagInv, [Next]_vars
               PROVE  FlagInv'
    BY DEF BaseInv
  <2>1. CASE UNCHANGED vars \/ LockTimesOut
    <3>1. FlagUnmoved
      BY <2>1 DEF vars, requestVars, mapVars, history, LockTimesOut, FlagUnmoved
    <3> QED
      BY <3>1, FlagSteady
  <2> QED
    BY <2>1, FlagStart, FlagStop, FlagUse, FlagReload DEF Next, Quiet
<1>3. FlagInv => HsmFlagIsRight
  BY DEF FlagInv
<1> QED
  BY <1>1, <1>2, <1>3, BaseHolds, PTL DEF Spec

-----------------------------------------------------------------------------
(* walletListenedProposals *)

(* A listed proposal is that of the wallet registered under its id.         *)
ListedInv ==
  \A p \in listened :
    p[2] \notin late /\ p[1] \notin Excused => registry[p[1]] = p[2]

(* A step that changes nothing ListedInv speaks of.                         *)
ListedUnmoved ==
  /\ UNCHANGED <<registry, listened, outlived, late>>
  /\ overlapped \subseteq overlapped'

LEMMA ListedSteady == ListedInv /\ ListedUnmoved => ListedInv'
BY DEF ListedInv, ListedUnmoved, Excused

LEMMA ListedStart ==
  ASSUME TypeInv, OrphanInv, ListedInv, NEW s \in Starts, StartStep(s)
  PROVE  ListedInv'
<1> USE DEF TypeInv, TypeOK, RegistryInv, Goto, mapVars, history
<1>1. CASE StartResolves(s)
  <2>1. InFlight(s) /\ (idOf[s] \in Registered => idOf[s] \in overlapped)
    BY <1>1 DEF StartResolves, InFlight, OrphanInv, StartsInv
  <2> QED
    BY <2>1, <1>1 DEF StartResolves, ListedInv, Excused, Registered
<1>2. CASE StartRefused(s)
  <2>1. ListedUnmoved
    BY <1>2 DEF StartRefused, ListedUnmoved
  <2> QED
    BY <2>1, ListedSteady
<1>3. CASE StartCrashes(s)
  <2>1. ListedUnmoved
    BY <1>3 DEF StartCrashes, ListedUnmoved
  <2> QED
    BY <2>1, ListedSteady
<1>4. CASE StartBegins(s)
  <2>1. ListedUnmoved
    BY <1>4 DEF StartBegins, ListedUnmoved
  <2> QED
    BY <2>1, ListedSteady
<1>5. CASE SignerAnswers(s)
  <2>1. ListedUnmoved
    BY <1>5 DEF SignerAnswers, ListedUnmoved
  <2> QED
    BY <2>1, ListedSteady
<1>6. CASE SignerFails(s)
  <2>1. ListedUnmoved
    BY <1>6 DEF SignerFails, ListedUnmoved
  <2> QED
    BY <2>1, ListedSteady
<1>7. CASE StartRejects(s)
  <2>1. ListedUnmoved
    BY <1>7 DEF StartRejects, ListedUnmoved
  <2> QED
    BY <2>1, ListedSteady
<1> QED
  BY <1>1, <1>2, <1>3, <1>4, <1>5, <1>6, <1>7 DEF StartStep

LEMMA ListedLookup ==
  ASSUME TypeInv, ListedInv, NEW q \in Stops \cup Uses,
         WalletFound(q) \/ WalletCrashes(q) \/ WalletRefused(q)
  PROVE  ListedInv'
<1> USE DEF TypeInv, TypeOK, RegistryInv, Goto, mapVars, history
<1>1. CASE WalletFound(q)
  <2>1. ListedUnmoved
    BY <1>1 DEF WalletFound, ListedUnmoved
  <2> QED
    BY <2>1, ListedSteady
<1>2. CASE WalletCrashes(q)
  <2>1. ListedUnmoved
    BY <1>2 DEF WalletCrashes, ListedUnmoved
  <2> QED
    BY <2>1, ListedSteady
<1>3. CASE WalletRefused(q)
  <2>1. ListedUnmoved
    BY <1>3 DEF WalletRefused, ListedUnmoved
  <2> QED
    BY <2>1, ListedSteady
<1> QED
  BY <1>1, <1>2, <1>3

LEMMA ListedStop ==
  ASSUME TypeInv, ListedInv, NEW p \in Stops, StopStep(p)
  PROVE  ListedInv'
<1> USE DEF TypeInv, TypeOK, RegistryInv, Goto, mapVars, history
<1>1. CASE StopResolves(p)
  BY <1>1 DEF StopResolves, Deregister, ForgetProposals, ListedInv, Excused
<1>2. CASE StopBegins(p)
  <2>1. ListedUnmoved
    BY <1>2 DEF StopBegins, ListedUnmoved
  <2> QED
    BY <2>1, ListedSteady
<1>3. CASE StopOfNothing(p)
  <2>1. ListedUnmoved
    BY <1>3 DEF StopOfNothing, ListedUnmoved
  <2> QED
    BY <2>1, ListedSteady
<1>4. CASE StopRejects(p)
  <2>1. ListedUnmoved
    BY <1>4 DEF StopRejects, ListedUnmoved
  <2> QED
    BY <2>1, ListedSteady
<1> QED
  BY <1>1, <1>2, <1>3, <1>4, ListedLookup DEF StopStep

LEMMA ListedUse ==
  ASSUME TypeInv, OrphanInv, ListedInv, NEW u \in Uses, UseStep(u)
  PROVE  ListedInv'
<1> USE DEF TypeInv, TypeOK, RegistryInv, Goto, mapVars, history
<1>1. CASE ListenEnds(u)
  <2>1. /\ target[u] \in Starts /\ pc[target[u]] = "up" /\ idOf[target[u]] = idOf[u]
        /\ \A p \in listened' : p \in listened \/ p = <<idOf[u], target[u]>>
    BY <1>1 DEF ListenEnds
  <2>2. target[u] \notin late' /\ idOf[u] \notin Excused => registry[idOf[u]] = target[u]
    BY <2>1, <1>1 DEF ListenEnds, OrphanInv, NoOrphan, Running, Excused
  <2> QED
    BY <2>1, <2>2, <1>1 DEF ListenEnds, ListedInv, Excused
<1>2. CASE SendBegins(u)
  <2>1. ListedUnmoved
    BY <1>2 DEF SendBegins, ListedUnmoved
  <2> QED
    BY <2>1, ListedSteady
<1>3. CASE SendEnds(u)
  <2>1. ListedUnmoved
    BY <1>3 DEF SendEnds, ListedUnmoved
  <2> QED
    BY <2>1, ListedSteady
<1>4. CASE ListenBegins(u)
  <2>1. ListedUnmoved
    BY <1>4 DEF ListenBegins, ListedUnmoved
  <2> QED
    BY <2>1, ListedSteady
<1>5. CASE ListenFails(u)
  <2>1. ListedUnmoved
    BY <1>5 DEF ListenFails, ListedUnmoved
  <2> QED
    BY <2>1, ListedSteady
<1> QED
  BY <1>1, <1>2, <1>3, <1>4, <1>5, ListedLookup DEF UseStep

LEMMA ListedReload ==
  ASSUME TypeInv, ListedInv, NEW r \in Reloads, ReloadStep(r)
  PROVE  ListedInv'
<1> USE DEF TypeInv, TypeOK, RegistryInv, Goto, mapVars, history
<1>1. CASE ReloadClears(r)
  BY <1>1 DEF ReloadClears, Deregister, ForgetProposals, ListedInv, Excused
<1>2. CASE ReloadBegins(r)
  <2>1. ListedUnmoved
    BY <1>2 DEF ReloadBegins, ListedUnmoved
  <2> QED
    BY <2>1, ListedSteady
<1>3. CASE ReloadFails(r)
  <2>1. ListedUnmoved
    BY <1>3 DEF ReloadFails, ListedUnmoved
  <2> QED
    BY <2>1, ListedSteady
<1>4. CASE ReloadExits(r)
  <2>1. ListedUnmoved
    BY <1>4 DEF ReloadExits, ListedUnmoved
  <2> QED
    BY <2>1, ListedSteady
<1>5. CASE ReloadKeeps(r)
  <2>1. ListedUnmoved
    BY <1>5 DEF ReloadKeeps, ListedUnmoved
  <2> QED
    BY <2>1, ListedSteady
<1>6. CASE ReloadStopsAll(r)
  <2>1. ListedUnmoved
    BY <1>6 DEF ReloadStopsAll, ListedUnmoved
  <2> QED
    BY <2>1, ListedSteady
<1>7. CASE ReloadStopsOne(r)
  <2>1. ListedUnmoved
    BY <1>7 DEF ReloadStopsOne, ListedUnmoved
  <2> QED
    BY <2>1, ListedSteady
<1>8. CASE ReloadStopsEnd(r)
  <2>1. ListedUnmoved
    BY <1>8 DEF ReloadStopsEnd, ListedUnmoved
  <2> QED
    BY <2>1, ListedSteady
<1>9. CASE ReloadEnds(r)
  <2>1. ListedUnmoved
    BY <1>9 DEF ReloadEnds, ListedUnmoved
  <2> QED
    BY <2>1, ListedSteady
<1> QED
  BY <1>1, <1>2, <1>3, <1>4, <1>5, <1>6, <1>7, <1>8, <1>9 DEF ReloadStep

(***************************************************************************)
(* A wallet lists the proposals registered for it, not those of an earlier *)
(* wallet of its id, unless registered late or by one of the two races.    *)
(***************************************************************************)
THEOREM ListedProposalsAreOwn == Spec => []ListsOwnProposals
<1>1. Init => ListedInv
  BY DEF Init, ListedInv
<1>2. BaseInv /\ ListedInv /\ [Next]_vars => ListedInv'
  <2> SUFFICES ASSUME TypeInv, OrphanInv, ListedInv, [Next]_vars
               PROVE  ListedInv'
    BY DEF BaseInv
  <2>1. CASE UNCHANGED vars \/ LockTimesOut
    <3>1. ListedUnmoved
      BY <2>1 DEF vars, requestVars, mapVars, history, LockTimesOut, ListedUnmoved
    <3> QED
      BY <3>1, ListedSteady
  <2> QED
    BY <2>1, ListedStart, ListedStop, ListedUse, ListedReload DEF Next, Quiet
<1>3. ListedInv => ListsOwnProposals
  BY DEF ListedInv, ListsOwnProposals, Excused
<1> QED
  BY <1>1, <1>2, <1>3, BaseHolds, PTL DEF Spec

-----------------------------------------------------------------------------
(* The locks *)

Sending(u) == kind[u] = "send" /\ pc[u] = "working"

(* The wallet of u may have lost its id other than by stopWallet.           *)
Unhanded(u) == idOf[u] \in overlapped \cup outlived \/ target[u] \in cleared

(* The Lock a send took is the HSM's or one its id has or had; if its id    *)
(* still has it, its wallet is still the one registered.                    *)
FreshInv ==
  /\ \A u \in Uses : Sending(u) =>
       /\ slot[u] = HsmSlot \/ \E n \in Nat : n <= locks[idOf[u]] /\ slot[u] = <<idOf[u], n>>
       /\ slot[u] = SlotOf(idOf[u]) /\ ~Unhanded(u) => registry[idOf[u]] = target[u]

(* A step that changes nothing FreshInv speaks of.                          *)
FreshUnmoved ==
  /\ UNCHANGED <<idOf, kind, slot, target, registry, locks, cleared, outlived>>
  /\ overlapped \subseteq overlapped'
  /\ \A u \in Uses : kind[u] = "send" /\ pc'[u] = "working" => pc[u] = "working"

LEMMA FreshSteady == FreshInv /\ FreshUnmoved => FreshInv'
BY DEF FreshInv, FreshUnmoved, Sending, Unhanded, SlotOf

LEMMA SlotsDiffer ==
  ASSUME NEW id \in Ids, NEW n, NEW m
  PROVE  HsmSlot # <<id, n>> /\ (<<id, n>> = <<id, m>> => n = m)
BY DEF HsmSlot

LEMMA FreshStart ==
  ASSUME TypeInv, OrphanInv, FreshInv, NEW s \in Starts, StartStep(s)
  PROVE  FreshInv'
<1> USE DEF TypeInv, TypeOK, RegistryInv, Goto, mapVars, history
<1>1. CASE StartResolves(s)
  <2>1. InFlight(s) /\ (idOf[s] \in Registered => idOf[s] \in overlapped)
    BY <1>1 DEF StartResolves, InFlight, OrphanInv, StartsInv
  <2>2. \A u \in Uses : Sending(u) => target[u] # Null
    BY DEF Sending
  <2> QED
    BY <2>1, <2>2, <1>1 DEF StartResolves, FreshInv, Sending, Unhanded, SlotOf, Registered
<1>2. CASE StartRefused(s)
  <2>1. FreshUnmoved
    BY <1>2 DEF StartRefused, FreshUnmoved
  <2> QED
    BY <2>1, FreshSteady
<1>3. CASE StartCrashes(s)
  <2>1. FreshUnmoved
    BY <1>3 DEF StartCrashes, FreshUnmoved
  <2> QED
    BY <2>1, FreshSteady
<1>4. CASE StartBegins(s)
  <2>1. FreshUnmoved
    BY <1>4 DEF StartBegins, FreshUnmoved
  <2> QED
    BY <2>1, FreshSteady
<1>5. CASE SignerAnswers(s)
  <2>1. FreshUnmoved
    BY <1>5 DEF SignerAnswers, FreshUnmoved
  <2> QED
    BY <2>1, FreshSteady
<1>6. CASE SignerFails(s)
  <2>1. FreshUnmoved
    BY <1>6 DEF SignerFails, FreshUnmoved
  <2> QED
    BY <2>1, FreshSteady
<1>7. CASE StartRejects(s)
  <2>1. FreshUnmoved
    BY <1>7 DEF StartRejects, FreshUnmoved
  <2> QED
    BY <2>1, FreshSteady
<1> QED
  BY <1>1, <1>2, <1>3, <1>4, <1>5, <1>6, <1>7 DEF StartStep

LEMMA FreshLookup ==
  ASSUME TypeInv, FreshInv, NEW q \in Stops \cup Uses,
         WalletFound(q) \/ WalletCrashes(q) \/ WalletRefused(q)
  PROVE  FreshInv'
<1> USE DEF TypeInv, TypeOK, RegistryInv, Goto, mapVars, history
<1>1. CASE WalletFound(q)
  BY <1>1 DEF WalletFound, FreshInv, Sending, Unhanded, SlotOf
<1>2. CASE WalletCrashes(q)
  <2>1. FreshUnmoved
    BY <1>2 DEF WalletCrashes, FreshUnmoved
  <2> QED
    BY <2>1, FreshSteady
<1>3. CASE WalletRefused(q)
  <2>1. FreshUnmoved
    BY <1>3 DEF WalletRefused, FreshUnmoved
  <2> QED
    BY <2>1, FreshSteady
<1> QED
  BY <1>1, <1>2, <1>3

LEMMA FreshStop ==
  ASSUME TypeInv, FreshInv, NEW p \in Stops, StopStep(p)
  PROVE  FreshInv'
<1> USE DEF TypeInv, TypeOK, RegistryInv, Goto, mapVars, history
<1>1. CASE StopResolves(p)
  <2>1. /\ UNCHANGED <<idOf, kind, slot, target, overlapped, cleared, outlived>>
        /\ \A u \in Uses : pc'[u] = pc[u]
        /\ \A id \in Ids : /\ locks[id] \in Nat /\ locks'[id] \in Nat
                           /\ locks[id] <= locks'[id]
                           /\ locks[id] # locks'[id] \/ registry'[id] = registry[id]
    BY <1>1 DEF StopResolves, Deregister
  <2>2. ASSUME NEW u \in Uses, Sending(u)'
        PROVE  /\ slot'[u] = HsmSlot
                  \/ \E n \in Nat : n <= locks'[idOf'[u]] /\ slot'[u] = <<idOf'[u], n>>
               /\ slot'[u] = SlotOf(idOf[u])' /\ ~Unhanded(u)'
                    => registry'[idOf'[u]] = target'[u]
    <3>1. Sending(u) /\ idOf[u] \in Ids
      BY <2>1, <2>2 DEF Sending
    <3>2. CASE slot[u] = HsmSlot
      BY <2>1, <3>1, <3>2, SlotsDiffer DEF SlotOf
    <3>3. ASSUME NEW n \in Nat, n <= locks[idOf[u]], slot[u] = <<idOf[u], n>>
          PROVE  /\ n <= locks'[idOf[u]]
                 /\ n = locks'[idOf[u]] /\ ~Unhanded(u)
                      => registry'[idOf[u]] = target[u]
      <4>0. /\ locks[idOf[u]] \in Nat /\ locks'[idOf[u]] \in Nat
            /\ locks[idOf[u]] <= locks'[idOf[u]]
            /\ locks[idOf[u]] # locks'[idOf[u]] \/ registry'[idOf[u]] = registry[idOf[u]]
        BY <2>1, <3>1, Zenon
      <4>1. n = locks'[idOf[u]] => n = locks[idOf[u]] /\ registry'[idOf[u]] = registry[idOf[u]]
        <5>1. n \in Nat /\ n <= locks[idOf[u]]
          BY <3>3
        <5> HIDE DEF TypeInv, TypeOK, RegistryInv
        <5> QED
          BY <4>0, <5>1
      <4>2. n = locks[idOf[u]] /\ ~Unhanded(u) => registry[idOf[u]] = target[u]
        BY <3>1, <3>3 DEF FreshInv, SlotOf
      <4>3. n <= locks'[idOf[u]]
        BY <2>1, <3>1, <3>3
      <4> QED
        BY <4>1, <4>2, <4>3
    <3> QED
      BY <2>1, <3>1, <3>2, <3>3, SlotsDiffer DEF FreshInv, SlotOf, Unhanded
  <2> QED
    BY <2>1, <2>2 DEF FreshInv
<1>2. CASE StopBegins(p)
  <2>1. FreshUnmoved
    BY <1>2 DEF StopBegins, FreshUnmoved
  <2> QED
    BY <2>1, FreshSteady
<1>3. CASE StopOfNothing(p)
  <2>1. FreshUnmoved
    BY <1>3 DEF StopOfNothing, FreshUnmoved
  <2> QED
    BY <2>1, FreshSteady
<1>4. CASE StopRejects(p)
  <2>1. FreshUnmoved
    BY <1>4 DEF StopRejects, FreshUnmoved
  <2> QED
    BY <2>1, FreshSteady
<1> QED
  BY <1>1, <1>2, <1>3, <1>4, FreshLookup DEF StopStep

LEMMA FreshUse ==
  ASSUME TypeInv, OrphanInv, FreshInv, NEW u \in Uses, UseStep(u)
  PROVE  FreshInv'
<1> USE DEF TypeInv, TypeOK, RegistryInv, Goto, mapVars, history
<1>1. CASE SendBegins(u)
  <2>1. /\ target[u] \in Starts /\ idOf[target[u]] = idOf[u] /\ Running(target[u])
        /\ idOf[u] \notin overlapped \cup outlived => registry[idOf[u]] = target[u]
    BY <1>1 DEF SendBegins, OrphanInv, NoOrphan, Running
  <2>2. WalletLock(idOf[u]) = HsmSlot \/ WalletLock(idOf[u]) = <<idOf[u], locks[idOf[u]]>>
    BY DEF WalletLock, SlotOf
  <2>3. /\ UNCHANGED <<idOf, kind, target, registry, locks, overlapped, cleared, outlived>>
        /\ slot'[u] = WalletLock(idOf[u])
        /\ \A v \in Uses \ {u} : slot'[v] = slot[v] /\ pc'[v] = pc[v]
        /\ idOf[u] \in Ids /\ locks[idOf[u]] \in Nat /\ locks[idOf[u]] <= locks[idOf[u]]
    BY <1>1 DEF SendBegins
  <2> HIDE DEF TypeInv, TypeOK, RegistryInv
  <2>5. /\ slot'[u] = HsmSlot \/ \E n \in Nat : n <= locks[idOf[u]] /\ slot'[u] = <<idOf[u], n>>
        /\ ~Unhanded(u) => registry[idOf[u]] = target[u]
    BY <2>1, <2>2, <2>3 DEF Unhanded
  <2>6. \A v \in Uses \ {u} : Sending(v)' => Sending(v)
    BY <2>3 DEF Sending
  <2> QED
    BY <2>3, <2>5, <2>6 DEF FreshInv, Unhanded, SlotOf
<1>2. CASE SendEnds(u)
  <2>1. FreshUnmoved
    BY <1>2 DEF SendEnds, FreshUnmoved
  <2> QED
    BY <2>1, FreshSteady
<1>3. CASE ListenBegins(u)
  <2>1. FreshUnmoved
    BY <1>3 DEF ListenBegins, FreshUnmoved
  <2> QED
    BY <2>1, FreshSteady
<1>4. CASE ListenFails(u)
  <2>1. FreshUnmoved
    BY <1>4 DEF ListenFails, FreshUnmoved
  <2> QED
    BY <2>1, FreshSteady
<1>5. CASE ListenEnds(u)
  <2>1. FreshUnmoved
    BY <1>5 DEF ListenEnds, FreshUnmoved
  <2> QED
    BY <2>1, FreshSteady
<1> QED
  BY <1>1, <1>2, <1>3, <1>4, <1>5, FreshLookup DEF UseStep

LEMMA FreshReload ==
  ASSUME TypeInv, FreshInv, NEW r \in Reloads, ReloadStep(r)
  PROVE  FreshInv'
<1> USE DEF TypeInv, TypeOK, RegistryInv, Goto, mapVars, history
<1>1. CASE ReloadClears(r)
  BY <1>1 DEF ReloadClears, Deregister, FreshInv, Sending, Unhanded, SlotOf
<1>2. CASE ReloadBegins(r)
  <2>1. FreshUnmoved
    BY <1>2 DEF ReloadBegins, FreshUnmoved
  <2> QED
    BY <2>1, FreshSteady
<1>3. CASE ReloadFails(r)
  <2>1. FreshUnmoved
    BY <1>3 DEF ReloadFails, FreshUnmoved
  <2> QED
    BY <2>1, FreshSteady
<1>4. CASE ReloadExits(r)
  <2>1. FreshUnmoved
    BY <1>4 DEF ReloadExits, FreshUnmoved
  <2> QED
    BY <2>1, FreshSteady
<1>5. CASE ReloadKeeps(r)
  <2>1. FreshUnmoved
    BY <1>5 DEF ReloadKeeps, FreshUnmoved
  <2> QED
    BY <2>1, FreshSteady
<1>6. CASE ReloadStopsAll(r)
  <2>1. FreshUnmoved
    BY <1>6 DEF ReloadStopsAll, FreshUnmoved
  <2> QED
    BY <2>1, FreshSteady
<1>7. CASE ReloadStopsOne(r)
  <2>1. FreshUnmoved
    BY <1>7 DEF ReloadStopsOne, FreshUnmoved
  <2> QED
    BY <2>1, FreshSteady
<1>8. CASE ReloadStopsEnd(r)
  <2>1. FreshUnmoved
    BY <1>8 DEF ReloadStopsEnd, FreshUnmoved
  <2> QED
    BY <2>1, FreshSteady
<1>9. CASE ReloadEnds(r)
  <2>1. FreshUnmoved
    BY <1>9 DEF ReloadEnds, FreshUnmoved
  <2> QED
    BY <2>1, FreshSteady
<1> QED
  BY <1>1, <1>2, <1>3, <1>4, <1>5, <1>6, <1>7, <1>8, <1>9 DEF ReloadStep

(***************************************************************************)
(* A send of an earlier wallet holds the Lock of the one now registered    *)
(* under its id only if stopAllWallets cleared that earlier wallet, whose  *)
(* Lock it keeps, or the id was lost to two starts in flight at once or to *)
(* a stop that outlived a reload.                                          *)
(***************************************************************************)
THEOREM NewWalletsHaveFreshLocks == Spec => []NewWalletHasFreshLock
<1>1. Init => FreshInv
  BY DEF Init, FreshInv, Sending
<1>2. BaseInv /\ FreshInv /\ [Next]_vars => FreshInv'
  <2> SUFFICES ASSUME TypeInv, OrphanInv, FreshInv, [Next]_vars
               PROVE  FreshInv'
    BY DEF BaseInv
  <2>1. CASE UNCHANGED vars \/ LockTimesOut
    <3>1. FreshUnmoved
      BY <2>1 DEF vars, requestVars, mapVars, history, LockTimesOut, FreshUnmoved
    <3> QED
      BY <3>1, FreshSteady
  <2> QED
    BY <2>1, FreshStart, FreshStop, FreshUse, FreshReload DEF Next, Quiet
<1>3. FreshInv => NewWalletHasFreshLock
  BY DEF FreshInv, NewWalletHasFreshLock, Sending, Unhanded
<1> QED
  BY <1>1, <1>2, <1>3, BaseHolds, PTL DEF Spec
=============================================================================
