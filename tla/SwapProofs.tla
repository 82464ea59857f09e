------------------------------ MODULE SwapProofs ------------------------------
(***************************************************************************)
(* Proofs about SwapProposals, for any number of requests, wallets and     *)
(* proposals: its types, its invariants, and that the wallets' use of the  *)
(* service implements VersionedProposals.                                  *)
(***************************************************************************)
EXTENDS SwapProposals, LockProofs

SwapTypes ==
  /\ TypeOK /\ OneTimerPerAcquisition
  /\ history \in [Proposals -> Seq(Requests \cup {Outsider})]
  /\ \A p \in Proposals : Len(history[p]) \in 0 .. MaxVersion

(* Only the first version of a proposal sets its password. *)
ServiceInv ==
  /\ \A p \in Proposals : history[p] = << >> => secret[p] = NoPassword
  /\ ListenedPasswordIsRight
  /\ \A r \in Requests : reply[r] = "ok" => pw[r] # NoPassword /\ pw[r] = secret[pid[r]]

(* A request is inside with the Lock it took until it or the timer frees it. *)
SectionInv ==
  \A r \in Requests :
    pc[r] = "section" /\ r \notin overrun /\ slot[r] \notin crossed =>
      /\ lockStatus[slot[r]]
      /\ \A q \in Requests :
           pc[q] = "section" /\ q \notin overrun /\ slot[q] = slot[r] => q = r

(* Where each update stands. *)
UpdateInv ==
  \A r \in Requests :
    /\ answer[r] = "none" <=> pc[r] # "done"
    /\ kind[r] \in Updates /\ pc[r] = "idle" => pw[r] = NoPassword
    /\ kind[r] \in Updates /\ pc[r] = "back" => pw[r] # NoPassword
    /\ kind[r] = "create" /\ pc[r] = "calling" => ver[r] = 0
    /\ kind[r] \in Updates /\ reply[r] = "ok" =>
         ver[r] < Len(history[pid[r]]) /\ history[pid[r]][ver[r] + 1] = r

SwapInv == SwapTypes /\ ServiceInv /\ SectionInv /\ UpdateInv

USE SwapAssumption DEF Kinds, Updates, Locking, Replies

-----------------------------------------------------------------------------
(* The control helpers. *)

Answers == {"none", "ok", "failed", "notFound", "busy", "crash"}

LEMMA TypesKept ==
  ASSUME SwapTypes, UNCHANGED <<lockVars, kind, wal, pid, ver, slot, lockOf, serviceVars>>,
         overrun' \subseteq Requests, crossed' \subseteq Slots,
         pc' \in [Requests -> {"idle", "calling", "back", "section", "done"}],
         answer' \in [Requests -> Answers],
         pw' \in [Requests -> Passwords \cup {NoPassword}],
         reply' \in [Requests -> Replies],
         listened' \in [Wallets -> [Proposals -> Passwords \cup {NoPassword}]],
         \A r \in Requests : pc'[r] = "calling" => pw'[r] # NoPassword,
         \A r \in Requests : reply'[r] # "none" <=> pc'[r] = "back"
  PROVE  SwapTypes'
<1>1. LockTypeOK' /\ OneTimerPerAcquisition'
  BY LockUnchangedInv DEF LockInv, SwapTypes, TypeOK
<1> QED BY <1>1 DEF SwapTypes, TypeOK, Answers, serviceVars

LEMMA AnswersNowInv ==
  ASSUME SwapInv, NEW r \in Requests, NEW a \in Answers \ {"none"}, AnswersNow(r, a)
  PROVE  SwapInv'
<1>1. /\ pc[r] = "idle" /\ pc' = [pc EXCEPT ![r] = "done"]
      /\ answer' = [answer EXCEPT ![r] = a]
      /\ UNCHANGED <<kind, wal, pid, pw, ver, reply, slot, listened, history, secret, gone>>
      /\ UNCHANGED <<lockVars, lockOf, overrun, crossed>>
  BY DEF AnswersNow, Respond, Elsewhere, serviceVars
<1>2. SwapTypes'
  <2>1. /\ pc' \in [Requests -> {"idle", "calling", "back", "section", "done"}]
        /\ answer' \in [Requests -> Answers]
        /\ \A q \in Requests : pc'[q] = "calling" => pw'[q] # NoPassword
        /\ \A q \in Requests : reply'[q] # "none" <=> pc'[q] = "back"
    BY <1>1 DEF SwapInv, SwapTypes, TypeOK, Answers
  <2>2. /\ pw' \in [Requests -> Passwords \cup {NoPassword}] /\ reply' \in [Requests -> Replies]
        /\ listened' \in [Wallets -> [Proposals -> Passwords \cup {NoPassword}]]
        /\ overrun' \subseteq Requests /\ crossed' \subseteq Slots
    BY <1>1 DEF SwapInv, SwapTypes, TypeOK
  <2> QED BY <1>1, <2>1, <2>2, TypesKept DEF SwapInv, serviceVars
<1>3. ServiceInv'
  BY <1>1 DEF SwapInv, ServiceInv, ListenedPasswordIsRight, Listens
<1>4. SectionInv'
  BY <1>1 DEF SwapInv, SwapTypes, TypeOK, SectionInv, lockVars
<1>5. UpdateInv'
  BY <1>1 DEF SwapInv, SwapTypes, TypeOK, UpdateInv, Answers
<1> QED BY <1>2, <1>3, <1>4, <1>5 DEF SwapInv

LEMMA CallInv ==
  ASSUME SwapInv, NEW r \in Requests, NEW p \in Proposals, NEW w \in Passwords,
         NEW v \in 0 .. MaxVersion, kind[r] = "create" => v = 0,
         Call(r, p, w, v), UNCHANGED <<listened, serviceVars>>, Elsewhere
  PROVE  SwapInv'
<1>1. /\ pc[r] = "idle" /\ pc' = [pc EXCEPT ![r] = "calling"]
      /\ pid' = [pid EXCEPT ![r] = p] /\ pw' = [pw EXCEPT ![r] = w] /\ ver' = [ver EXCEPT ![r] = v]
      /\ UNCHANGED <<kind, answer, wal, reply, slot, listened, history, secret, gone>>
      /\ UNCHANGED <<lockVars, lockOf, overrun, crossed>>
  BY DEF Call, Elsewhere, serviceVars
<1>2. SwapTypes'
  <2>1. LockTypeOK' /\ OneTimerPerAcquisition'
    BY <1>1, LockUnchangedInv DEF LockInv, SwapInv, SwapTypes, TypeOK
  <2> QED BY <1>1, <2>1 DEF SwapInv, SwapTypes, TypeOK
<1>3. reply[r] = "none"
  BY <1>1 DEF SwapInv, SwapTypes, TypeOK
<1>4. ServiceInv'
  BY <1>1, <1>3 DEF SwapInv, SwapTypes, TypeOK, ServiceInv, ListenedPasswordIsRight, Listens
<1>5. SectionInv'
  BY <1>1 DEF SwapInv, SwapTypes, TypeOK, SectionInv, lockVars
<1>6. UpdateInv'
  BY <1>1, <1>3 DEF SwapInv, SwapTypes, TypeOK, UpdateInv
<1> QED BY <1>2, <1>4, <1>5, <1>6 DEF SwapInv

LEMMA SettlesInv ==
  ASSUME SwapInv, NEW r \in Requests, NEW a \in Answers \ {"none"}, Settles(r, a),
         listened' \in [Wallets -> [Proposals -> Passwords \cup {NoPassword}]],
         \A w \in Wallets, p \in Proposals :
           listened'[w][p] # NoPassword => listened'[w][p] = secret[p]
  PROVE  SwapInv'
<1>1. /\ pc[r] = "back" /\ pc' = [pc EXCEPT ![r] = "done"]
      /\ answer' = [answer EXCEPT ![r] = a] /\ reply' = [reply EXCEPT ![r] = "none"]
      /\ pw' = pw \/ (kind[r] \notin Updates /\ pw' = [pw EXCEPT ![r] = NoPassword])
      /\ UNCHANGED <<kind, wal, pid, ver, slot, history, secret, gone>>
      /\ UNCHANGED <<lockVars, lockOf, overrun, crossed>>
  BY DEF Settles, Respond, Elsewhere, serviceVars
<1>2. SwapTypes'
  <2>1. /\ pc' \in [Requests -> {"idle", "calling", "back", "section", "done"}]
        /\ answer' \in [Requests -> Answers]
        /\ pw' \in [Requests -> Passwords \cup {NoPassword}] /\ reply' \in [Requests -> Replies]
        /\ \A q \in Requests : pc'[q] = "calling" => pw'[q] # NoPassword
        /\ \A q \in Requests : reply'[q] # "none" <=> pc'[q] = "back"
        /\ overrun' \subseteq Requests /\ crossed' \subseteq Slots
    BY <1>1 DEF SwapInv, SwapTypes, TypeOK, Answers
  <2> QED BY <1>1, <2>1, TypesKept DEF SwapInv, serviceVars
<1>3. ServiceInv'
  BY <1>1 DEF SwapInv, SwapTypes, TypeOK, ServiceInv, ListenedPasswordIsRight, Listens
<1>4. SectionInv'
  BY <1>1 DEF SwapInv, SwapTypes, TypeOK, SectionInv, lockVars
<1>5. UpdateInv'
  BY <1>1 DEF SwapInv, SwapTypes, TypeOK, UpdateInv, Answers
<1> QED BY <1>2, <1>3, <1>4, <1>5 DEF SwapInv

-----------------------------------------------------------------------------
(* The service. *)

(* A version is written on top of the others, and only a first one may set
   the password. *)
Written(p, who) ==
  /\ Len(history[p]) < MaxVersion
  /\ history' = [history EXCEPT ![p] = Append(@, who)]
  /\ secret' \in [Proposals -> Passwords \cup {NoPassword}]
  /\ \A q \in Proposals : secret[q] # NoPassword => secret'[q] = secret[q]
  /\ \A q \in Proposals \ {p} : secret'[q] = secret[q]

LEMMA HistoryGrows ==
  ASSUME SwapTypes, NEW p \in Proposals, NEW who \in Requests \cup {Outsider}, Written(p, who)
  PROVE  /\ history' \in [Proposals -> Seq(Requests \cup {Outsider})]
         /\ \A q \in Proposals : Len(history'[q]) \in 0 .. MaxVersion
         /\ Len(history'[p]) = Len(history[p]) + 1
         /\ history'[p][Len(history[p]) + 1] = who
         /\ \A q \in Proposals : \A i \in 0 .. MaxVersion :
              i < Len(history[q]) =>
                i < Len(history'[q]) /\ history'[q][i + 1] = history[q][i + 1]
         /\ \A q \in Proposals : history'[q] = << >> => history[q] = << >> /\ q # p
<1> DEFINE h == history[p]
<1>1. h \in Seq(Requests \cup {Outsider}) /\ Len(h) \in Nat /\ Len(h) + 1 \in 0 .. MaxVersion
  BY DEF SwapTypes, Written
<1>2. /\ Append(h, who) \in Seq(Requests \cup {Outsider})
      /\ Len(Append(h, who)) = Len(h) + 1
      /\ Append(h, who)[Len(h) + 1] = who
      /\ \A i \in 1 .. Len(h) : Append(h, who)[i] = h[i]
      /\ Append(h, who) # << >>
  BY <1>1
<1>3. history'[p] = Append(h, who) /\ \A q \in Proposals \ {p} : history'[q] = history[q]
  BY DEF Written, SwapTypes
<1>4. /\ history' \in [Proposals -> Seq(Requests \cup {Outsider})]
      /\ \A q \in Proposals : Len(history'[q]) \in 0 .. MaxVersion
  BY <1>1, <1>2, <1>3 DEF Written, SwapTypes
<1>5. \A q \in Proposals : Len(history[q]) \in Nat
  BY DEF SwapTypes
<1>6. ASSUME NEW q \in Proposals, NEW i \in 0 .. MaxVersion, i < Len(history[q])
      PROVE  i < Len(history'[q]) /\ history'[q][i + 1] = history[q][i + 1]
  <2>1. CASE q = p
    <3>1. i + 1 \in 1 .. Len(h)
      BY <1>1, <1>6, <2>1
    <3> QED BY <1>1, <1>2, <1>3, <1>6, <2>1, <3>1
  <2>2. CASE q # p
    BY <1>3, <1>6, <2>2
  <2> QED BY <2>1, <2>2
<1> HIDE DEF h
<1> QED BY <1>2, <1>3, <1>4, <1>6 DEF h

(* Writing a version leaves right what was right. *)
LEMMA WrittenServiceInv ==
  ASSUME SwapInv, NEW p \in Proposals, NEW who \in Requests \cup {Outsider}, Written(p, who),
         history[p] = << >> \/ secret' = secret,
         UNCHANGED <<listened, pid, pw>>, NEW x,
         \A q \in Requests \ {x} : reply'[q] = reply[q],
         x \in Requests /\ reply'[x] = "ok" =>
           pw[x] # NoPassword /\ pw[x] = secret'[pid[x]]
  PROVE  ServiceInv'
<1>1. \A q \in Proposals : history'[q] = << >> => history[q] = << >> /\ q # p
  BY HistoryGrows DEF SwapInv
<1>2. \A q \in Proposals : history'[q] = << >> => secret'[q] = NoPassword
  BY <1>1 DEF SwapInv, ServiceInv, Written
<1>3. \A q \in Proposals : secret[q] # NoPassword => secret'[q] = secret[q]
  BY DEF Written
<1>4. ListenedPasswordIsRight'
  BY <1>3 DEF SwapInv, ServiceInv, ListenedPasswordIsRight, Listens
<1>5. ASSUME NEW r \in Requests, reply'[r] = "ok"
      PROVE  pw'[r] # NoPassword /\ pw'[r] = secret'[pid'[r]]
  BY <1>3, <1>5 DEF SwapInv, ServiceInv, SwapTypes, TypeOK
<1> QED BY <1>2, <1>4, <1>5 DEF ServiceInv

LEMMA ServedInv ==
  ASSUME SwapInv, NEW r \in Requests, Served(r)
  PROVE  SwapInv'
<1> DEFINE p == pid[r]
           took == kind[r] \in Updates /\ Verdict(r) = "ok"
<1>1. /\ pc[r] = "calling" /\ pc' = [pc EXCEPT ![r] = "back"]
      /\ UNCHANGED <<kind, answer, wal, pid, pw, ver, slot, listened, gone>>
      /\ UNCHANGED <<lockVars, lockOf, overrun, crossed>>
  BY DEF Served, Elsewhere
<1>2. p \in Proposals /\ pw[r] \in Passwords /\ ver[r] \in 0 .. MaxVersion
  BY <1>1 DEF SwapInv, SwapTypes, TypeOK
<1>3. Verdict(r) \in {"ok", "missing", "refused"}
  BY DEF Verdict
<1>4. reply' \in [Requests -> Replies] /\ reply'[r] # "none"
      /\ \A q \in Requests \ {r} : reply'[q] = reply[q]
  <2>1. reply \in [Requests -> Replies]
    BY DEF SwapInv, SwapTypes, TypeOK
  <2>2. PICK a \in Replies \ {"none"} : reply' = [reply EXCEPT ![r] = a]
    BY <1>3 DEF Served
  <2> QED BY <2>1, <2>2
<1>5. LockTypeOK' /\ OneTimerPerAcquisition'
  BY <1>1, LockUnchangedInv DEF LockInv, SwapInv, SwapTypes, TypeOK
<1>6. SectionInv'
  BY <1>1 DEF SwapInv, SwapTypes, TypeOK, SectionInv, lockVars
<1>7. /\ pc' \in [Requests -> {"idle", "calling", "back", "section", "done"}]
      /\ \A q \in Requests : reply'[q] # "none" <=> pc'[q] = "back"
      /\ \A q \in Requests : pc'[q] = "calling" => pw'[q] # NoPassword
  BY <1>1, <1>4 DEF SwapInv, SwapTypes, TypeOK
<1>8. CASE took
  <2>1. /\ Len(history[p]) < MaxVersion
        /\ history' = [history EXCEPT ![p] = Append(@, r)]
        /\ secret' = [secret EXCEPT ![p] = pw[r]]
    BY <1>8 DEF Served
  <2>2. history[p] = << >> \/ pw[r] = secret[p]
    BY <1>8 DEF Verdict
  <2>3. history[p] = << >> => secret[p] = NoPassword
    BY <1>2 DEF SwapInv, ServiceInv
  <2>4. secret \in [Proposals -> Passwords \cup {NoPassword}]
    BY DEF SwapInv, SwapTypes, TypeOK
  <2>5. Written(p, r) /\ secret'[p] = pw[r] /\ (history[p] = << >> \/ secret' = secret)
    BY <1>2, <2>1, <2>2, <2>3, <2>4 DEF Written
  <2>6. /\ history' \in [Proposals -> Seq(Requests \cup {Outsider})]
        /\ \A q \in Proposals : Len(history'[q]) \in 0 .. MaxVersion
        /\ Len(history'[p]) = Len(history[p]) + 1
        /\ history'[p][Len(history[p]) + 1] = r
        /\ \A q \in Proposals : \A i \in 0 .. MaxVersion :
             i < Len(history[q]) =>
               i < Len(history'[q]) /\ history'[q][i + 1] = history[q][i + 1]
    BY <1>2, <2>5, HistoryGrows DEF SwapInv
  <2>7. SwapTypes'
    BY <1>1, <1>4, <1>5, <1>7, <2>5, <2>6 DEF SwapInv, SwapTypes, TypeOK, Written
  <2>8. ServiceInv'
    <3>1. pw[r] # NoPassword /\ pw[r] = secret'[pid[r]]
      BY <1>2, <2>5
    <3> QED BY <1>1, <1>2, <1>4, <2>5, <3>1, WrittenServiceInv
  <2>9. ver[r] = Len(history[p])
    <3>1. kind[r] = "create" => ver[r] = 0 /\ history[p] = << >>
      BY <1>1, <1>8 DEF Verdict, SwapInv, UpdateInv
    <3>2. kind[r] = "update" => ver[r] = Len(history[p])
      BY <1>8 DEF Verdict
    <3> QED BY <1>8, <3>1, <3>2
  <2>10. UpdateInv'
    <3>1. Len(history[p]) \in Nat
      BY <1>2 DEF SwapInv, SwapTypes
    <3>2. ver'[r] < Len(history'[pid'[r]]) /\ history'[pid'[r]][ver'[r] + 1] = r
      BY <1>1, <2>6, <2>9, <3>1
    <3>3. ASSUME NEW q \in Requests \ {r}, kind[q] \in Updates, reply[q] = "ok"
          PROVE  ver[q] < Len(history'[pid[q]]) /\ history'[pid[q]][ver[q] + 1] = q
      BY <2>6, <3>3 DEF SwapInv, SwapTypes, TypeOK, UpdateInv
    <3> QED BY <1>1, <1>2, <1>4, <3>2, <3>3 DEF SwapInv, SwapTypes, TypeOK, UpdateInv
  <2> QED BY <1>6, <2>7, <2>8, <2>10 DEF SwapInv
<1>9. CASE ~took
  <2>1. reply' = [reply EXCEPT ![r] = Verdict(r)] /\ UNCHANGED <<history, secret>>
    BY <1>9 DEF Served
  <2>2. SwapTypes'
    BY <1>1, <1>4, <1>5, <1>7, <2>1 DEF SwapInv, SwapTypes, TypeOK
  <2>3. Verdict(r) = "ok" => kind[r] \notin Updates /\ pw[r] = secret[p]
    BY <1>9 DEF Verdict
  <2>4. ServiceInv'
    BY <1>1, <1>2, <2>1, <2>3 DEF SwapInv, SwapTypes, TypeOK, ServiceInv, ListenedPasswordIsRight, Listens
  <2>5. UpdateInv'
    BY <1>1, <1>2, <2>1, <2>3 DEF SwapInv, SwapTypes, TypeOK, UpdateInv
  <2> QED BY <1>6, <2>2, <2>4, <2>5 DEF SwapInv
<1> QED BY <1>8, <1>9

LEMMA CallLostInv ==
  ASSUME SwapInv, NEW r \in Requests, CallLost(r)
  PROVE  SwapInv'
<1>1. /\ pc[r] = "calling" /\ pc' = [pc EXCEPT ![r] = "back"]
      /\ reply' = [reply EXCEPT ![r] = "lost"]
      /\ UNCHANGED <<kind, answer, wal, pid, pw, ver, slot, listened, history, secret, gone>>
      /\ UNCHANGED <<lockVars, lockOf, overrun, crossed>>
  BY DEF CallLost, Elsewhere, serviceVars
<1>2. LockTypeOK' /\ OneTimerPerAcquisition'
  BY <1>1, LockUnchangedInv DEF LockInv, SwapInv, SwapTypes, TypeOK
<1>3. SwapTypes'
  BY <1>1, <1>2 DEF SwapInv, SwapTypes, TypeOK
<1>4. ServiceInv'
  BY <1>1 DEF SwapInv, SwapTypes, TypeOK, ServiceInv, ListenedPasswordIsRight, Listens
<1>5. SectionInv'
  BY <1>1 DEF SwapInv, SwapTypes, TypeOK, SectionInv, lockVars
<1>6. UpdateInv'
  BY <1>1 DEF SwapInv, SwapTypes, TypeOK, UpdateInv
<1> QED BY <1>3, <1>4, <1>5, <1>6 DEF SwapInv

LEMMA OutsiderWritesInv ==
  ASSUME SwapInv, NEW p \in Proposals, OutsiderWrites(p)
  PROVE  SwapInv'
<1>1. UNCHANGED requestVars /\ UNCHANGED <<listened, gone, lockOf, overrun, crossed>>
      /\ UNCHANGED lockVars
  BY DEF OutsiderWrites, Elsewhere
<1>2. UNCHANGED <<kind, pc, answer, wal, pid, pw, ver, reply, slot>>
  BY <1>1 DEF requestVars
<1>3. Written(p, Outsider) /\ (history[p] = << >> \/ secret' = secret)
  <2>1. secret \in [Proposals -> Passwords \cup {NoPassword}]
        /\ (history[p] = << >> => secret[p] = NoPassword)
    BY DEF SwapInv, SwapTypes, TypeOK, ServiceInv
  <2> QED BY <2>1 DEF OutsiderWrites, Written
<1>4. /\ history' \in [Proposals -> Seq(Requests \cup {Outsider})]
      /\ \A q \in Proposals : Len(history'[q]) \in 0 .. MaxVersion
      /\ \A q \in Proposals : \A i \in 0 .. MaxVersion :
           i < Len(history[q]) =>
             i < Len(history'[q]) /\ history'[q][i + 1] = history[q][i + 1]
  BY <1>3, HistoryGrows DEF SwapInv
<1>5. LockTypeOK' /\ OneTimerPerAcquisition'
  BY <1>1, LockUnchangedInv DEF LockInv, SwapInv, SwapTypes, TypeOK
<1>6. SwapTypes'
  BY <1>1, <1>2, <1>3, <1>4, <1>5 DEF SwapInv, SwapTypes, TypeOK, Written
<1>7. ServiceInv'
  BY <1>1, <1>2, <1>3, WrittenServiceInv
<1>8. SectionInv'
  BY <1>1, <1>2 DEF SwapInv, SwapTypes, TypeOK, SectionInv, lockVars
<1>9. UpdateInv'
  <2>1. ASSUME NEW q \in Requests, kind[q] \in Updates, reply[q] = "ok"
        PROVE  ver[q] < Len(history'[pid[q]]) /\ history'[pid[q]][ver[q] + 1] = q
    BY <1>4, <2>1 DEF SwapInv, SwapTypes, TypeOK, UpdateInv
  <2> QED BY <1>2, <2>1 DEF SwapInv, UpdateInv
<1> QED BY <1>6, <1>7, <1>8, <1>9 DEF SwapInv

LEMMA ServiceDropsInv ==
  ASSUME SwapInv, NEW p \in Proposals, ServiceDrops(p)
  PROVE  SwapInv'
<1>1. /\ UNCHANGED <<kind, pc, answer, wal, pid, pw, ver, reply, slot>>
      /\ UNCHANGED <<listened, history, secret>> /\ gone' = gone \cup {p}
      /\ UNCHANGED <<lockVars, lockOf, overrun, crossed>>
  BY DEF ServiceDrops, Elsewhere, requestVars
<1>2. LockTypeOK' /\ OneTimerPerAcquisition'
  BY <1>1, LockUnchangedInv DEF LockInv, SwapInv, SwapTypes, TypeOK
<1>3. SwapTypes'
  BY <1>1, <1>2 DEF SwapInv, SwapTypes, TypeOK
<1>4. ServiceInv' /\ UpdateInv'
  BY <1>1 DEF SwapInv, ServiceInv, ListenedPasswordIsRight, Listens, UpdateInv
<1>5. SectionInv'
  BY <1>1 DEF SwapInv, SectionInv, lockVars
<1> QED BY <1>3, <1>4, <1>5 DEF SwapInv

-----------------------------------------------------------------------------
(* The wallet's Lock. *)

LEMMA SectionBeginsInv ==
  ASSUME SwapInv, NEW r \in Requests, SectionBegins(r)
  PROVE  SwapInv'
<1> DEFINE l == lockOf[wal[r]]
<1>1. /\ kind[r] \in Locking /\ pc[r] = "idle" /\ LockTaken(l)
      /\ pc' = [pc EXCEPT ![r] = "section"] /\ slot' = [slot EXCEPT ![r] = l]
      /\ UNCHANGED <<kind, answer, wal, pid, pw, ver, reply, listened, lockOf>>
      /\ UNCHANGED <<history, secret, gone, overrun, crossed>>
  BY DEF SectionBegins, serviceVars
<1>2. l \in Slots
  BY DEF SwapInv, SwapTypes, TypeOK
<1>3. /\ LockTypeOK' /\ OneTimerPerAcquisition'
      /\ ~lockStatus[l] /\ lockStatus' = [lockStatus EXCEPT ![l] = TRUE]
  BY <1>1, <1>2, LockTakenInv DEF LockInv, SwapInv, SwapTypes, TypeOK
<1> HIDE DEF l
<1>4. SwapTypes'
  BY <1>1, <1>2, <1>3 DEF SwapInv, SwapTypes, TypeOK
<1>5. ServiceInv'
  BY <1>1 DEF SwapInv, ServiceInv, ListenedPasswordIsRight, Listens
<1>6. UpdateInv'
  BY <1>1 DEF SwapInv, SwapTypes, TypeOK, UpdateInv
<1>7. SectionInv'
  BY <1>1, <1>2, <1>3 DEF SwapInv, SwapTypes, TypeOK, LockTypeOK, SectionInv
<1> QED BY <1>4, <1>5, <1>6, <1>7 DEF SwapInv

LEMMA SectionEndsInv ==
  ASSUME SwapInv, NEW r \in Requests, NEW l \in Slots, kind[r] \in Locking, SectionEnds(r, l)
  PROVE  SwapInv'
<1>1. PICK a \in {"ok", "failed"} :
        /\ Unlock(l) /\ pc[r] = "section" /\ pc' = [pc EXCEPT ![r] = "done"]
        /\ answer' = [answer EXCEPT ![r] = a]
        /\ crossed' = IF l = slot[r] /\ r \notin overrun THEN crossed ELSE crossed \cup {l}
        /\ UNCHANGED <<kind, wal, pid, pw, ver, reply, slot, listened, lockOf>>
        /\ UNCHANGED <<history, secret, gone, overrun>>
  BY DEF SectionEnds, Respond, serviceVars
<1>2. LockTypeOK' /\ OneTimerPerAcquisition' /\ lockStatus' = [lockStatus EXCEPT ![l] = FALSE]
  BY <1>1, UnlockInv DEF LockInv, SwapInv, SwapTypes, TypeOK
<1>3. SwapTypes'
  BY <1>1, <1>2 DEF SwapInv, SwapTypes, TypeOK
<1>4. ServiceInv'
  BY <1>1 DEF SwapInv, ServiceInv, ListenedPasswordIsRight, Listens
<1>5. UpdateInv'
  BY <1>1 DEF SwapInv, SwapTypes, TypeOK, UpdateInv
<1>6. SectionInv'
  BY <1>1, <1>2 DEF SwapInv, SwapTypes, TypeOK, LockTypeOK, SectionInv
<1> QED BY <1>3, <1>4, <1>5, <1>6 DEF SwapInv

LEMMA LockTimesOutInv ==
  ASSUME SwapInv, NEW l \in Slots, LockTimesOut(l)
  PROVE  SwapInv'
<1>1. /\ TimerFires(l) /\ overrun' = overrun \cup Inside(l)
      /\ UNCHANGED <<kind, pc, answer, wal, pid, pw, ver, reply, slot, listened, lockOf>>
      /\ UNCHANGED <<history, secret, gone, crossed>>
  BY DEF LockTimesOut, requestVars, serviceVars
<1>2. LockTypeOK' /\ OneTimerPerAcquisition' /\ lockStatus' = [lockStatus EXCEPT ![l] = FALSE]
  BY <1>1, TimerFiresInv DEF LockInv, SwapInv, SwapTypes, TypeOK
<1>3. SwapTypes'
  BY <1>1, <1>2 DEF SwapInv, SwapTypes, TypeOK, Inside
<1>4. ServiceInv' /\ UpdateInv'
  BY <1>1 DEF SwapInv, ServiceInv, ListenedPasswordIsRight, Listens, UpdateInv
<1>5. SectionInv'
  BY <1>1, <1>2 DEF SwapInv, SwapTypes, TypeOK, LockTypeOK, SectionInv, Inside
<1> QED BY <1>3, <1>4, <1>5 DEF SwapInv

LEMMA WalletRestartsInv ==
  ASSUME SwapInv, NEW w \in Wallets, WalletRestarts(w)
  PROVE  SwapInv'
<1>1. /\ listened' = [listened EXCEPT ![w] = [p \in Proposals |-> NoPassword]]
      /\ UNCHANGED <<kind, pc, answer, wal, pid, pw, ver, reply, slot>>
      /\ UNCHANGED <<lockVars, history, secret, gone, overrun, crossed>>
  BY DEF WalletRestarts, requestVars, serviceVars
<1>2. lockOf' \in [Wallets -> Slots]
  BY DEF WalletRestarts, SwapInv, SwapTypes, TypeOK
<1>3. LockTypeOK' /\ OneTimerPerAcquisition'
  BY <1>1, LockUnchangedInv DEF LockInv, SwapInv, SwapTypes, TypeOK
<1>4. SwapTypes'
  BY <1>1, <1>2, <1>3 DEF SwapInv, SwapTypes, TypeOK
<1>5. ServiceInv'
  BY <1>1 DEF SwapInv, SwapTypes, TypeOK, ServiceInv, ListenedPasswordIsRight, Listens
<1>6. UpdateInv' /\ SectionInv'
  BY <1>1 DEF SwapInv, UpdateInv, SectionInv, lockVars
<1> QED BY <1>4, <1>5, <1>6 DEF SwapInv

-----------------------------------------------------------------------------
(* Each action of a handler is one of the control helpers. *)

LEMMA BeforeTheCall ==
  ASSUME SwapInv, NEW r \in Requests,
         CreateCalls(r) \/ ListedCalls(r) \/ RegisterCalls(r)
  PROVE  SwapInv'
<1>1. CASE CreateCalls(r)
  BY <1>1, CallInv DEF CreateCalls
<1>2. CASE ListedCalls(r)
  <2>1. PICK p \in Proposals : \E v \in 0 .. Len(history[p]) :
          /\ Listens(wal[r], p) /\ (kind[r] = "fetch" => v = 0)
          /\ Call(r, p, listened[wal[r]][p], v)
    BY <1>2 DEF ListedCalls
  <2>2. PICK v \in 0 .. Len(history[p]) : Call(r, p, listened[wal[r]][p], v)
    BY <2>1
  <2>3. v \in 0 .. MaxVersion
    BY <2>2 DEF SwapInv, SwapTypes
  <2>4. listened[wal[r]][p] \in Passwords
    BY <2>1 DEF Listens, SwapInv, SwapTypes, TypeOK
  <2> QED BY <1>2, <2>2, <2>3, <2>4, CallInv DEF ListedCalls
<1>3. CASE RegisterCalls(r)
  BY <1>3, CallInv DEF RegisterCalls
<1> QED BY <1>1, <1>2, <1>3

LEMMA WithoutCall ==
  ASSUME SwapInv, NEW r \in Requests,
         CallRefused(r) \/ NotRegistered(r) \/ RegisteredBefore(r) \/ LockBusy(r)
  PROVE  \E a \in Answers \ {"none"} :
           AnswersNow(r, a) /\ (kind[r] \in Updates => a # "ok")
<1>1. CASE CallRefused(r) \/ NotRegistered(r)
  BY <1>1 DEF CallRefused, NotRegistered, Answers
<1>2. CASE RegisteredBefore(r)
  <2>1. kind[r] = "register" /\ (AnswersNow(r, "ok") \/ AnswersNow(r, "failed"))
    BY <1>2 DEF RegisteredBefore
  <2> QED BY <2>1 DEF Answers
<1>3. CASE LockBusy(r)
  BY <1>3 DEF LockBusy, Answers
<1> QED BY <1>1, <1>2, <1>3

LEMMA DeletedInv ==
  ASSUME SwapInv, NEW r \in Requests, Deleted(r)
  PROVE  SwapInv'
<1>1. PICK p \in Proposals : listened' = [listened EXCEPT ![wal[r]][p] = NoPassword]
  BY DEF Deleted, Forget, Listen
<1>2. /\ kind[r] = "delete" /\ pc[r] = "idle" /\ pc' = [pc EXCEPT ![r] = "done"]
      /\ answer' = [answer EXCEPT ![r] = "ok"]
      /\ UNCHANGED <<kind, wal, pid, pw, ver, reply, slot, history, secret, gone>>
      /\ UNCHANGED <<lockVars, lockOf, overrun, crossed>>
  BY DEF Deleted, Respond, Elsewhere, serviceVars
<1>3. LockTypeOK' /\ OneTimerPerAcquisition'
  BY <1>2, LockUnchangedInv DEF LockInv, SwapInv, SwapTypes, TypeOK
<1>4. SwapTypes'
  BY <1>1, <1>2, <1>3 DEF SwapInv, SwapTypes, TypeOK
<1>5. ServiceInv'
  BY <1>1, <1>2 DEF SwapInv, SwapTypes, TypeOK, ServiceInv, ListenedPasswordIsRight, Listens
<1>6. SectionInv'
  BY <1>2 DEF SwapInv, SwapTypes, TypeOK, SectionInv, lockVars
<1>7. UpdateInv'
  BY <1>2 DEF SwapInv, SwapTypes, TypeOK, UpdateInv
<1> QED BY <1>4, <1>5, <1>6, <1>7 DEF SwapInv

LEMMA AfterTheCall ==
  ASSUME SwapInv, NEW r \in Requests, UpdateEnds(r) \/ CreateOrRegisterEnds(r) \/ FetchEnds(r)
  PROVE  SwapInv'
<1>1. \E a \in Answers \ {"none"} : Settles(r, a)
  <2>1. UpdateEnds(r) => Settles(r, "ok") \/ Settles(r, "failed")
    BY DEF UpdateEnds
  <2> QED BY <2>1 DEF CreateOrRegisterEnds, FetchEnds, Answers
<1>2. \/ listened' = listened
      \/ listened' = [listened EXCEPT ![wal[r]][pid[r]] = NoPassword]
      \/ reply[r] = "ok" /\ listened' = [listened EXCEPT ![wal[r]][pid[r]] = pw[r]]
  BY DEF UpdateEnds, CreateOrRegisterEnds, FetchEnds, Listen, Forget
<1>3. reply[r] = "ok" => pw[r] = secret[pid[r]]
  BY DEF SwapInv, ServiceInv
<1>4. /\ listened' \in [Wallets -> [Proposals -> Passwords \cup {NoPassword}]]
      /\ \A w \in Wallets, p \in Proposals :
           listened'[w][p] # NoPassword => listened'[w][p] = secret[p]
  <2>1. /\ wal[r] \in Wallets /\ pid[r] \in Proposals /\ pw[r] \in Passwords \cup {NoPassword}
        /\ listened \in [Wallets -> [Proposals -> Passwords \cup {NoPassword}]]
    BY DEF SwapInv, SwapTypes, TypeOK
  <2>2. \A w \in Wallets, p \in Proposals :
          listened[w][p] # NoPassword => listened[w][p] = secret[p]
    BY DEF SwapInv, ServiceInv, ListenedPasswordIsRight, Listens
  <2>3. CASE listened' = listened
    BY <2>1, <2>2, <2>3
  <2>4. ASSUME NEW x \in Passwords \cup {NoPassword}, x \in {NoPassword, secret[pid[r]]},
               listened' = [listened EXCEPT ![wal[r]][pid[r]] = x]
        PROVE  /\ listened' \in [Wallets -> [Proposals -> Passwords \cup {NoPassword}]]
               /\ \A w \in Wallets, p \in Proposals :
                    listened'[w][p] # NoPassword => listened'[w][p] = secret[p]
    BY <2>1, <2>2, <2>4
  <2> QED BY <1>2, <1>3, <2>1, <2>3, <2>4
<1>5. PICK a \in Answers \ {"none"} : Settles(r, a)
  BY <1>1
<1> QED BY <1>4, <1>5, SettlesInv

LEMMA SectionEnding ==
  ASSUME SwapInv, NEW r \in Requests, PushReleases(r) \/ UnlockReleases(r)
  PROVE  \E l \in Slots : kind[r] \in Locking /\ SectionEnds(r, l)
BY DEF PushReleases, UnlockReleases, SwapInv, SwapTypes, TypeOK

LEMMA SwapInvStart == Init => SwapInv
<1> SUFFICES ASSUME Init PROVE SwapInv
  OBVIOUS
<1>1. LockTypeOK /\ OneTimerPerAcquisition
  BY LockInitInv DEF Init, LockInv
<1>2. lockOf \in [Wallets -> Slots]
  BY DEF Init
<1>3. pid \in [Requests -> Proposals] /\ slot \in [Requests -> Slots]
  <2>1. (CHOOSE p \in Proposals : TRUE) \in Proposals /\ (CHOOSE l \in Slots : TRUE) \in Slots
    OBVIOUS
  <2> QED BY <2>1 DEF Init
<1>4. history = [p \in Proposals |-> << >>]
  BY DEF Init
<1>5. << >> \in Seq(Requests \cup {Outsider}) /\ Len(<< >>) \in 0 .. MaxVersion
  OBVIOUS
<1>6. TypeOK
  BY <1>1, <1>2, <1>3, <1>4, <1>5 DEF Init, TypeOK
<1>7. SwapTypes
  BY <1>1, <1>4, <1>5, <1>6 DEF SwapTypes
<1> QED BY <1>7 DEF Init, SwapInv, ServiceInv, ListenedPasswordIsRight, Listens, SectionInv, UpdateInv

LEMMA SwapInvStep == SwapInv /\ [Next]_vars => SwapInv'
<1> SUFFICES ASSUME SwapInv, [Next]_vars PROVE SwapInv'
  OBVIOUS
<1>1. ASSUME NEW r \in Requests, Handler(r)
      PROVE  SwapInv'
  <2>1. CASE CreateCalls(r) \/ ListedCalls(r) \/ RegisterCalls(r)
    BY <2>1, BeforeTheCall
  <2>2. CASE CallRefused(r) \/ NotRegistered(r) \/ RegisteredBefore(r) \/ LockBusy(r)
    BY <2>2, WithoutCall, AnswersNowInv
  <2>3. CASE Deleted(r)
    BY <2>3, DeletedInv
  <2>4. CASE UpdateEnds(r) \/ CreateOrRegisterEnds(r) \/ FetchEnds(r)
    BY <2>4, AfterTheCall
  <2>5. CASE SectionBegins(r)
    BY <2>5, SectionBeginsInv
  <2>6. CASE PushReleases(r) \/ UnlockReleases(r)
    BY <2>6, SectionEnding, SectionEndsInv
  <2> QED BY <1>1, <2>1, <2>2, <2>3, <2>4, <2>5, <2>6 DEF Handler
<1>2. ASSUME NEW r \in Requests, Served(r) \/ CallLost(r)
      PROVE  SwapInv'
  BY <1>2, ServedInv, CallLostInv
<1>3. ASSUME NEW p \in Proposals, OutsiderWrites(p) \/ ServiceDrops(p)
      PROVE  SwapInv'
  BY <1>3, OutsiderWritesInv, ServiceDropsInv
<1>4. ASSUME NEW l \in Slots, LockTimesOut(l)
      PROVE  SwapInv'
  BY <1>4, LockTimesOutInv
<1>5. ASSUME NEW w \in Wallets, WalletRestarts(w)
      PROVE  SwapInv'
  BY <1>5, WalletRestartsInv
<1>6. CASE UNCHANGED vars
  <2>1. /\ UNCHANGED <<kind, pc, answer, wal, pid, pw, ver, reply, slot>>
        /\ UNCHANGED <<lockVars, listened, lockOf, history, secret, gone, overrun, crossed>>
    BY <1>6 DEF vars, requestVars, serviceVars
  <2>2. LockTypeOK' /\ OneTimerPerAcquisition'
    BY <2>1, LockUnchangedInv DEF LockInv, SwapInv, SwapTypes, TypeOK
  <2>3. SwapTypes'
    BY <2>1, <2>2 DEF SwapInv, SwapTypes, TypeOK
  <2>4. ServiceInv' /\ SectionInv' /\ UpdateInv'
    BY <2>1 DEF SwapInv, ServiceInv, ListenedPasswordIsRight, Listens, SectionInv, UpdateInv, lockVars
  <2> QED BY <2>3, <2>4 DEF SwapInv
<1> QED BY <1>1, <1>2, <1>3, <1>4, <1>5, <1>6 DEF Next

(* The inductive invariant, from which the rest follows. *)
LEMMA SwapInvHolds == Spec => []SwapInv
BY SwapInvStart, SwapInvStep, PTL DEF Spec

(***************************************************************************)
(* The variables keep their types; in particular whoever calls the service *)
(* gives a password, and an answer is pending exactly when a call ended.   *)
(* (atomic-swap.service.js, tx-proposal.controller.js)                     *)
(***************************************************************************)
THEOREM SwapTypeCorrect == Spec => []TypeOK
<1>1. SwapInv => TypeOK
  BY DEF SwapInv, SwapTypes
<1> QED BY <1>1, SwapInvHolds, PTL

(***************************************************************************)
(* However handlers, participants and stops interleave around the calls,   *)
(* a password that is listened to is the one the service has.              *)
(* (tx-proposal.controller.js:469-477, atomic-swap.service.js:69-75)       *)
(***************************************************************************)
THEOREM ListenedPasswordsAreRight == Spec => []ListenedPasswordIsRight
<1>1. SwapInv => ListenedPasswordIsRight
  BY DEF SwapInv, ServiceInv
<1> QED BY <1>1, SwapInvHolds, PTL

(***************************************************************************)
(* A Lock protects one request at a time, across stops and starts of the   *)
(* wallet.  (lock.helper.js:30-47, tx-proposal.controller.js:430)          *)
(***************************************************************************)
THEOREM OneInsideAtATime == Spec => []OneInside
<1>1. SwapInv => OneInside
  BY DEF SwapInv, SectionInv, OneInside, Inside
<1> QED BY <1>1, SwapInvHolds, PTL

-----------------------------------------------------------------------------
(* The refinement. *)

LEMMA CallAsks ==
  ASSUME SwapInv, NEW r \in Requests, NEW p \in Proposals, NEW w \in Passwords,
         NEW v \in 0 .. MaxVersion, Call(r, p, w, v), UNCHANGED history
  PROVE  [Register!RegisterNext]_(Register!registerVars)
<1>1. /\ pc[r] = "idle" /\ pid' = [pid EXCEPT ![r] = p]
      /\ pw' = [pw EXCEPT ![r] = w] /\ ver' = [ver EXCEPT ![r] = v]
      /\ UNCHANGED <<kind, answer>>
  BY DEF Call
<1>2. UNCHANGED outcome
  BY <1>1 DEF outcome
<1>3. CASE kind[r] \in Updates
  <2>1. asked[r] = Unasked /\ outcome[r] = "none"
    BY <1>1, <1>3 DEF SwapInv, UpdateInv, asked, outcome
  <2>2. asked'[r] = <<p, v>> /\ asked' = [asked EXCEPT ![r] = asked'[r]]
    BY <1>1, <1>3 DEF SwapInv, SwapTypes, TypeOK, asked
  <2>3. Register!Ask(r)
    BY <1>2, <2>1, <2>2 DEF Register!Ask
  <2> QED BY <2>3 DEF Register!RegisterNext
<1>4. CASE kind[r] \notin Updates
  <2>1. UNCHANGED asked
    BY <1>1, <1>4 DEF SwapInv, SwapTypes, TypeOK, asked
  <2> QED BY <1>2, <2>1 DEF Register!registerVars
<1> QED BY <1>3, <1>4

LEMMA AnswerSettles ==
  ASSUME SwapInv, NEW r \in Requests, NEW a \in Answers \ {"none"},
         answer[r] = "none", answer' = [answer EXCEPT ![r] = a],
         UNCHANGED <<kind, pid, ver, history>>,
         pw' = pw \/ (kind[r] \notin Updates /\ pw' = [pw EXCEPT ![r] = NoPassword]),
         kind[r] \in Updates /\ a = "ok" => reply[r] = "ok"
  PROVE  Register!RegisterNext
<1>1. UNCHANGED asked
  BY DEF SwapInv, SwapTypes, TypeOK, asked
<1>2. outcome[r] = "none"
      /\ outcome' = [outcome EXCEPT ![r] = IF a = "ok" THEN "ok" ELSE "failed"]
  BY DEF SwapInv, SwapTypes, TypeOK, outcome, Answers
<1>3. ASSUME asked[r] # Unasked, a = "ok"
      PROVE  Register!Wrote(r)
  <2>1. kind[r] \in Updates /\ asked[r] = <<pid[r], ver[r]>>
    BY <1>3 DEF asked
  <2>2. ver[r] < Len(history[pid[r]]) /\ history[pid[r]][ver[r] + 1] = r
    BY <1>3, <2>1 DEF SwapInv, UpdateInv
  <2> QED BY <1>3, <2>1, <2>2 DEF Register!Wrote
<1>4. Register!Settle(r)
  BY <1>1, <1>2, <1>3 DEF Register!Settle
<1> QED BY <1>4 DEF Register!RegisterNext

LEMMA ServedTakesEffect ==
  ASSUME SwapInv, NEW r \in Requests, Served(r)
  PROVE  [Register!RegisterNext]_(Register!registerVars)
<1>1. pc[r] = "calling" /\ UNCHANGED <<kind, answer, pid, ver, pw>>
  BY DEF Served
<1>2. UNCHANGED <<asked, outcome>>
  BY <1>1 DEF asked, outcome
<1>3. CASE kind[r] \in Updates /\ Verdict(r) = "ok"
  <2>1. history' = [history EXCEPT ![pid[r]] = Append(@, r)]
    BY <1>3 DEF Served
  <2>2. ver[r] = Len(history[pid[r]])
    <3>1. kind[r] = "create" => ver[r] = 0 /\ history[pid[r]] = << >>
      BY <1>1, <1>3 DEF Verdict, SwapInv, UpdateInv
    <3>2. kind[r] = "update" => ver[r] = Len(history[pid[r]])
      BY <1>3 DEF Verdict
    <3> QED BY <1>3, <3>1, <3>2
  <2>3. asked[r] = <<pid[r], ver[r]>> /\ outcome[r] = "none"
    BY <1>1, <1>3 DEF asked, outcome, SwapInv, SwapTypes, TypeOK, UpdateInv
  <2>4. Len(history[pid[r]]) \in Nat
    BY DEF SwapInv, SwapTypes, TypeOK
  <2>5. asked[r] # Unasked /\ ~Register!Wrote(r)
    BY <2>2, <2>3, <2>4 DEF Register!Wrote, Unasked
  <2>6. Register!TakeEffect(r)
    BY <1>2, <2>1, <2>2, <2>3, <2>5 DEF Register!TakeEffect
  <2> QED BY <2>6 DEF Register!RegisterNext
<1>4. CASE ~(kind[r] \in Updates /\ Verdict(r) = "ok")
  <2>1. UNCHANGED history
    BY <1>4 DEF Served
  <2> QED BY <1>2, <2>1 DEF Register!registerVars
<1> QED BY <1>3, <1>4

LEMMA HandlerRefines ==
  ASSUME SwapInv, NEW r \in Requests, Handler(r)
  PROVE  [Register!RegisterNext]_(Register!registerVars)
<1>1. CASE CreateCalls(r) \/ RegisterCalls(r)
  <2>1. PICK p \in Proposals, w \in Passwords : Call(r, p, w, 0)
    BY <1>1 DEF CreateCalls, RegisterCalls
  <2>2. UNCHANGED history
    BY <1>1 DEF CreateCalls, RegisterCalls, serviceVars
  <2> QED BY <2>1, <2>2, CallAsks
<1>2. CASE ListedCalls(r)
  <2>1. PICK p \in Proposals : \E v \in 0 .. Len(history[p]) :
          Listens(wal[r], p) /\ Call(r, p, listened[wal[r]][p], v)
    BY <1>2 DEF ListedCalls
  <2>2. PICK v \in 0 .. Len(history[p]) : Call(r, p, listened[wal[r]][p], v)
    BY <2>1
  <2>3. v \in 0 .. MaxVersion
    BY <2>2 DEF SwapInv, SwapTypes
  <2>4. listened[wal[r]][p] \in Passwords
    BY <2>1 DEF Listens, SwapInv, SwapTypes, TypeOK
  <2>5. UNCHANGED history
    BY <1>2 DEF ListedCalls, serviceVars
  <2> QED BY <2>2, <2>3, <2>4, <2>5, CallAsks
<1>3. CASE CallRefused(r) \/ NotRegistered(r) \/ RegisteredBefore(r) \/ LockBusy(r)
  <2>1. PICK a \in Answers \ {"none"} :
          AnswersNow(r, a) /\ (kind[r] \in Updates => a # "ok")
    BY <1>3, WithoutCall
  <2>2. /\ pc[r] = "idle" /\ answer' = [answer EXCEPT ![r] = a]
        /\ UNCHANGED <<kind, pid, ver, pw, history>>
    BY <2>1 DEF AnswersNow, Respond, serviceVars
  <2>3. answer[r] = "none"
    BY <2>2 DEF SwapInv, UpdateInv
  <2> QED BY <2>1, <2>2, <2>3, AnswerSettles
<1>4. CASE Deleted(r)
  <2>1. /\ kind[r] = "delete" /\ pc[r] = "idle" /\ answer' = [answer EXCEPT ![r] = "ok"]
        /\ UNCHANGED <<kind, pid, ver, pw, history>>
    BY <1>4 DEF Deleted, Respond, serviceVars
  <2>2. answer[r] = "none"
    BY <2>1 DEF SwapInv, UpdateInv
  <2> QED BY <2>1, <2>2, AnswerSettles DEF Answers
<1>5. CASE UpdateEnds(r) \/ CreateOrRegisterEnds(r) \/ FetchEnds(r)
  <2>1. \E a \in Answers \ {"none"} :
          Settles(r, a) /\ (kind[r] \in Updates /\ a = "ok" => reply[r] = "ok")
    <3>1. UpdateEnds(r) => (reply[r] = "ok" /\ Settles(r, "ok")) \/ Settles(r, "failed")
      BY DEF UpdateEnds
    <3>2. CreateOrRegisterEnds(r) => (reply[r] = "ok" /\ Settles(r, "ok")) \/ Settles(r, "failed")
      BY DEF CreateOrRegisterEnds
    <3>3. FetchEnds(r) => /\ kind[r] = "fetch"
                          /\ \/ Settles(r, "ok") \/ Settles(r, "notFound")
                             \/ Settles(r, "failed") \/ Settles(r, "crash")
      BY DEF FetchEnds
    <3> QED BY <1>5, <3>1, <3>2, <3>3 DEF Answers
  <2>2. PICK a \in Answers \ {"none"} :
          Settles(r, a) /\ (kind[r] \in Updates /\ a = "ok" => reply[r] = "ok")
    BY <2>1
  <2>3. /\ pc[r] = "back" /\ answer' = [answer EXCEPT ![r] = a]
        /\ UNCHANGED <<kind, pid, ver, history>>
        /\ pw' = pw \/ (kind[r] \notin Updates /\ pw' = [pw EXCEPT ![r] = NoPassword])
    BY <2>2 DEF Settles, Respond, serviceVars
  <2>4. answer[r] = "none"
    BY <2>3 DEF SwapInv, UpdateInv
  <2> QED BY <2>2, <2>3, <2>4, AnswerSettles
<1>6. CASE SectionBegins(r)
  <2>1. UNCHANGED <<kind, answer, pid, pw, ver, history>>
    BY <1>6 DEF SectionBegins, serviceVars
  <2> QED BY <2>1 DEF Register!registerVars, asked, outcome
<1>7. CASE PushReleases(r) \/ UnlockReleases(r)
  <2>1. PICK l \in Slots : kind[r] \in Locking /\ SectionEnds(r, l)
    BY <1>7, SectionEnding
  <2>2. PICK a \in {"ok", "failed"} : pc[r] = "section" /\ answer' = [answer EXCEPT ![r] = a]
    BY <2>1 DEF SectionEnds, Respond
  <2>3. UNCHANGED <<kind, pid, ver, pw, history>>
    BY <2>1 DEF SectionEnds, serviceVars
  <2>4. answer[r] = "none"
    BY <2>2 DEF SwapInv, UpdateInv
  <2> QED BY <2>1, <2>2, <2>3, <2>4, AnswerSettles DEF Answers
<1> QED BY <1>1, <1>2, <1>3, <1>4, <1>5, <1>6, <1>7 DEF Handler

(***************************************************************************)
(* The wallets' use of the service is a versioned register: what was       *)
(* answered with success took effect, once, on the version its author had  *)
(* seen, for any number of participants, lost calls and lost answers.      *)
(* (atomic-swap.service.js:89-102)                                         *)
(***************************************************************************)
THEOREM SwapImplementsRegister == Spec => RegisterImplemented
<1>1. Init => Register!RegisterInit
  BY DEF Init, Register!RegisterInit, asked, outcome
<1>2. SwapInv /\ [Next]_vars => [Register!RegisterNext]_(Register!registerVars)
  <2> SUFFICES ASSUME SwapInv, [Next]_vars
               PROVE  [Register!RegisterNext]_(Register!registerVars)
    OBVIOUS
  <2>1. ASSUME NEW r \in Requests, Handler(r) \/ Served(r)
        PROVE  [Register!RegisterNext]_(Register!registerVars)
    BY <2>1, HandlerRefines, ServedTakesEffect
  <2>2. ASSUME NEW p \in Proposals, OutsiderWrites(p)
        PROVE  Register!RegisterNext
    <3>1. /\ history' = [history EXCEPT ![p] = Append(@, Outsider)]
          /\ UNCHANGED <<kind, answer, pid, pw, ver>>
      BY <2>2 DEF OutsiderWrites, requestVars
    <3>2. Register!OutsiderWrites(p)
      BY <3>1 DEF Register!OutsiderWrites, asked, outcome
    <3> QED BY <3>2 DEF Register!RegisterNext
  <2>3. ASSUME UNCHANGED <<kind, answer, pid, pw, ver, history>>
        PROVE  UNCHANGED Register!registerVars
    BY <2>3 DEF Register!registerVars, asked, outcome
  <2>4. ASSUME NEW r \in Requests, CallLost(r)
        PROVE  UNCHANGED Register!registerVars
    BY <2>3, <2>4 DEF CallLost, serviceVars
  <2>5. ASSUME NEW p \in Proposals, ServiceDrops(p)
        PROVE  UNCHANGED Register!registerVars
    BY <2>3, <2>5 DEF ServiceDrops, requestVars
  <2>6. ASSUME NEW l \in Slots, LockTimesOut(l)
        PROVE  UNCHANGED Register!registerVars
    BY <2>3, <2>6 DEF LockTimesOut, requestVars, serviceVars
  <2>7. ASSUME NEW w \in Wallets, WalletRestarts(w)
        PROVE  UNCHANGED Register!registerVars
    BY <2>3, <2>7 DEF WalletRestarts, requestVars, serviceVars
  <2>8. CASE UNCHANGED vars
    BY <2>3, <2>8 DEF vars, requestVars, serviceVars
  <2> QED BY <2>1, <2>2, <2>4, <2>5, <2>6, <2>7, <2>8 DEF Next
<1> QED BY <1>1, <1>2, SwapInvHolds, PTL DEF Spec, RegisterImplemented, Register!RegisterSpec

-----------------------------------------------------------------------------
(* What makes a wallet forget. *)

(* Only a proposal that was there is fetched: when the service misses it, it
   has dropped it. *)
FetchInv ==
  \A r \in Requests : kind[r] = "fetch" =>
    /\ pc[r] = "calling" => history[pid[r]] # << >>
    /\ reply[r] = "missing" => pid[r] \in gone

(* A step that leaves the service and the calls alone, or lets them grow. *)
LEMMA FetchInvKept ==
  ASSUME SwapInv, FetchInv, UNCHANGED <<kind, pid>>,
         \A p \in Proposals : history'[p] = << >> => history[p] = << >>,
         gone \subseteq gone',
         \A r \in Requests : pc'[r] = "calling" => pc[r] = "calling",
         \A r \in Requests : reply'[r] = "missing" => reply[r] = "missing"
  PROVE  FetchInv'
BY DEF FetchInv, SwapInv, SwapTypes, TypeOK

LEMMA FetchInvStep ==
  ASSUME SwapInv, FetchInv, [Next]_vars
  PROVE  FetchInv'
<1>1. ASSUME UNCHANGED <<kind, pid, history>>, gone \subseteq gone', reply' = reply,
             \A r \in Requests : pc'[r] = "calling" => pc[r] = "calling"
      PROVE  FetchInv'
  BY <1>1, FetchInvKept
<1>2. ASSUME NEW r \in Requests, Handler(r)
      PROVE  FetchInv'
  <2>1. CASE CreateCalls(r) \/ RegisterCalls(r)
    <3>1. /\ kind[r] # "fetch" /\ pc' = [pc EXCEPT ![r] = "calling"]
          /\ \E p \in Proposals : pid' = [pid EXCEPT ![r] = p]
          /\ UNCHANGED <<kind, reply, history, gone>>
      BY <2>1 DEF CreateCalls, RegisterCalls, Call, serviceVars
    <3> QED BY <3>1 DEF FetchInv, SwapInv, SwapTypes, TypeOK
  <2>2. CASE ListedCalls(r)
    <3>1. PICK p \in Proposals : \E v \in 0 .. Len(history[p]) :
            Listens(wal[r], p) /\ Call(r, p, listened[wal[r]][p], v)
      BY <2>2 DEF ListedCalls
    <3>2. /\ pc[r] = "idle" /\ pc' = [pc EXCEPT ![r] = "calling"]
          /\ pid' = [pid EXCEPT ![r] = p] /\ UNCHANGED <<kind, reply>>
      BY <3>1 DEF Call
    <3>3. UNCHANGED <<history, gone>> /\ reply[r] = "none"
      BY <2>2, <3>2 DEF ListedCalls, serviceVars, SwapInv, SwapTypes, TypeOK
    <3>4. history[p] # << >>
      BY <3>1 DEF SwapInv, SwapTypes, TypeOK, ServiceInv, ListenedPasswordIsRight, Listens
    <3> QED BY <3>2, <3>3, <3>4 DEF FetchInv, SwapInv, SwapTypes, TypeOK
  <2>3. CASE CallRefused(r) \/ NotRegistered(r) \/ RegisteredBefore(r) \/ LockBusy(r)
    <3>1. PICK a \in Answers : AnswersNow(r, a)
      BY <2>3, WithoutCall
    <3>2. pc' = [pc EXCEPT ![r] = "done"] /\ UNCHANGED <<kind, pid, history, gone, reply>>
      BY <3>1 DEF AnswersNow, Respond, serviceVars
    <3> QED BY <1>1, <3>2 DEF SwapInv, SwapTypes, TypeOK
  <2>4. CASE Deleted(r) \/ SectionBegins(r)
    <3>1. /\ pc' = [pc EXCEPT ![r] = "done"] \/ pc' = [pc EXCEPT ![r] = "section"]
          /\ UNCHANGED <<kind, pid, history, gone, reply>>
      BY <2>4 DEF Deleted, SectionBegins, Respond, serviceVars
    <3> QED BY <1>1, <3>1 DEF SwapInv, SwapTypes, TypeOK
  <2>5. CASE UpdateEnds(r) \/ CreateOrRegisterEnds(r) \/ FetchEnds(r)
    <3>1. \E a \in Answers : Settles(r, a)
      BY <2>5 DEF UpdateEnds, CreateOrRegisterEnds, FetchEnds, Answers
    <3>2. /\ pc' = [pc EXCEPT ![r] = "done"] /\ reply' = [reply EXCEPT ![r] = "none"]
          /\ UNCHANGED <<kind, pid, history, gone>>
      BY <3>1 DEF Settles, Respond, serviceVars
    <3> QED BY <3>2, FetchInvKept DEF SwapInv, SwapTypes, TypeOK
  <2>6. CASE PushReleases(r) \/ UnlockReleases(r)
    <3>1. PICK l \in Slots : SectionEnds(r, l)
      BY <2>6, SectionEnding
    <3>2. pc' = [pc EXCEPT ![r] = "done"] /\ UNCHANGED <<kind, pid, history, gone, reply>>
      BY <3>1 DEF SectionEnds, Respond, serviceVars
    <3> QED BY <1>1, <3>2 DEF SwapInv, SwapTypes, TypeOK
  <2> QED BY <1>2, <2>1, <2>2, <2>3, <2>4, <2>5, <2>6 DEF Handler
<1>3. ASSUME NEW r \in Requests, Served(r)
      PROVE  FetchInv'
  <2>1. /\ pc[r] = "calling" /\ pc' = [pc EXCEPT ![r] = "back"]
        /\ UNCHANGED <<kind, pid, gone>>
    BY <1>3 DEF Served
  <2>2. CASE kind[r] \in Updates /\ Verdict(r) = "ok"
    <3>1. PICK a \in {"ok", "lost"} :
            /\ reply' = [reply EXCEPT ![r] = a]
            /\ history' = [history EXCEPT ![pid[r]] = Append(@, r)]
      BY <1>3, <2>2 DEF Served
    <3>2. pid[r] \in Proposals /\ \A p \in Proposals : history[p] \in Seq(Requests \cup {Outsider})
      BY DEF SwapInv, SwapTypes, TypeOK
    <3>3. \A p \in Proposals : history'[p] = << >> => history[p] = << >>
      <4> DEFINE h == history[pid[r]]
      <4>1. history' = [history EXCEPT ![pid[r]] = Append(h, r)] /\ DOMAIN history = Proposals
        BY <3>1 DEF SwapInv, SwapTypes
      <4>2. h \in Seq(Requests \cup {Outsider})
        BY <3>2
      <4> HIDE DEF h
      <4>3. Append(h, r) # << >>
        BY <4>2
      <4> QED BY <3>2, <4>1, <4>3
    <3>4. \A q \in Requests : pc'[q] = "calling" => pc[q] = "calling"
      BY <2>1 DEF SwapInv, SwapTypes, TypeOK
    <3>5. \A q \in Requests : reply'[q] = "missing" => reply[q] = "missing"
      BY <3>1 DEF SwapInv, SwapTypes, TypeOK
    <3> QED BY <2>1, <3>3, <3>4, <3>5, FetchInvKept
  <2>3. CASE ~(kind[r] \in Updates /\ Verdict(r) = "ok")
    <3>1. reply' = [reply EXCEPT ![r] = Verdict(r)] /\ UNCHANGED history
      BY <1>3, <2>3 DEF Served
    <3>2. kind[r] = "fetch" /\ Verdict(r) = "missing" => pid[r] \in gone
      BY <2>1 DEF Verdict, FetchInv
    <3> QED BY <2>1, <3>1, <3>2 DEF FetchInv, SwapInv, SwapTypes, TypeOK
  <2> QED BY <2>2, <2>3
<1>4. ASSUME NEW r \in Requests, CallLost(r)
      PROVE  FetchInv'
  <2>1. /\ pc' = [pc EXCEPT ![r] = "back"] /\ reply' = [reply EXCEPT ![r] = "lost"]
        /\ UNCHANGED <<kind, pid, history, gone>>
    BY <1>4 DEF CallLost, serviceVars
  <2> QED BY <2>1, FetchInvKept DEF SwapInv, SwapTypes, TypeOK
<1>5. ASSUME NEW p \in Proposals, OutsiderWrites(p)
      PROVE  FetchInv'
  <2>1. /\ history' = [history EXCEPT ![p] = Append(@, Outsider)]
        /\ UNCHANGED <<kind, pid, gone, pc, reply>>
    BY <1>5 DEF OutsiderWrites, requestVars
  <2>2. \A q \in Proposals : history[q] \in Seq(Requests \cup {Outsider})
    BY DEF SwapInv, SwapTypes
  <2>3. \A q \in Proposals : history'[q] = << >> => history[q] = << >>
    BY <2>1, <2>2 DEF SwapInv, SwapTypes
  <2> QED BY <2>1, <2>3, FetchInvKept
<1>6. ASSUME NEW p \in Proposals, ServiceDrops(p)
      PROVE  FetchInv'
  BY <1>1, <1>6 DEF ServiceDrops, requestVars
<1>7. ASSUME NEW l \in Slots, LockTimesOut(l)
      PROVE  FetchInv'
  BY <1>1, <1>7 DEF LockTimesOut, requestVars, serviceVars
<1>8. ASSUME NEW w \in Wallets, WalletRestarts(w)
      PROVE  FetchInv'
  BY <1>1, <1>8 DEF WalletRestarts, requestVars, serviceVars
<1>9. CASE UNCHANGED vars
  BY <1>1, <1>9 DEF vars, requestVars, serviceVars
<1> QED BY <1>2, <1>3, <1>4, <1>5, <1>6, <1>7, <1>8, <1>9 DEF Next

(* When a wallet that listened stops listening. *)
Reason(w, p) ==
  \/ \E r \in Requests : kind[r] = "delete" /\ pc[r] = "idle" /\ pc'[r] = "done"
  \/ lockOf'[w] # lockOf[w]
  \/ p \in gone

LEMMA ForgetsForReason ==
  ASSUME SwapInv, FetchInv, [Next]_vars, NEW w \in Wallets, NEW p \in Proposals,
         listened[w][p] # NoPassword, listened'[w][p] = NoPassword
  PROVE  Reason(w, p)
<1>1. listened' # listened
  OBVIOUS
<1>2. listened \in [Wallets -> [Proposals -> Passwords \cup {NoPassword}]]
  BY DEF SwapInv, SwapTypes, TypeOK
<1>3. ASSUME NEW r \in Requests, Handler(r)
      PROVE  Reason(w, p)
  <2>1. CASE Deleted(r)
    BY <2>1 DEF Deleted, Respond, Reason, SwapInv, SwapTypes, TypeOK
  <2>2. CASE CreateOrRegisterEnds(r)
    <3>1. listened' = [listened EXCEPT ![wal[r]][pid[r]] = pw[r]] /\ reply[r] = "ok"
      BY <1>1, <2>2 DEF CreateOrRegisterEnds, Listen
    <3>2. pw[r] # NoPassword /\ wal[r] \in Wallets /\ pid[r] \in Proposals
      BY <3>1 DEF SwapInv, ServiceInv, SwapTypes, TypeOK
    <3> QED BY <1>2, <3>1, <3>2
  <2>3. CASE FetchEnds(r)
    <3>1. /\ kind[r] = "fetch" /\ reply[r] = "missing"
          /\ listened' = [listened EXCEPT ![wal[r]][pid[r]] = NoPassword]
      BY <1>1, <2>3 DEF FetchEnds, Forget, Listen
    <3>2. pid[r] \in gone /\ wal[r] \in Wallets /\ pid[r] \in Proposals
      BY <3>1 DEF FetchInv, SwapInv, SwapTypes, TypeOK
    <3>3. p = pid[r]
      BY <1>2, <3>1, <3>2
    <3> QED BY <3>2, <3>3 DEF Reason
  <2>4. CASE CreateCalls(r) \/ ListedCalls(r) \/ RegisterCalls(r)
    BY <1>1, <2>4 DEF CreateCalls, ListedCalls, RegisterCalls
  <2>5. CASE CallRefused(r) \/ NotRegistered(r) \/ RegisteredBefore(r) \/ LockBusy(r)
    BY <1>1, <2>5, WithoutCall DEF AnswersNow
  <2>6. CASE SectionBegins(r) \/ UpdateEnds(r)
    BY <1>1, <2>6 DEF SectionBegins, UpdateEnds
  <2>7. CASE PushReleases(r) \/ UnlockReleases(r)
    BY <1>1, <2>7, SectionEnding DEF SectionEnds
  <2> QED BY <1>3, <2>1, <2>2, <2>3, <2>4, <2>5, <2>6, <2>7 DEF Handler
<1>4. ASSUME NEW r \in Requests, Served(r) \/ CallLost(r)
      PROVE  Reason(w, p)
  BY <1>1, <1>4 DEF Served, CallLost
<1>5. ASSUME NEW q \in Proposals, OutsiderWrites(q) \/ ServiceDrops(q)
      PROVE  Reason(w, p)
  BY <1>1, <1>5 DEF OutsiderWrites, ServiceDrops
<1>6. ASSUME NEW l \in Slots, LockTimesOut(l)
      PROVE  Reason(w, p)
  BY <1>1, <1>6 DEF LockTimesOut
<1>7. ASSUME NEW v \in Wallets, WalletRestarts(v)
      PROVE  Reason(w, p)
  <2>1. PICK l \in Slots : (\A u \in Wallets : lockOf[u] # l) /\ lockOf' = [lockOf EXCEPT ![v] = l]
    BY <1>7 DEF WalletRestarts
  <2>2. v = w
    BY <1>1, <1>2, <1>7 DEF WalletRestarts
  <2>3. lockOf'[w] # lockOf[w]
    BY <2>1, <2>2 DEF SwapInv, SwapTypes, TypeOK
  <2> QED BY <2>3 DEF Reason
<1>8. CASE UNCHANGED vars
  BY <1>1, <1>8 DEF vars
<1> QED BY <1>3, <1>4, <1>5, <1>6, <1>7, <1>8 DEF Next

(***************************************************************************)
(* A wallet forgets a proposal because it was deleted or dropped, or       *)
(* because the wallet stopped, and for no other failure of a call.         *)
(* (tx-proposal.controller.js:217-222)                                     *)
(***************************************************************************)
THEOREM ProposalsAreForgottenForReason == Spec => ForgottenForReason
<1>1. Init => FetchInv
  BY DEF Init, FetchInv
<1>2. SwapInv /\ FetchInv /\ [Next]_vars => FetchInv'
  BY FetchInvStep
<1>3. SwapInv /\ FetchInv /\ [Next]_vars =>
        [\A w \in Wallets, p \in Proposals :
           Listens(w, p) /\ ~Listens(w, p)' =>
             \/ \E r \in Requests : kind[r] = "delete" /\ pc[r] = "idle" /\ pc'[r] = "done"
             \/ lockOf'[w] # lockOf[w]
             \/ p \in gone]_vars
  BY ForgetsForReason DEF Listens, Reason
<1> QED BY <1>1, <1>2, <1>3, SwapInvHolds, PTL DEF Spec, ForgottenForReason
=============================================================================
