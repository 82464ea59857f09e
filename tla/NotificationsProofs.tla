------------------------- MODULE NotificationsProofs -------------------------
(***************************************************************************)
(* Proofs about Notifications, for any events, plugins and clients.        *)
(***************************************************************************)
EXTENDS Notifications, SequenceTheorems, TLAPS

(* Sequences that grow at the end and shrink at the front.                 *)
LEMMA RangeAppend ==
  ASSUME NEW S, NEW s \in Seq(S), NEW e \in S
  PROVE  Range(Append(s, e)) = Range(s) \cup {e}
<1>1. /\ Append(s, e) \in Seq(S) /\ DOMAIN Append(s, e) = 1..(Len(s) + 1) /\ Len(s) \in Nat
      /\ \A i \in 1..Len(s) : Append(s, e)[i] = s[i]
      /\ Append(s, e)[Len(s) + 1] = e /\ DOMAIN s = 1..Len(s)
  OBVIOUS
<1> QED
  BY <1>1 DEF Range

LEMMA InjectiveAppend ==
  ASSUME NEW S, NEW s \in Seq(S), NEW e \in S, IsInjective(s), e \notin Range(s)
  PROVE  IsInjective(Append(s, e))
<1>1. /\ DOMAIN Append(s, e) = 1..(Len(s) + 1) /\ Len(s) \in Nat
      /\ \A i \in 1..Len(s) : Append(s, e)[i] = s[i] /\ s[i] # e
      /\ Append(s, e)[Len(s) + 1] = e /\ DOMAIN s = 1..Len(s)
  BY DEF Range
<1> QED
  BY <1>1 DEF IsInjective

LEMMA BeforeAppend ==
  ASSUME NEW S, NEW s \in Seq(S), NEW x \in S, NEW e, NEW f
  PROVE  Before(Append(s, x), e, f) <=> Before(s, e, f) \/ (x = f /\ e \in Range(s))
<1>1. /\ DOMAIN Append(s, x) = 1..(Len(s) + 1) /\ Len(s) \in Nat
      /\ \A i \in 1..Len(s) : Append(s, x)[i] = s[i]
      /\ Append(s, x)[Len(s) + 1] = x /\ DOMAIN s = 1..Len(s)
  OBVIOUS
<1>2. ASSUME Before(Append(s, x), e, f) PROVE Before(s, e, f) \/ (x = f /\ e \in Range(s))
  BY <1>1, <1>2 DEF Before, Range
<1>3. ASSUME Before(s, e, f) PROVE Before(Append(s, x), e, f)
  BY <1>1, <1>3 DEF Before
<1>4. ASSUME x = f, e \in Range(s) PROVE Before(Append(s, x), e, f)
  <2>1. PICK i \in 1..Len(s) : s[i] = e
    BY <1>1, <1>4 DEF Range
  <2>2. i < Len(s) + 1 /\ Append(s, x)[i] = e /\ Append(s, x)[Len(s) + 1] = f
    BY <1>1, <1>4, <2>1
  <2> QED
    BY <1>1, <2>1, <2>2 DEF Before
<1> QED
  BY <1>2, <1>3, <1>4

LEMMA SuffixAppend ==
  ASSUME NEW S, NEW s \in Seq(S), NEW e \in S, NEW m \in Nat, m <= Len(s)
  PROVE  SubSeq(Append(s, e), m + 1, Len(s) + 1) = Append(SubSeq(s, m + 1, Len(s)), e)
<1> DEFINE t == Append(s, e)
           u == SubSeq(s, m + 1, Len(s))
<1>1. /\ t \in Seq(S) /\ Len(t) = Len(s) + 1 /\ t[Len(s) + 1] = e
      /\ \A i \in 1..Len(s) : t[i] = s[i]
  OBVIOUS
<1>2. /\ u \in Seq(S) /\ Len(u) = Len(s) - m
      /\ \A i \in 1..Len(u) : u[i] = s[m + i]
  BY SubSeqProperties
<1>3. /\ SubSeq(t, m + 1, Len(s) + 1) \in Seq(S)
      /\ Len(SubSeq(t, m + 1, Len(s) + 1)) = Len(s) + 1 - m
      /\ \A i \in 1..(Len(s) + 1 - m) : SubSeq(t, m + 1, Len(s) + 1)[i] = t[m + i]
  BY <1>1, SubSeqProperties
<1> HIDE DEF t, u
<1>4. /\ Append(u, e) \in Seq(S) /\ Len(Append(u, e)) = Len(s) + 1 - m
      /\ \A i \in 1..(Len(s) - m) : Append(u, e)[i] = u[i]
      /\ Append(u, e)[Len(s) + 1 - m] = e
  BY <1>2
<1>5. \A i \in 1..(Len(s) + 1 - m) : SubSeq(t, m + 1, Len(s) + 1)[i] = Append(u, e)[i]
  <2> SUFFICES ASSUME NEW i \in 1..(Len(s) + 1 - m)
               PROVE  SubSeq(t, m + 1, Len(s) + 1)[i] = Append(u, e)[i]
    OBVIOUS
  <2>1. CASE i = Len(s) + 1 - m
    <3>1. m + i = Len(s) + 1 /\ Len(s) \in Nat
      BY <2>1
    <3>2. t[m + i] = e
      BY <3>1, <1>1
    <3>3. SubSeq(t, m + 1, Len(s) + 1)[i] = e
      BY <3>2, <1>3
    <3>4. Append(u, e)[i] = e
      BY <2>1, <1>4
    <3> QED
      BY <3>3, <3>4
  <2>2. CASE i # Len(s) + 1 - m
    <3>1. m + i \in 1..Len(s) /\ i \in 1..(Len(s) - m)
      BY <2>2
    <3>2. SubSeq(t, m + 1, Len(s) + 1)[i] = s[m + i]
      BY <3>1, <1>1, <1>3
    <3>3. Append(u, e)[i] = s[m + i]
      BY <3>1, <1>2, <1>4
    <3> QED
      BY <3>2, <3>3
  <2> QED
    BY <2>1, <2>2
<1>6. SubSeq(t, m + 1, Len(s) + 1) = Append(u, e)
  BY <1>3, <1>4, <1>5, SeqEqual
<1> QED
  BY <1>6 DEF t, u

LEMMA ConcatAppend ==
  ASSUME NEW S, NEW g \in Seq(S), NEW c \in Seq(S), NEW e \in S
  PROVE  g \o Append(c, e) = Append(g \o c, e)
<1>1. Append(c, e) = c \o <<e>> /\ Append(g \o c, e) = (g \o c) \o <<e>>
  BY AppendIsConcat, ConcatProperties
<1> QED
  BY <1>1, ConcatAssociative

LEMMA ConcatHeadTail ==
  ASSUME NEW S, NEW g \in Seq(S), NEW c \in Seq(S), c # <<>>
  PROVE  Append(g, Head(c)) \o Tail(c) = g \o c
<1>1. Head(c) \in S /\ Tail(c) \in Seq(S) /\ c = <<Head(c)>> \o Tail(c)
  BY HeadTailProperties, ConcatProperties
<1>2. Append(g, Head(c)) = g \o <<Head(c)>>
  BY <1>1, AppendIsConcat
<1> QED
  BY <1>1, <1>2, ConcatAssociative

(* c holds what comes last in s. *)
Ends(c, s) == Len(c) <= Len(s) /\ c = SubSeq(s, Len(s) - Len(c) + 1, Len(s))

LEMMA EndsAppend ==
  ASSUME NEW S, NEW s \in Seq(S), NEW c \in Seq(S), NEW e \in S, Ends(c, s)
  PROVE  Ends(Append(c, e), Append(s, e))
<1> DEFINE m == Len(s) - Len(c)
<1>1. m \in Nat /\ m <= Len(s) /\ c = SubSeq(s, m + 1, Len(s))
  BY DEF Ends
<1>2. /\ Len(Append(c, e)) = Len(c) + 1 /\ Len(Append(s, e)) = Len(s) + 1
      /\ Len(s) + 1 - (Len(c) + 1) + 1 = m + 1
      /\ Len(Append(c, e)) <= Len(Append(s, e))
  BY <1>1
<1>3. SubSeq(Append(s, e), m + 1, Len(s) + 1) = Append(c, e)
  BY <1>1, SuffixAppend
<1>4. SubSeq(Append(s, e), Len(Append(s, e)) - Len(Append(c, e)) + 1, Len(Append(s, e)))
        = Append(c, e)
  BY <1>2, <1>3
<1> QED
  BY <1>2, <1>4 DEF Ends

LEMMA EndsTail ==
  ASSUME NEW S, NEW s \in Seq(S), NEW c \in Seq(S), c # <<>>, Ends(c, s)
  PROVE  Ends(Tail(c), s)
<1> DEFINE m == Len(s) - Len(c)
<1>1. /\ m \in Nat /\ Len(c) \in Nat /\ Len(c) > 0 /\ Len(s) = m + Len(c)
      /\ c = SubSeq(s, m + 1, Len(s))
  BY DEF Ends
<1>2. /\ Tail(c) \in Seq(S) /\ Len(Tail(c)) = Len(c) - 1
      /\ \A i \in 1..(Len(c) - 1) : Tail(c)[i] = c[i + 1]
  BY <1>1, HeadTailProperties
<1>3. \A i \in 1..Len(c) : c[i] = s[m + i]
  BY <1>1, SubSeqProperties
<1>4. /\ SubSeq(s, m + 2, Len(s)) \in Seq(S)
      /\ Len(SubSeq(s, m + 2, Len(s))) = Len(c) - 1
      /\ \A i \in 1..(Len(c) - 1) : SubSeq(s, m + 2, Len(s))[i] = s[m + 1 + i]
  BY <1>1, SubSeqProperties
<1>5. Tail(c) = SubSeq(s, m + 2, Len(s))
  BY <1>1, <1>2, <1>3, <1>4, SeqEqual
<1> QED
  BY <1>1, <1>2, <1>5 DEF Ends
-----------------------------------------------------------------------------
(* The main process publishes what was raised, but for what awaits a balance,
   and states in the order they were raised.                               *)
PublishInv ==
  /\ raised \in Seq(Events) /\ emitted \in Seq(Events)
  /\ IsInjective(raised) /\ IsInjective(emitted)
  /\ computing \subseteq TxEvents \cap Range(raised)
  /\ Range(emitted) = Range(raised) \ computing
  /\ \A e, f \in StateEvents : Before(emitted, e, f) <=> Before(raised, e, f)

(* Every plugin registers once: those before `next` that do not await their
   broker have.                                                            *)
ListenInv ==
  /\ next \in 1..(Len(Enabled) + 1)
  /\ listeners \in Seq(Plugins) /\ connecting \subseteq Plugins \ Range(listeners)
  /\ connecting \cup Range(listeners) = {Enabled[i] : i \in 1..(next - 1)}

HearTypes ==
  /\ channel \in Seq(Events) /\ Len(channel) <= Len(emitted)
  /\ connected \in BOOLEAN /\ killed \in BOOLEAN
  /\ since \in [Plugins -> Nat] /\ got \in [Plugins -> Seq(Events)]
  /\ sockets \subseteq Clients
  /\ inbox \in [Clients -> [from : Nat, events : Seq(Events)]]

(* A plugin that listens has what was published between its registration and
   what the channel still holds.                                           *)
PluginsHeard ==
  /\ \A p \in Range(listeners) :
       /\ since[p] <= Len(emitted)
       /\ got[p] \o channel = SubSeq(emitted, since[p] + 1, Len(emitted))
  /\ \A p \in Plugins \ Range(listeners) : got[p] = <<>>

(* A socket has what its plugin got since the socket opened.               *)
SocketsHeard ==
  \A c \in sockets :
    /\ Ws \in Range(listeners)
    /\ inbox[c].from <= Len(got[Ws])
    /\ inbox[c].events = SubSeq(got[Ws], inbox[c].from + 1, Len(got[Ws]))

(* While both processes are up, the channel holds what was published last. *)
HearInv ==
  /\ HearTypes
  /\ child = "up" /\ connected = TRUE =>
       killed = FALSE /\ Ends(channel, emitted) /\ PluginsHeard /\ SocketsHeard

IInv == PublishInv /\ ListenInv /\ HearInv

USE NotificationsAssumption

LEMMA Initial == Init => IInv
<1> SUFFICES ASSUME Init PROVE IInv
  OBVIOUS
<1> USE DEF Init
<1>1. /\ DOMAIN raised = {} /\ DOMAIN emitted = {} /\ DOMAIN listeners = {}
      /\ raised \in Seq(Events) /\ emitted \in Seq(Events) /\ listeners \in Seq(Plugins)
      /\ channel \in Seq(Events) /\ Len(channel) = 0 /\ Len(emitted) = 0
  OBVIOUS
<1>2. Range(raised) = {} /\ Range(emitted) = {} /\ Range(listeners) = {}
  BY <1>1 DEF Range
<1>3. PublishInv
  BY <1>1, <1>2 DEF PublishInv, IsInjective, Before
<1>4. ListenInv
  <2>1. Len(Enabled) \in Nat /\ {Enabled[i] : i \in 1..(next - 1)} = {}
    BY DEF NotificationsAssumption
  <2> QED
    BY <1>1, <1>2, <2>1 DEF ListenInv
<1>5. HearInv
  <2>1. Ends(channel, emitted)
    BY <1>1 DEF Ends
  <2>2. HearTypes
    BY <1>1, <2>1 DEF HearTypes, Ends
  <2>3. PluginsHeard /\ SocketsHeard
    BY <1>2 DEF PluginsHeard, SocketsHeard
  <2> QED
    BY <2>1, <2>2, <2>3 DEF HearInv
<1> QED
  BY <1>3, <1>4, <1>5 DEF IInv

-----------------------------------------------------------------------------
(* The main process. *)

LEMMA RaisedIsPublished ==
  ASSUME PublishInv, NEW e \in Events, Raise(e)
  PROVE  PublishInv'
<1> USE DEF PublishInv
<1>1. e \notin Range(raised) /\ raised' = Append(raised, e)
  BY DEF Raise, Contains, Range
<1>2. /\ raised' \in Seq(Events) /\ IsInjective(raised)'
      /\ Range(raised)' = Range(raised) \cup {e}
  BY <1>1, RangeAppend, InjectiveAppend
<1>3. \A a, b \in StateEvents :
        Before(raised, a, b)' <=> Before(raised, a, b) \/ (e = b /\ a \in Range(raised))
  BY <1>1, BeforeAppend
<1>4. CASE e \in StateEvents
  <2>1. emitted' = Append(emitted, e) /\ computing' = computing /\ e \notin Range(emitted)
    BY <1>1, <1>4 DEF Raise, Emit
  <2>2. /\ emitted' \in Seq(Events) /\ IsInjective(emitted)'
        /\ Range(emitted)' = Range(emitted) \cup {e}
    BY <2>1, RangeAppend, InjectiveAppend
  <2>3. \A a, b \in StateEvents :
          Before(emitted, a, b)' <=> Before(emitted, a, b) \/ (e = b /\ a \in Range(emitted))
    BY <2>1, BeforeAppend
  <2>4. \A a \in StateEvents : a \in Range(emitted) <=> a \in Range(raised)
    BY DEF NotificationsAssumption
  <2>5. computing' \subseteq TxEvents \cap Range(raised)'
    BY <1>2, <2>1
  <2>6. Range(emitted)' = Range(raised)' \ computing'
    BY <1>1, <1>2, <2>1, <2>2
  <2> QED
    BY <1>2, <1>3, <2>2, <2>3, <2>4, <2>5, <2>6
<1>5. CASE e \notin StateEvents
  <2>1. emitted' = emitted /\ computing' = computing \cup {e} /\ e \in TxEvents
    BY <1>5 DEF Raise, Events
  <2>2. Range(emitted)' = Range(emitted) /\ IsInjective(emitted)'
    BY <2>1
  <2>3. \A a, b \in StateEvents : Before(emitted, a, b)' <=> Before(raised, a, b)'
    BY <1>3, <1>5, <2>1
  <2> QED
    BY <1>1, <1>2, <2>1, <2>2, <2>3
<1> QED
  BY <1>4, <1>5

LEMMA ComputedIsPublished ==
  ASSUME PublishInv, NEW e \in Events, BalanceComputed(e)
  PROVE  PublishInv'
<1> USE DEF PublishInv
<1>1. /\ emitted' = Append(emitted, e) /\ computing' = computing \ {e} /\ raised' = raised
      /\ e \in TxEvents /\ e \in Range(raised) /\ e \notin Range(emitted)
  BY DEF BalanceComputed, Emit
<1>2. /\ emitted' \in Seq(Events) /\ IsInjective(emitted)'
      /\ Range(emitted)' = Range(emitted) \cup {e}
  BY <1>1, RangeAppend, InjectiveAppend
<1>3. \A a, b \in StateEvents : Before(emitted, a, b)' <=> Before(emitted, a, b)
  BY <1>1, BeforeAppend DEF NotificationsAssumption
<1>4. \A a, b \in StateEvents : Before(raised, a, b)' <=> Before(raised, a, b)
  BY <1>1
<1>5. Range(raised)' = Range(raised) /\ IsInjective(raised)'
  BY <1>1
<1> QED
  BY <1>1, <1>2, <1>3, <1>4, <1>5

LEMMA PublishSteady ==
  PublishInv /\ UNCHANGED <<raised, computing, emitted>> => PublishInv'
BY DEF PublishInv

(* Emitting an event keeps what is on its way and what was heard in step.  *)
LEMMA EmitIsHeard ==
  ASSUME PublishInv, ListenInv, HearInv, NEW e \in Events, Emit(e),
         UNCHANGED <<connected, killed, childVars>>
  PROVE  HearInv'
<1>1. /\ emitted \in Seq(Events) /\ channel \in Seq(Events) /\ listeners \in Seq(Plugins)
      /\ since \in [Plugins -> Nat] /\ got \in [Plugins -> Seq(Events)]
  BY DEF PublishInv, ListenInv, HearInv, HearTypes
<1>2. /\ UNCHANGED <<listeners, child, connected, killed, since, got, sockets, inbox>>
      /\ Range(listeners)' = Range(listeners)
  BY DEF childVars
<1>3. emitted' = Append(emitted, e) /\ channel' \in {channel, Append(channel, e)}
  BY DEF Emit
<1>4. HearTypes'
  <2>1. Append(channel, e) \in Seq(Events)
    BY <1>1
  <2>2. /\ Len(channel) <= Len(emitted)
        /\ Len(emitted') = Len(emitted) + 1 /\ Len(Append(channel, e)) = Len(channel) + 1
        /\ Len(channel) \in Nat /\ Len(emitted) \in Nat
    BY <1>1, <1>3 DEF HearInv, HearTypes
  <2>3. channel' \in Seq(Events) /\ Len(channel') <= Len(emitted')
    <3>1. CASE channel' = channel
      BY <1>1, <2>2, <3>1
    <3>2. CASE channel' = Append(channel, e)
      BY <2>1, <2>2, <3>2
    <3> QED
      BY <1>3, <3>1, <3>2
  <2> QED
    BY <1>2, <2>3 DEF HearInv, HearTypes
<1>5. \A g, c \in Seq(Events) : g \o Append(c, e) = Append(g \o c, e)
  BY ConcatAppend
<1>6. ASSUME child = "up", connected = TRUE
      PROVE  killed' = FALSE /\ Ends(channel, emitted)' /\ PluginsHeard' /\ SocketsHeard'
  <2>1. killed = FALSE /\ Ends(channel, emitted) /\ PluginsHeard /\ SocketsHeard
    BY <1>6 DEF HearInv
  <2>2. channel' = Append(channel, e)
    BY <1>6, <2>1 DEF Emit
  <2>3. Ends(channel, emitted)'
    BY <1>1, <1>3, <2>1, <2>2, EndsAppend
  <2>4. Len(emitted') = Len(emitted) + 1
    BY <1>1, <1>3
  <2>5. ASSUME NEW p \in Range(listeners)
        PROVE  /\ since[p] <= Len(emitted')
               /\ got[p] \o channel' = SubSeq(emitted', since[p] + 1, Len(emitted'))
    <3>1. since[p] \in Nat /\ got[p] \in Seq(Events)
      BY <1>1, <2>5 DEF Range
    <3>2. /\ since[p] <= Len(emitted)
          /\ got[p] \o channel = SubSeq(emitted, since[p] + 1, Len(emitted))
      BY <2>1, <2>5 DEF PluginsHeard
    <3>3. SubSeq(Append(emitted, e), since[p] + 1, Len(emitted) + 1)
            = Append(SubSeq(emitted, since[p] + 1, Len(emitted)), e)
      BY <1>1, <3>1, <3>2, SuffixAppend
    <3>4. got[p] \o channel' = SubSeq(emitted', since[p] + 1, Len(emitted'))
      BY <1>1, <1>3, <1>5, <2>2, <2>4, <3>1, <3>2, <3>3
    <3> QED
      BY <1>1, <2>4, <3>1, <3>2, <3>4
  <2>6. PluginsHeard'
    BY <1>2, <2>1, <2>5 DEF PluginsHeard
  <2>7. SocketsHeard'
    BY <1>2, <2>1 DEF SocketsHeard
  <2> QED
    BY <1>2, <2>1, <2>3, <2>6, <2>7
<1> QED
  BY <1>2, <1>4, <1>6 DEF HearInv

(* The end of either process, or of the connection, leaves nothing to show. *)
LEMMA EndIsHeard ==
  ASSUME HearInv, HearTypes', child' = "dead" \/ connected' = FALSE
  PROVE  HearInv'
BY DEF HearInv

LEMMA HearSteady ==
  HearInv /\ UNCHANGED <<emitted, connected, killed, channel, child, listeners, since, got,
                         sockets, inbox>> => HearInv'
<1> SUFFICES ASSUME HearInv, UNCHANGED <<emitted, connected, killed, channel, child, listeners,
                                         since, got, sockets, inbox>>
             PROVE  HearInv'
  OBVIOUS
<1>1. HearTypes'
  BY DEF HearInv, HearTypes
<1>2. child' = child /\ connected' = connected /\ killed' = killed
  OBVIOUS
<1>3. Ends(channel, emitted)' = Ends(channel, emitted)
  BY DEF Ends
<1>4. PluginsHeard' = PluginsHeard /\ SocketsHeard' = SocketsHeard
  BY DEF PluginsHeard, SocketsHeard
<1> QED
  BY <1>1, <1>2, <1>3, <1>4 DEF HearInv

LEMMA ParentKeepsInv ==
  ASSUME IInv,
         \/ \E e \in Events : Raise(e) \/ BalanceComputed(e)
         \/ ParentExits \/ ParentFollows \/ ChildDisconnected
  PROVE  IInv'
<1>1. ListenInv'
  BY DEF IInv, ListenInv, Raise, BalanceComputed, ParentExits, ParentFollows, ChildDisconnected,
     childVars
<1>2. ASSUME NEW e \in Events, Raise(e) PROVE PublishInv' /\ HearInv'
  <2>1. CASE Emit(e)
    BY <1>2, <2>1, RaisedIsPublished, EmitIsHeard DEF IInv, Raise
  <2>2. CASE UNCHANGED <<emitted, channel>>
    BY <1>2, <2>2, RaisedIsPublished, HearSteady DEF IInv, Raise, childVars
  <2> QED
    BY <1>2, <2>1, <2>2 DEF Raise
<1>3. ASSUME NEW e \in Events, BalanceComputed(e) PROVE PublishInv' /\ HearInv'
  BY <1>3, ComputedIsPublished, EmitIsHeard DEF IInv, BalanceComputed
<1>4. CASE ParentExits \/ ParentFollows \/ ChildDisconnected
  <2>1. /\ connected' = FALSE /\ killed' \in {killed, TRUE}
        /\ UNCHANGED <<raised, computing, emitted, channel, childVars>>
    BY <1>4 DEF ParentExits, ParentFollows, ChildDisconnected
  <2>2. HearTypes'
    BY <2>1 DEF IInv, HearInv, HearTypes, childVars
  <2> QED
    BY <1>1, <2>1, <2>2, PublishSteady, EndIsHeard DEF IInv
<1> QED
  BY <1>1, <1>2, <1>3, <1>4 DEF IInv

-----------------------------------------------------------------------------
(* The child process. *)

LEMMA RegisterIsHeard ==
  ASSUME PublishInv, ListenInv, HearInv, NEW p \in Plugins \ Range(listeners), Register(p),
         UNCHANGED <<parentVars, channel, child, got, sockets, inbox>>
  PROVE  HearInv'
<1>1. /\ emitted \in Seq(Events) /\ channel \in Seq(Events) /\ listeners \in Seq(Plugins)
      /\ since \in [Plugins -> Nat] /\ got \in [Plugins -> Seq(Events)]
      /\ Len(channel) <= Len(emitted)
  BY DEF PublishInv, ListenInv, HearInv, HearTypes
<1>2. /\ UNCHANGED <<emitted, channel, child, connected, killed, got, sockets, inbox>>
      /\ since' = [since EXCEPT ![p] = Len(emitted) - Len(channel)]
  BY DEF Register, parentVars
<1>3. Range(listeners)' = Range(listeners) \cup {p}
  BY <1>1, RangeAppend DEF Register
<1>4. Len(emitted) - Len(channel) \in Nat
  BY <1>1
<1>5. HearTypes'
  BY <1>2, <1>4 DEF HearInv, HearTypes
<1>6. ASSUME child = "up", connected = TRUE
      PROVE  killed' = FALSE /\ Ends(channel, emitted)' /\ PluginsHeard' /\ SocketsHeard'
  <2>1. killed = FALSE /\ Ends(channel, emitted) /\ PluginsHeard /\ SocketsHeard
    BY <1>6 DEF HearInv
  <2>2. got[p] = <<>> /\ since'[p] = Len(emitted) - Len(channel)
    BY <1>1, <1>2, <2>1 DEF PluginsHeard
  <2>3. got[p] \o channel = SubSeq(emitted, since'[p] + 1, Len(emitted))
    BY <1>1, <2>1, <2>2, ConcatEmptySeq DEF Ends
  <2>4. \A q \in Plugins \ {p} : since'[q] = since[q]
    BY <1>1, <1>2
  <2>5. Range(listeners) \subseteq Plugins \ {p}
    BY <1>1 DEF Range
  <2>6. since'[p] <= Len(emitted)
    BY <1>1, <2>2
  <2>7. PluginsHeard'
    <3>1. ASSUME NEW q \in Range(listeners)'
          PROVE  /\ since'[q] <= Len(emitted')
                 /\ got'[q] \o channel' = SubSeq(emitted', since'[q] + 1, Len(emitted'))
      <4>1. CASE q = p
        BY <1>2, <2>3, <2>6, <4>1
      <4>2. CASE q # p
        <5>1. q \in Range(listeners) /\ since'[q] = since[q]
          BY <1>3, <2>4, <2>5, <3>1, <4>2
        <5> QED
          BY <1>2, <2>1, <5>1 DEF PluginsHeard
      <4> QED
        BY <4>1, <4>2
    <3>2. \A q \in Plugins \ Range(listeners)' : got'[q] = <<>>
      BY <1>2, <1>3, <2>1 DEF PluginsHeard
    <3> QED
      BY <3>1, <3>2 DEF PluginsHeard
  <2>8. SocketsHeard'
    BY <1>2, <1>3, <2>1 DEF SocketsHeard
  <2>9. Ends(channel, emitted)'
    BY <1>2, <2>1 DEF Ends
  <2> QED
    BY <1>2, <2>1, <2>7, <2>8, <2>9
<1> QED
  BY <1>2, <1>5, <1>6 DEF HearInv

LEMMA ListenRegister ==
  ASSUME ListenInv, NEW p \in Plugins \ Range(listeners), Register(p)
  PROVE  listeners' \in Seq(Plugins) /\ Range(listeners)' = Range(listeners) \cup {p}
BY RangeAppend DEF ListenInv, Register

LEMMA StartKeepsInv ==
  ASSUME IInv, PluginStarts \/ \E p \in Late : BrokerConnected(p)
  PROVE  IInv'
<1>1. PublishInv'
  BY PublishSteady DEF IInv, PluginStarts, BrokerConnected, parentVars
<1>2. CASE PluginStarts
  <2> DEFINE p == Enabled[next]
  <2>1. /\ next \in 1..Len(Enabled) /\ Len(Enabled) \in Nat /\ next' = next + 1
        /\ DOMAIN Enabled = 1..Len(Enabled)
    BY <1>2 DEF PluginStarts, IInv, ListenInv, NotificationsAssumption
  <2>2. p \in Plugins /\ \A i \in 1..(next - 1) : Enabled[i] # p
    BY <2>1 DEF NotificationsAssumption, IsInjective
  <2>3. p \in Plugins \ Range(listeners) /\ p \notin connecting
    BY <2>2 DEF IInv, ListenInv
  <2>4. {Enabled[i] : i \in 1..(next' - 1)} = {Enabled[i] : i \in 1..(next - 1)} \cup {p}
    BY <2>1
  <2>5. UNCHANGED <<parentVars, channel, child, got, sockets, inbox>>
    BY <1>2 DEF PluginStarts
  <2> HIDE DEF p
  <2>6. CASE p \in Late
    <3>1. connecting' = connecting \cup {p} /\ UNCHANGED <<listeners, since>>
      BY <1>2, <2>6 DEF PluginStarts, p
    <3>2. Range(listeners)' = Range(listeners)
      BY <3>1
    <3>3. ListenInv'
      BY <2>1, <2>3, <2>4, <3>1, <3>2 DEF IInv, ListenInv
    <3>4. UNCHANGED <<emitted, connected, killed, channel, child, listeners, since, got, sockets, inbox>>
      BY <2>5, <3>1 DEF parentVars
    <3>5. HearInv'
      BY <3>4, HearSteady DEF IInv
    <3> QED
      BY <1>1, <3>3, <3>5 DEF IInv
  <2>7. CASE p \notin Late
    <3>1. Register(p) /\ connecting' = connecting
      BY <1>2, <2>7 DEF PluginStarts, p
    <3>2. listeners' \in Seq(Plugins) /\ Range(listeners)' = Range(listeners) \cup {p}
      BY <2>3, <3>1, ListenRegister DEF IInv
    <3>3. connecting' \subseteq Plugins \ Range(listeners)'
      BY <2>3, <3>1, <3>2 DEF IInv, ListenInv
    <3>4. connecting' \cup Range(listeners)' = {Enabled[i] : i \in 1..(next' - 1)}
      <4>1. connecting \cup Range(listeners) = {Enabled[i] : i \in 1..(next - 1)}
        BY DEF IInv, ListenInv
      <4> QED
        BY <2>4, <3>1, <3>2, <4>1
    <3>5. ListenInv'
      BY <2>1, <3>2, <3>3, <3>4 DEF ListenInv
    <3>6. HearInv'
      BY <2>3, <2>5, <3>1, RegisterIsHeard DEF IInv
    <3> QED
      BY <1>1, <3>5, <3>6 DEF IInv
  <2> QED
    BY <2>6, <2>7
<1>3. ASSUME NEW p \in Late, BrokerConnected(p) PROVE IInv'
  <2>1. /\ p \in connecting /\ Register(p) /\ connecting' = connecting \ {p}
        /\ UNCHANGED <<parentVars, channel, child, next, got, sockets, inbox>>
    BY <1>3 DEF BrokerConnected
  <2>2. p \in Plugins \ Range(listeners)
    BY <2>1 DEF IInv, ListenInv
  <2>3. listeners' \in Seq(Plugins) /\ Range(listeners)' = Range(listeners) \cup {p}
    BY <2>1, <2>2, ListenRegister DEF IInv
  <2>4. ListenInv'
    BY <2>1, <2>2, <2>3 DEF IInv, ListenInv
  <2>5. HearInv'
    BY <2>1, <2>2, RegisterIsHeard DEF IInv
  <2> QED
    BY <1>1, <2>4, <2>5 DEF IInv
<1> QED
  BY <1>2, <1>3

-----------------------------------------------------------------------------
(* Messages in the child. *)

LEMMA HearIsTyped ==
  ASSUME HearTypes, NEW e \in Events, NEW ps, Hear(ps, e)
  PROVE  /\ got' \in [Plugins -> Seq(Events)]
         /\ inbox' \in [Clients -> [from : Nat, events : Seq(Events)]]
<1>1. \A p \in Plugins : got[p] \in Seq(Events) /\ Append(got[p], e) \in Seq(Events)
  BY DEF HearTypes
<1>2. got' \in [Plugins -> Seq(Events)]
  BY <1>1 DEF Hear
<1>3. ASSUME NEW c \in Clients
      PROVE  [inbox[c] EXCEPT !.events = Append(@, e)] \in [from : Nat, events : Seq(Events)]
  <2>1. inbox[c] \in [from : Nat, events : Seq(Events)]
    BY DEF HearTypes
  <2>2. Append(inbox[c].events, e) \in Seq(Events)
    BY <2>1
  <2> QED
    BY <2>1, <2>2
<1>4. inbox' \in [Clients -> [from : Nat, events : Seq(Events)]]
  BY <1>3 DEF Hear, HearTypes
<1> QED
  BY <1>2, <1>4

(* A message is as good on the plugins' record as in the channel.          *)
LEMMA MessageIsHeard ==
  ASSUME PublishInv, ListenInv, HearInv, HandleMessage
  PROVE  HearInv'
<1> DEFINE e == Head(channel)
<1>1. /\ emitted \in Seq(Events) /\ channel \in Seq(Events) /\ listeners \in Seq(Plugins)
      /\ since \in [Plugins -> Nat] /\ got \in [Plugins -> Seq(Events)]
      /\ inbox \in [Clients -> [from : Nat, events : Seq(Events)]]
      /\ sockets \subseteq Clients /\ Len(channel) <= Len(emitted)
  BY DEF PublishInv, ListenInv, HearInv, HearTypes
<1>2. /\ UNCHANGED <<emitted, child, connected, killed, listeners, since, sockets>>
      /\ channel # <<>> /\ channel' = Tail(channel) /\ Hear(Range(listeners), e)
  BY DEF HandleMessage, parentVars
<1>3. e \in Events /\ Tail(channel) \in Seq(Events) /\ Len(Tail(channel)) = Len(channel) - 1
  BY <1>1, <1>2, HeadTailProperties
<1>4. \A g \in Seq(Events) : Append(g, e) \o Tail(channel) = g \o channel
  BY <1>1, <1>2, ConcatHeadTail
<1> HIDE DEF e
<1>5. \A p \in Plugins :
        got'[p] = IF p \in Range(listeners) THEN Append(got[p], e) ELSE got[p]
  BY <1>2 DEF Hear
<1>6. HearTypes'
  <2>1. /\ got' \in [Plugins -> Seq(Events)]
        /\ inbox' \in [Clients -> [from : Nat, events : Seq(Events)]]
    BY <1>2, <1>3, HearIsTyped DEF HearInv
  <2>2. channel' \in Seq(Events) /\ Len(channel') <= Len(emitted')
    BY <1>1, <1>2, <1>3
  <2> QED
    BY <1>2, <2>1, <2>2 DEF HearInv, HearTypes
<1>7. ASSUME child = "up", connected = TRUE
      PROVE  killed' = FALSE /\ Ends(channel, emitted)' /\ PluginsHeard' /\ SocketsHeard'
  <2>1. killed = FALSE /\ Ends(channel, emitted) /\ PluginsHeard /\ SocketsHeard
    BY <1>7 DEF HearInv
  <2>2. Ends(channel, emitted)'
    BY <1>1, <1>2, <2>1, EndsTail
  <2>3. Range(listeners)' = Range(listeners) /\ Range(listeners) \subseteq Plugins
    BY <1>1, <1>2 DEF Range
  <2>4. ASSUME NEW p \in Range(listeners)
        PROVE  /\ since'[p] <= Len(emitted')
               /\ got'[p] \o channel' = SubSeq(emitted', since'[p] + 1, Len(emitted'))
    <3>1. got'[p] = Append(got[p], e) /\ got[p] \in Seq(Events)
      BY <1>1, <1>5, <2>3
    <3>2. got'[p] \o channel' = got[p] \o channel
      BY <1>2, <1>4, <3>1
    <3> QED
      BY <1>2, <2>1, <3>2 DEF PluginsHeard
  <2>5. PluginsHeard'
    BY <1>5, <2>1, <2>3, <2>4 DEF PluginsHeard
  <2>6. ASSUME NEW c \in sockets
        PROVE  /\ Ws \in Range(listeners)
               /\ inbox'[c].from <= Len(got'[Ws])
               /\ inbox'[c].events = SubSeq(got'[Ws], inbox'[c].from + 1, Len(got'[Ws]))
    <3>1. /\ Ws \in Range(listeners) /\ inbox[c].from <= Len(got[Ws])
          /\ inbox[c].events = SubSeq(got[Ws], inbox[c].from + 1, Len(got[Ws]))
      BY <2>1, <2>6 DEF SocketsHeard
    <3>2. /\ got[Ws] \in Seq(Events) /\ got'[Ws] = Append(got[Ws], e)
          /\ c \in Clients /\ inbox[c] \in [from : Nat, events : Seq(Events)]
      BY <1>1, <1>5, <2>3, <2>6, <3>1
    <3>3. inbox'[c] = [inbox[c] EXCEPT !.events = Append(@, e)]
      BY <1>2, <2>6, <3>1, <3>2 DEF Hear
    <3>4. /\ inbox'[c].from = inbox[c].from /\ inbox[c].from \in Nat
          /\ inbox'[c].events = Append(inbox[c].events, e)
      BY <3>2, <3>3
    <3>5. Len(got'[Ws]) = Len(got[Ws]) + 1 /\ Len(got[Ws]) \in Nat
      BY <1>3, <3>2
    <3>6. SubSeq(Append(got[Ws], e), inbox[c].from + 1, Len(got[Ws]) + 1)
            = Append(SubSeq(got[Ws], inbox[c].from + 1, Len(got[Ws])), e)
      BY <1>3, <3>1, <3>2, <3>4, SuffixAppend
    <3>7. inbox'[c].events = SubSeq(got'[Ws], inbox'[c].from + 1, Len(got'[Ws]))
      BY <3>1, <3>2, <3>4, <3>5, <3>6
    <3>8. inbox'[c].from <= Len(got'[Ws])
      <4>1. inbox'[c].from \in Nat /\ inbox'[c].from <= Len(got[Ws])
        BY <3>1, <3>4
      <4> QED
        BY <4>1, <3>5
    <3> QED
      BY <3>1, <3>7, <3>8
  <2>7. SocketsHeard'
    BY <1>2, <2>3, <2>6 DEF SocketsHeard
  <2> QED
    BY <1>2, <2>1, <2>2, <2>5, <2>7
<1> QED
  BY <1>2, <1>6, <1>7 DEF HearInv

LEMMA ChildKeepsInv ==
  ASSUME IInv, HandleMessage \/ HandlerThrows \/ ChildDies
  PROVE  IInv'
<1>1. PublishInv'
  BY PublishSteady DEF IInv, HandleMessage, HandlerThrows, ChildDies, parentVars
<1>2. ListenInv'
  BY DEF IInv, ListenInv, HandleMessage, HandlerThrows, ChildDies
<1>3. CASE HandleMessage
  BY <1>1, <1>2, <1>3, MessageIsHeard DEF IInv
<1>4. CASE HandlerThrows \/ ChildDies
  <2>1. /\ child' = "dead" /\ channel' = <<>> /\ sockets' = {}
        /\ UNCHANGED <<parentVars, since>>
    BY <1>4 DEF HandlerThrows, ChildDies
  <2>2. /\ got' \in [Plugins -> Seq(Events)]
        /\ inbox' \in [Clients -> [from : Nat, events : Seq(Events)]]
    <3>1. CASE ChildDies
      BY <3>1 DEF IInv, HearInv, HearTypes, ChildDies
    <3>2. CASE HandlerThrows
      <4>1. PICK k \in DOMAIN listeners : Hear(CalledBefore(k), Head(channel))
        BY <3>2 DEF HandlerThrows
      <4>2. Head(channel) \in Events
        BY <3>2, HeadTailProperties DEF HandlerThrows, IInv, HearInv, HearTypes
      <4> QED
        BY <4>1, <4>2, HearIsTyped DEF IInv, HearInv
    <3> QED
      BY <1>4, <3>1, <3>2
  <2>3. channel' \in Seq(Events) /\ Len(channel') <= Len(emitted')
    <3>1. Len(emitted) \in Nat /\ emitted' = emitted /\ Len(channel') = 0
      BY <2>1 DEF IInv, PublishInv, parentVars
    <3> QED
      BY <2>1, <3>1
  <2>4. HearTypes'
    BY <2>1, <2>2, <2>3 DEF IInv, HearInv, HearTypes, parentVars
  <2> QED
    BY <1>1, <1>2, <2>1, <2>4, EndIsHeard DEF IInv
<1> QED
  BY <1>3, <1>4

LEMMA SocketKeepsInv ==
  ASSUME IInv, NEW c \in Clients, SocketOpens(c) \/ SocketCloses(c)
  PROVE  IInv'
<1>1. PublishInv'
  BY PublishSteady DEF IInv, SocketOpens, SocketCloses, parentVars
<1>2. ListenInv'
  BY DEF IInv, ListenInv, SocketOpens, SocketCloses
<1>3. /\ UNCHANGED <<emitted, connected, killed, channel, child, listeners, since, got>>
      /\ sockets' \subseteq sockets \cup {c}
      /\ inbox' \in {inbox, [inbox EXCEPT ![c].from = Len(got[Ws])]}
  BY DEF SocketOpens, SocketCloses, parentVars
<1>4. /\ got[Ws] \in Seq(Events) /\ inbox[c] \in [from : Nat, events : Seq(Events)]
      /\ inbox \in [Clients -> [from : Nat, events : Seq(Events)]] /\ sockets \subseteq Clients
      /\ listeners \in Seq(Plugins)
  BY DEF IInv, ListenInv, HearInv, HearTypes, NotificationsAssumption
<1>5. Len(got[Ws]) \in Nat
  BY <1>4
<1>6. inbox' \in [Clients -> [from : Nat, events : Seq(Events)]]
  BY <1>3, <1>4, <1>5
<1>7. HearTypes'
  BY <1>3, <1>4, <1>6 DEF IInv, HearInv, HearTypes
<1>8. Range(listeners)' = Range(listeners) /\ Ends(channel, emitted)' = Ends(channel, emitted)
  BY <1>3 DEF Ends
<1>9. PluginsHeard' = PluginsHeard
  BY <1>3, <1>8 DEF PluginsHeard
<1>10. ASSUME SocketsHeard PROVE SocketsHeard'
  <2>1. CASE SocketCloses(c)
    BY <1>3, <1>8, <1>10, <2>1 DEF SocketsHeard, SocketCloses
  <2>2. CASE SocketOpens(c)
    <3>1. /\ inbox' = [inbox EXCEPT ![c].from = Len(got[Ws])] /\ sockets' = sockets \cup {c}
          /\ c \notin sockets /\ inbox[c].events = <<>>
      BY <2>2 DEF SocketOpens
    <3>2. Ws \in Range(listeners)
      BY <1>4, <2>2 DEF SocketOpens, Contains, Range
    <3>3. inbox'[c].from = Len(got[Ws]) /\ inbox'[c].events = <<>>
      BY <1>4, <3>1
    <3>4. SubSeq(got[Ws], Len(got[Ws]) + 1, Len(got[Ws])) = <<>>
      BY <1>5, SubSeqEmpty
    <3>5. \A d \in sockets : inbox'[d] = inbox[d]
      BY <1>4, <3>1
    <3>6. ASSUME NEW d \in sockets'
          PROVE  /\ Ws \in Range(listeners)
                 /\ inbox'[d].from <= Len(got[Ws])
                 /\ inbox'[d].events = SubSeq(got[Ws], inbox'[d].from + 1, Len(got[Ws]))
      <4>1. CASE d = c
        <5>1. inbox'[d].from <= Len(got[Ws])
          BY <1>5, <3>3, <4>1
        <5> QED
          BY <3>2, <3>3, <3>4, <4>1, <5>1
      <4>2. CASE d # c
        BY <1>10, <3>1, <3>5, <3>6, <4>2 DEF SocketsHeard
      <4> QED
        BY <4>1, <4>2
    <3> QED
      BY <1>3, <1>8, <3>6 DEF SocketsHeard
  <2> QED
    BY <2>1, <2>2
<1>11. HearInv'
  BY <1>3, <1>7, <1>8, <1>9, <1>10 DEF IInv, HearInv
<1> QED
  BY <1>1, <1>2, <1>11 DEF IInv

LEMMA Inductive == IInv /\ [Next]_vars => IInv'
<1> SUFFICES ASSUME IInv, [Next]_vars PROVE IInv'
  OBVIOUS
<1>1. CASE UNCHANGED vars
  <2>1. PublishInv' /\ HearInv'
    BY <1>1, PublishSteady, HearSteady DEF IInv, vars, parentVars, childVars
  <2>2. ListenInv'
    BY <1>1 DEF IInv, ListenInv, vars, parentVars, childVars
  <2> QED
    BY <2>1, <2>2 DEF IInv
<1>2. CASE \E e \in Events : Raise(e) \/ BalanceComputed(e)
  BY <1>2, ParentKeepsInv
<1>3. CASE ParentExits \/ ParentFollows \/ ChildDisconnected
  BY <1>3, ParentKeepsInv
<1>4. CASE PluginStarts \/ \E p \in Late : BrokerConnected(p)
  BY <1>4, StartKeepsInv
<1>5. CASE HandleMessage \/ HandlerThrows \/ ChildFollows \/ PluginStartFails
           \/ \E p \in Late : BrokerFails(p)
  BY <1>5, ChildKeepsInv DEF ChildFollows, PluginStartFails, BrokerFails
<1>6. CASE \E c \in Clients : SocketOpens(c) \/ SocketCloses(c)
  BY <1>6, SocketKeepsInv
<1> QED
  BY <1>1, <1>2, <1>3, <1>4, <1>5, <1>6 DEF Next, Ended

LEMMA IInvHolds == Spec => []IInv
BY Initial, Inductive, PTL DEF Spec

(***************************************************************************)
(* A plugin that listens, and a websocket client, gets every event         *)
(* published since, once and in the order of publication.                  *)
(* (index.js:69-76, child.js:121-128, hathor_websocket.js:55-70)           *)
(***************************************************************************)
THEOREM EventsAreHeardInOrder == Spec => []HeardOnceInOrder
<1>1. IInv => HeardOnceInOrder
  BY DEF IInv, HearInv, HearTypes, PluginsHeard, SocketsHeard, HeardOnceInOrder
<1> QED
  BY <1>1, IInvHolds, PTL

(***************************************************************************)
(* States are published in the order they were raised and none is held     *)
(* back; nothing is published twice or before it was raised.               *)
(* (notification.service.js:33-98)                                         *)
(***************************************************************************)
THEOREM StatesArePublishedInOrder == Spec => []StatesInOrder
<1>1. IInv => StatesInOrder
  BY DEF IInv, PublishInv, StatesInOrder, NotificationsAssumption
<1> QED
  BY <1>1, IInvHolds, PTL
=============================================================================
