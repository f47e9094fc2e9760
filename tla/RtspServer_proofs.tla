------------------------- MODULE RtspServer_proofs --------------------------
(***************************************************************************)
(* What holds of the RTSP server for every number of clients and entries   *)
(* and every bound.  The invariants follow three owners of an RTP session: *)
(* the client whose list it is in, the entry that points to it, and main,  *)
(* which is adding it or taking it out.  A visit of the schedule thread is *)
(* described by what it may still rely on unless main came to the entry.   *)
(* The players are counted last, once it is known who has which session.   *)
(***************************************************************************)
EXTENDS RtspServer, SequenceTheorems, FiniteSetTheorems, WellFoundedInduction, TLAPS

USE ConnectionAssumption, BoundAssumption

\* What main has in hand.
InHand ==
  /\ pc # "rest" => at \in DOMAIN conns
  /\ pc = "add" => Len(todo) = 1 /\ Now.rtps # <<>>
  /\ pc = "count" => todo # <<>>
  /\ pc = "teardown" => todo = Now.rtps
  /\ pc = "teardownRemove" => todo # <<>> /\ Now.rtps = Tail(todo)
  /\ pc = "abortRemove" => todo # <<>>

\* What a visit of the schedule thread relies on.
Pointed == spc \in {"mark", "send"} => sched[se].rtp # NULL

ServerInv == TypeOK /\ InHand /\ Pointed

Has(c, r) == sess[c].rtps = <<r>>

\* A client has one RTP session at most, and no two have the same.
ListsApart ==
  /\ \A c \in Client : sess[c].rtps = <<>> \/ \E r \in 1 .. nRtp : Has(c, r)
  /\ \A c \in Client : sess[c].rtps # <<>> => sess[c].open /\ \E i \in DOMAIN conns : conns[i] = c
  /\ \A c, d \in Client, r \in RtpId : Has(c, r) /\ Has(d, r) => c = d
  /\ \A e \in Entry : sched[e].rtp <= nRtp

Adds(e) == pc = "add" /\ ent = e

\* An entry in use is that of the session it points to, and a client has that session.
EntriesOwned ==
  \A e \in Entry : sched[e].valid /\ ~ Adds(e) =>
    /\ sched[e].rtp # NULL /\ rtp[sched[e].rtp].entry = e
    /\ Changing(e) \/ (rtp[sched[e].rtp].handle # "dead" /\ \E c \in Client : Has(c, sched[e].rtp))

InUse(r) ==
  rtp[r].entry \in Entry /\ sched[rtp[r].entry].valid /\ sched[rtp[r].entry].rtp = r

\* The session of a client has an entry, unless main is adding or ending it.
ListsScheduled ==
  \A c \in Client, r \in RtpId : Has(c, r) =>
    \/ Ending(c)
    \/ pc = "add" /\ c = Here
    \/ InUse(r) /\ ~ Adds(rtp[r].entry)

\* The session that main adds is the newest, its entry is nobody's.
AddsNewest ==
  pc = "add" =>
    /\ todo = <<nRtp>> /\ Has(Here, nRtp)
    /\ rtp[nRtp].handle # "dead"
    /\ ent \in Entry /\ sched[ent].valid
    /\ \A e \in Entry : sched[e].rtp < nRtp

\* The session that main takes out still has its entry; what is taken out has none.
TakesOut ==
  /\ pc \in {"teardown", "teardownRemove", "abort", "abortRemove"} =>
       todo = <<>> \/ \E r \in RtpId : todo = <<r>> /\ InUse(r)
  /\ pc = "teardownRemove" => \A c \in Client : sess[c].rtps # todo
  /\ pc = "abortRemove" \/ (pc = "abort" /\ todo # <<>>) => todo = Now.rtps
  /\ pc = "abort" /\ todo = <<>> =>
       \A e \in Entry : sched[e].valid => ~ Has(Here, sched[e].rtp)

ListInv ==
  Regular => ListsApart /\ EntriesOwned /\ ListsScheduled /\ AddsNewest /\ TakesOut

\* What the schedule thread found is so still, unless main came to the entry.
VisitInv ==
  /\ spc \in {"look", "mark", "send", "sending"} => sched[se].valid \/ crossed
  /\ spc = "sending" => hnd # NULL /\ (hnd = sched[se].rtp \/ crossed)
  /\ spc = "send" => sched[se].begin \/ crossed

\* BeginFrame is set for the session of the entry, unless main came to it.
BeginInv ==
  /\ \A e \in Entry : sched[e].begin /\ e \notin smudged =>
       /\ sched[e].valid /\ ~ Adds(e)
       /\ \/ Regular => sched[e].rtp \in begun
          \/ spc = "send" /\ se = e /\ frame = "I"

IInv == ServerInv /\ ListInv /\ VisitInv /\ BeginInv
-----------------------------------------------------------------------------
(* Types *)

SessionSet == [open : BOOLEAN, state : {"INIT", "READY", "PLAY"}, rtps : Seq(RtpId)]
RtpSet == [pause : BOOLEAN, started : BOOLEAN, handle : {"none", "live", "dead"},
           entry : Entry \union {NoEntry}]
EntrySet == [valid : BOOLEAN, rtp : RtpId \union {NULL}, begin : BOOLEAN]

\* What a type is needed for below.
LEMMA Types ==
  ASSUME TypeOK
  PROVE  /\ conns \in Seq(Client) /\ Len(conns) <= MAX_CONNECTION
         /\ sess \in [Client -> SessionSet]
         /\ rtp \in [RtpId -> RtpSet]
         /\ sched \in [Entry -> EntrySet]
         /\ \A i \in DOMAIN conns : i \in Nat \ {0} /\ conns[i] \in Client
         /\ nRtp \in Nat /\ irregular \in Nat
BY LenProperties DEF TypeOK, SessionSet, RtpSet, EntrySet

LEMMA MinIsIn ==
  ASSUME NEW S, S \subseteq Nat, S # {}
  PROVE  Min(S) \in S
<1>1. PICK x \in S : \A y \in S : ~ (<<y, x>> \in OpToRel(<, Nat))
  BY WFMin, NatLessThanWellFounded
<1>2. \A y \in S : x <= y
  <2> SUFFICES ASSUME NEW y \in S PROVE x <= y
    OBVIOUS
  <2>1. x \in Nat /\ y \in Nat
    OBVIOUS
  <2>2. ~ (y < x)
    BY <1>1, <2>1 DEF OpToRel
  <2> QED
    BY <2>1, <2>2
<1> QED
  BY <1>2 DEF Min

LEMMA HereIsClient ==
  ASSUME ServerInv, pc # "rest"
  PROVE  Here \in Client /\ Now \in SessionSet /\ at \in DOMAIN conns
<1>1. at \in DOMAIN conns
  BY DEF ServerInv, InHand
<1> QED
  BY <1>1, Types DEF ServerInv, Here, Now

LEMMA HeadInHand ==
  ASSUME ServerInv, todo # <<>>
  PROVE  Head(todo) \in RtpId /\ Tail(todo) \in Seq(RtpId) /\ Len(Tail(todo)) = Len(todo) - 1
BY HeadTailProperties DEF ServerInv, TypeOK

LEMMA ServerInit == Init => ServerInv
<1> SUFFICES ASSUME Init PROVE ServerInv
  OBVIOUS
<1>1. <<>> \in Seq(Client) /\ <<>> \in Seq(RtpId) /\ Len(<<>>) = 0
  BY EmptySeq
<1>2. 0 \in Entry /\ 0 \in 0 .. MaxIrregular /\ 0 \in 0 .. MaxRegular
  BY DEF Entry
<1>3. sess \in [Client -> SessionSet]
  BY <1>1 DEF Init, NoSession, SessionSet
<1>4. rtp \in [RtpId -> RtpSet]
  BY <1>2 DEF Init, RtpSet
<1>5. sched \in [Entry -> EntrySet]
  BY DEF Init, EntrySet
<1>6. TypeOK
  <2>1. conns \in Seq(Client) /\ Len(conns) <= MAX_CONNECTION
    BY <1>1 DEF Init
  <2>2. irregular \in 0 .. MaxIrregular /\ nRtp \in irregular .. irregular + MaxRegular
    BY DEF Init
  <2>3. pool \subseteq Port /\ play \in Int /\ up \in BOOLEAN
    BY DEF Init
  <2>4. pc \in Pcs /\ at \in Nat \ {0} /\ todo \in Seq(RtpId) /\ ent \in Entry \union {NoEntry}
    BY <1>1 DEF Init, Pcs
  <2>5. /\ spc \in {"gate", "test", "look", "mark", "send", "sending"} /\ se \in Entry
        /\ frame \in {"unset", "new", "I", "P"} /\ hnd \in RtpId \union {NULL}
    BY <1>2 DEF Init
  <2>6. unplayed \in BOOLEAN /\ crossed \in BOOLEAN /\ smudged \subseteq Entry
        /\ begun \subseteq RtpId
    BY DEF Init
  <2> QED
    BY <1>3, <1>4, <1>5, <2>1, <2>2, <2>3, <2>4, <2>5, <2>6
    DEF TypeOK, SessionSet, RtpSet, EntrySet
<1> QED
  BY <1>6 DEF Init, ServerInv, InHand, Pointed

\* Requests that set a state and nothing else.
LEMMA ServerState ==
  ASSUME ServerInv, NEW i \in DOMAIN conns, Options(i) \/ SetupMalformed(i) \/ PlayRefused(i)
  PROVE  ServerInv'
<1>1. /\ pc = "rest"
      /\ UNCHANGED <<conns, rtp, nRtp, sched, pool, play, up, main, visit, past, marks>>
      /\ \E state \in {"INIT", "READY", "PLAY"} : sess' = [sess EXCEPT ![conns[i]].state = state]
  BY DEF Options, SetupMalformed, PlayRefused, MaySetup, MayPlay, Reads, SetState
<1>2. conns[i] \in Client /\ sess \in [Client -> SessionSet]
  BY Types DEF ServerInv
<1>3. sess' \in [Client -> SessionSet]
  BY <1>1, <1>2 DEF SessionSet
<1>4. TypeOK'
  BY <1>1, <1>3, SMTT(30) DEF ServerInv, TypeOK, SessionSet, main, visit, past, marks
<1>5. InHand' /\ Pointed'
  BY <1>1 DEF ServerInv, InHand, Pointed, main, visit
<1> QED
  BY <1>4, <1>5 DEF ServerInv

LEMMA ServerAccept ==
  ASSUME ServerInv, NEW c \in Client, Accept(c)
  PROVE  ServerInv'
<1>1. /\ pc = "rest" /\ Len(conns) < MAX_CONNECTION
      /\ UNCHANGED <<rtp, nRtp, sched, pool, play, up, main, visit, past, marks>>
      /\ sess' = [sess EXCEPT ![c] = NewSession] /\ conns' = Append(conns, c)
  BY DEF Accept
<1>2. conns \in Seq(Client) /\ sess \in [Client -> SessionSet]
  BY Types DEF ServerInv
<1>3. conns' \in Seq(Client) /\ Len(conns') <= MAX_CONNECTION
  BY <1>1, <1>2, AppendProperties
<1>4. NewSession \in SessionSet
  BY EmptySeq DEF NewSession, NoSession, SessionSet
<1>5. sess' \in [Client -> SessionSet]
  BY <1>1, <1>2, <1>4
<1>6. TypeOK'
  BY <1>1, <1>3, <1>5 DEF ServerInv, TypeOK, SessionSet, main, visit, past, marks
<1>7. InHand' /\ Pointed'
  BY <1>1 DEF ServerInv, InHand, Pointed, main, visit
<1> QED
  BY <1>6, <1>7 DEF ServerInv

LEMMA CreateTypes ==
  ASSUME TypeOK, NEW c \in Client, NEW handle \in {"none", "live"},
         NEW state \in {"INIT", "READY", "PLAY"}, CreateRtp(c, handle, state),
         nRtp < MaxRegular + MaxIrregular
  PROVE  /\ nRtp' = nRtp + 1 /\ nRtp + 1 \in RtpId
         /\ rtp' \in [RtpId -> RtpSet] /\ sess' \in [Client -> SessionSet]
         /\ sess'[c].rtps = Append(sess[c].rtps, nRtp + 1)
<1>1. nRtp + 1 \in RtpId /\ nRtp' = nRtp + 1
  BY Types DEF CreateRtp, RtpId
<1>2. rtp' \in [RtpId -> RtpSet]
  <2>1. 0 \in Entry
    BY DEF Entry
  <2>2. [pause |-> TRUE, started |-> FALSE, handle |-> handle, entry |-> 0] \in RtpSet
    BY <2>1 DEF RtpSet
  <2> QED
    BY <1>1, <2>2, Types DEF CreateRtp
<1>3. sess[c].rtps \in Seq(RtpId) /\ sess \in [Client -> SessionSet]
  BY Types DEF SessionSet
<1>4. Append(sess[c].rtps, nRtp + 1) \in Seq(RtpId)
  BY <1>1, <1>3, AppendProperties
<1>5. sess' = [sess EXCEPT ![c].rtps = Append(sess[c].rtps, nRtp + 1), ![c].state = state]
  BY DEF CreateRtp
<1>6. sess' \in [Client -> SessionSet] /\ sess'[c].rtps = Append(sess[c].rtps, nRtp + 1)
  BY <1>3, <1>4, <1>5 DEF SessionSet
<1> QED
  BY <1>1, <1>2, <1>6

LEMMA ServerSetupRefused ==
  ASSUME ServerInv, NEW i \in DOMAIN conns, SetupRefused(i)
  PROVE  ServerInv'
<1> DEFINE c == conns[i]
<1>1. /\ pc = "rest" /\ irregular < MaxIrregular /\ irregular' = irregular + 1
      /\ UNCHANGED <<conns, sched, play, up, main, visit, unplayed, marks>>
      /\ pool' \subseteq pool
      /\ \E handle \in {"none", "live"}, state \in {"READY", sess[c].state} :
           CreateRtp(c, handle, state)
  BY DEF SetupRefused, MaySetup, Reads, Irregularly, TakePort, Created
<1>2. c \in Client /\ sess[c].state \in {"INIT", "READY", "PLAY"}
  BY Types DEF ServerInv, SessionSet
<1>3. irregular \in 0 .. MaxIrregular /\ nRtp \in irregular .. irregular + MaxRegular
  BY DEF ServerInv, TypeOK
<1>4. nRtp < MaxRegular + MaxIrregular
  BY <1>1, <1>3
<1>5. nRtp' = nRtp + 1 /\ rtp' \in [RtpId -> RtpSet] /\ sess' \in [Client -> SessionSet]
  BY <1>1, <1>2, <1>4, CreateTypes DEF ServerInv
<1>6. irregular' \in 0 .. MaxIrregular /\ nRtp' \in irregular' .. irregular' + MaxRegular
  BY <1>1, <1>3, <1>5
<1>7. TypeOK'
  BY <1>1, <1>5, <1>6 DEF ServerInv, TypeOK, SessionSet, RtpSet, main, visit, marks
<1>8. InHand' /\ Pointed'
  BY <1>1 DEF ServerInv, InHand, Pointed, main, visit
<1> QED
  BY <1>7, <1>8 DEF ServerInv

LEMMA FreeEntry ==
  ASSUME FreeEntries # {}
  PROVE  Min(FreeEntries) \in Entry /\ ~ sched[Min(FreeEntries)].valid
<1>1. FreeEntries \subseteq Nat
  BY DEF FreeEntries, Entry
<1>2. Min(FreeEntries) \in FreeEntries
  BY <1>1, MinIsIn
<1> QED
  BY <1>2 DEF FreeEntries

LEMMA ServerSetup ==
  ASSUME ServerInv, NEW i \in DOMAIN conns, Setup(i)
  PROVE  ServerInv'
<1> DEFINE c == conns[i]
<1>1. /\ pc = "rest" /\ pc' = "add" /\ at' = i /\ todo' = <<nRtp + 1>>
      /\ UNCHANGED <<conns, play, up, visit, unplayed, marks>>
      /\ pool' \subseteq pool
      /\ \E handle \in {"none", "live"} : CreateRtp(c, handle, sess[c].state)
  BY DEF Setup, MaySetup, Reads, TakePort, Created
<1>2. /\ c \in Client /\ sess[c].state \in {"INIT", "READY", "PLAY"}
      /\ sess[c].rtps \in Seq(RtpId) /\ i \in Nat \ {0}
  BY Types DEF ServerInv, SessionSet
<1>3. irregular \in 0 .. MaxIrregular /\ nRtp \in irregular .. irregular + MaxRegular
  BY DEF ServerInv, TypeOK
<1>4. \/ nRtp - irregular < MaxRegular /\ irregular' = irregular
      \/ irregular < MaxIrregular /\ irregular' = irregular + 1
  BY DEF Setup, Irregularly
<1>5. nRtp < MaxRegular + MaxIrregular
  BY <1>3, <1>4
<1>6. /\ nRtp' = nRtp + 1 /\ rtp' \in [RtpId -> RtpSet] /\ sess' \in [Client -> SessionSet]
      /\ nRtp + 1 \in RtpId /\ sess'[c].rtps = Append(sess[c].rtps, nRtp + 1)
  BY <1>1, <1>2, <1>5, CreateTypes DEF ServerInv
<1>7. irregular' \in 0 .. MaxIrregular /\ nRtp' \in irregular' .. irregular' + MaxRegular
  BY <1>3, <1>4, <1>6
<1>8. ent' \in Entry \union {NoEntry}
  BY FreeEntry DEF Setup
<1>9. /\ sched' \in [Entry -> EntrySet]
      /\ \A e \in Entry : sched'[e].rtp = sched[e].rtp
  BY Types DEF Setup, ServerInv, EntrySet
<1>10. todo' \in Seq(RtpId) /\ Len(todo') = 1
  BY <1>1, <1>6
<1>11. TypeOK'
  BY <1>1, <1>2, <1>6, <1>7, <1>8, <1>9, <1>10
  DEF ServerInv, TypeOK, SessionSet, RtpSet, EntrySet, Pcs, visit, marks
<1>12. Now'.rtps # <<>>
  BY <1>1, <1>2, <1>6, AppendProperties DEF Now, Here
<1>13. InHand' /\ Pointed'
  BY <1>1, <1>9, <1>10, <1>12 DEF ServerInv, InHand, Pointed, TypeOK, visit
<1> QED
  BY <1>11, <1>13 DEF ServerInv

LEMMA ServerScheduleFill ==
  ASSUME ServerInv, ScheduleFill
  PROVE  ServerInv'
<1>1. /\ pc = "add" /\ Rest
      /\ UNCHANGED <<conns, nRtp, pool, play, up, visit, past, smudged, begun>>
      /\ crossed' = (crossed \/ Holds(ent))
  BY DEF ScheduleFill
<1>2. /\ Here \in Client /\ Now.rtps \in Seq(RtpId) /\ Now.rtps # <<>> /\ todo # <<>>
      /\ ent \in Entry \union {NoEntry}
  <2>1. Here \in Client /\ Now.rtps \in Seq(RtpId)
    BY <1>1, HereIsClient DEF SessionSet
  <2>2. Now.rtps # <<>> /\ Len(todo) = 1
    BY <1>1 DEF ServerInv, InHand
  <2>3. todo # <<>>
    BY <2>2
  <2> QED
    BY <2>1, <2>2, <2>3 DEF ServerInv, TypeOK
<1>3. Head(Now.rtps) \in RtpId /\ Head(todo) \in RtpId
  BY <1>2, HeadTailProperties, HeadInHand
<1>4. /\ sched' \in [Entry -> EntrySet]
      /\ \A e \in Entry : sched[e].rtp # NULL => sched'[e].rtp # NULL
  <2>1. sched \in [Entry -> EntrySet]
    BY Types DEF ServerInv
  <2>2. \A e \in Entry : [sched[e] EXCEPT !.rtp = Head(todo)] \in EntrySet
    BY <1>3, <2>1 DEF EntrySet
  <2>3. sched' = [e \in Entry |-> IF e = ent THEN [sched[e] EXCEPT !.rtp = Head(todo)]
                                            ELSE sched[e]]
    BY DEF ScheduleFill
  <2>4. Head(todo) # NULL
    BY <1>3 DEF RtpId, NULL
  <2> QED
    BY <2>1, <2>2, <2>3, <2>4 DEF EntrySet
<1>5. rtp' \in [RtpId -> RtpSet]
  BY <1>2, <1>3, Types DEF ScheduleFill, ServerInv, RtpSet
<1>6. sess' \in [Client -> SessionSet]
  BY <1>2, Types DEF ScheduleFill, SetState, ServerInv, SessionSet
<1>7. TypeOK'
  BY <1>1, <1>4, <1>5, <1>6, EmptySeq
  DEF ServerInv, TypeOK, SessionSet, RtpSet, EntrySet, Pcs, Rest, visit, past, Holds
<1>8. InHand' /\ Pointed'
  BY <1>1, <1>4 DEF ServerInv, InHand, Pointed, TypeOK, Rest, visit
<1> QED
  BY <1>7, <1>8 DEF ServerInv

\* Requests and endings that take several steps begin.
LEMMA ServerBegins ==
  ASSUME ServerInv, NEW i \in DOMAIN conns, Play(i) \/ Teardown(i) \/ Truncated(i)
  PROVE  ServerInv'
<1>1. /\ pc = "rest" /\ pc' \in {"start", "teardown", "abort"}
      /\ at' = i /\ todo' = sess[conns[i]].rtps
      /\ UNCHANGED <<conns, sess, rtp, nRtp, sched, pool, play, up, ent, visit, irregular, marks>>
      /\ unplayed' \in BOOLEAN
  BY DEF Play, MayPlay, Teardown, Truncated, Reads, past, ServerInv, TypeOK
<1>2. conns[i] \in Client /\ sess[conns[i]].rtps \in Seq(RtpId) /\ i \in Nat \ {0}
  BY Types DEF ServerInv, SessionSet
<1>3. TypeOK'
  BY <1>1, <1>2 DEF ServerInv, TypeOK, visit, marks, Pcs
<1>4. InHand' /\ Pointed'
  BY <1>1 DEF ServerInv, InHand, Pointed, Now, Here, visit
<1> QED
  BY <1>3, <1>4 DEF ServerInv

LEMMA ServerPlays ==
  ASSUME ServerInv, ScheduleStart \/ StartCounts \/ StartSkips \/ PlayReplies
  PROVE  ServerInv'
<1>1. CASE ScheduleStart
  <2>1. /\ pc = "start" /\ pc' = "count" /\ todo # <<>>
        /\ UNCHANGED <<conns, sess, nRtp, sched, pool, play, at, todo, ent, visit, past, marks>>
    BY <1>1 DEF ScheduleStart
  <2>2. rtp' \in [RtpId -> RtpSet] /\ up' \in BOOLEAN
    <3>1. rtp \in [RtpId -> RtpSet]
      BY Types DEF ServerInv
    <3>2. \A r \in RtpId : [rtp[r] EXCEPT !.pause = FALSE, !.started = TRUE] \in RtpSet
      BY <3>1 DEF RtpSet
    <3>3. up' \in BOOLEAN
      BY <1>1 DEF ScheduleStart
    <3>4. \/ rtp' = rtp
          \/ \E q : rtp' = [r \in RtpId |-> IF r = q
                            THEN [rtp[r] EXCEPT !.pause = FALSE, !.started = TRUE] ELSE rtp[r]]
      BY <1>1 DEF ScheduleStart
    <3> QED
      BY <3>1, <3>2, <3>3, <3>4
  <2>3. TypeOK'
    BY <2>1, <2>2 DEF ServerInv, TypeOK, RtpSet, visit, past, marks, Pcs
  <2>4. InHand' /\ Pointed'
    BY <2>1 DEF ServerInv, InHand, Pointed, visit
  <2> QED
    BY <2>3, <2>4, SMTT(30) DEF ServerInv
<1>2. CASE StartCounts \/ StartSkips
  <2>1. /\ pc' = "start" /\ todo # <<>> /\ todo' = Tail(todo) /\ play' \in {play, play + 1}
        /\ UNCHANGED <<conns, sess, rtp, nRtp, sched, pool, up, at, ent, visit, past, marks>>
        /\ pc # "rest"
    BY <1>2 DEF StartCounts, StartSkips, ServerInv, InHand
  <2>2. Tail(todo) \in Seq(RtpId)
    BY <2>1, HeadInHand
  <2>3. TypeOK'
    BY <2>1, <2>2 DEF ServerInv, TypeOK, visit, past, marks, Pcs
  <2>4. InHand' /\ Pointed'
    BY <2>1 DEF ServerInv, InHand, Pointed, visit
  <2> QED
    BY <2>3, <2>4 DEF ServerInv
<1>3. CASE PlayReplies
  <2>1. /\ pc = "start" /\ Rest
        /\ UNCHANGED <<conns, rtp, nRtp, sched, pool, play, up, visit, past, marks>>
        /\ sess' = [sess EXCEPT ![Here].state = "PLAY"]
    BY <1>3 DEF PlayReplies, SetState
  <2>2. sess' \in [Client -> SessionSet]
    BY <2>1, HereIsClient, Types DEF ServerInv, SessionSet
  <2>3. TypeOK'
    BY <2>1, <2>2, EmptySeq DEF ServerInv, TypeOK, SessionSet, Rest, visit, past, marks, Pcs
  <2>4. InHand' /\ Pointed'
    BY <2>1 DEF ServerInv, InHand, Pointed, Rest, visit
  <2> QED
    BY <2>3, <2>4 DEF ServerInv
<1> QED
  BY <1>1, <1>2, <1>3

LEMMA ServerDelete ==
  ASSUME ServerInv, Delete
  PROVE  ServerInv'
<1>1. /\ pc \in {"teardown", "abort"} /\ todo # <<>>
      /\ pc' = (IF pc = "teardown" THEN "teardownRemove" ELSE "abortRemove")
      /\ UNCHANGED <<conns, nRtp, sched, pool, play, up, at, todo, ent, visit, past, marks>>
      /\ sess' = (IF pc = "teardown" THEN [sess EXCEPT ![Here].rtps = Tail(Now.rtps)] ELSE sess)
  BY DEF Delete, Now
<1>2. Here \in Client /\ Now \in SessionSet /\ at \in DOMAIN conns
  BY <1>1, HereIsClient
<1>3. pc = "teardown" => todo = Now.rtps
  BY DEF ServerInv, InHand
<1>4. Tail(todo) \in Seq(RtpId) /\ Head(todo) \in RtpId
  BY <1>1, HeadInHand
<1>5. /\ sess' \in [Client -> SessionSet]
      /\ pc = "teardown" => sess'[Here].rtps = Tail(todo)
  BY <1>1, <1>2, <1>3, <1>4, Types DEF ServerInv, SessionSet
<1>6. rtp' \in [RtpId -> RtpSet]
  BY <1>4, Types, ZenonT(60) DEF Delete, ServerInv, RtpSet
<1>7. TypeOK'
  BY <1>1, <1>5, <1>6, SMTT(30)
  DEF ServerInv, TypeOK, SessionSet, RtpSet, visit, past, marks, Pcs
<1>8. InHand' /\ Pointed'
  BY <1>1, <1>2, <1>5 DEF ServerInv, InHand, Pointed, Now, Here, visit
<1> QED
  BY <1>7, <1>8 DEF ServerInv

LEMMA ServerUnschedule ==
  ASSUME ServerInv, Unschedule
  PROVE  ServerInv'
<1>1. /\ pc \in {"teardownRemove", "abortRemove"}
      /\ pc' = (IF pc = "teardownRemove" THEN "teardown" ELSE "abort")
      /\ todo' = Tail(todo) /\ todo # <<>> /\ play' \in {play, play - 1}
      /\ UNCHANGED <<conns, sess, rtp, nRtp, pool, up, at, ent, visit, past>>
      /\ crossed' \in BOOLEAN /\ smudged' \subseteq smudged /\ begun' \subseteq begun
  BY DEF Unschedule, ServerInv, InHand, TypeOK, Holds
<1>2. Tail(todo) \in Seq(RtpId)
  BY <1>1, HeadInHand
<1>3. /\ sched' \in [Entry -> EntrySet]
      /\ \A e \in Entry : sched'[e].rtp = sched[e].rtp
  BY Types DEF Unschedule, FreedEntry, ServerInv, EntrySet
<1>4. TypeOK'
  BY <1>1, <1>2, <1>3 DEF ServerInv, TypeOK, EntrySet, visit, past, Pcs
<1>5. InHand' /\ Pointed'
  BY <1>1, <1>3 DEF ServerInv, InHand, Pointed, Now, Here, TypeOK, visit
<1> QED
  BY <1>4, <1>5 DEF ServerInv

LEMMA ServerEnds ==
  ASSUME ServerInv, TeardownEnds \/ AbortEnds \/ \E i \in DOMAIN conns : Closed(i)
  PROVE  ServerInv'
<1>1. NoSession \in SessionSet
  BY EmptySeq DEF NoSession, SessionSet
<1>2. /\ Rest /\ UNCHANGED <<rtp, nRtp, sched, visit, past, marks>>
      /\ play' \in {play, play - 1} /\ pool' \subseteq Port /\ up' \in BOOLEAN
  BY DEF TeardownEnds, AbortEnds, AbortCounted, Closed, Unlink, RefillPool, ServerInv, TypeOK
<1>3. /\ \E c \in Client : sess' = [sess EXCEPT ![c] = NoSession]
      /\ conns' \in Seq(Client) /\ Len(conns') <= MAX_CONNECTION
  <2>1. CASE TeardownEnds
    BY <2>1, HereIsClient, Types DEF TeardownEnds, ServerInv
  <2>2. CASE AbortEnds \/ \E i \in DOMAIN conns : Closed(i)
    <3>1. PICK i \in DOMAIN conns : Unlink(i)
      BY <2>2, HereIsClient DEF AbortEnds, Closed
    <3>2. conns[i] \in Client /\ i \in 1 .. Len(conns) /\ Len(conns) \in Nat
      BY Types, LenProperties DEF ServerInv
    <3>3. /\ SubSeq(conns, 1, i - 1) \in Seq(Client)
          /\ Len(SubSeq(conns, 1, i - 1)) = i - 1
      BY <3>2, Types DEF ServerInv
    <3>4. /\ SubSeq(conns, i + 1, Len(conns)) \in Seq(Client)
          /\ Len(SubSeq(conns, i + 1, Len(conns))) = Len(conns) - i
      BY <3>2, Types DEF ServerInv
    <3>5. RemoveAt(conns, i) \in Seq(Client) /\ Len(RemoveAt(conns, i)) <= Len(conns)
      BY <3>2, <3>3, <3>4, ConcatProperties DEF RemoveAt
    <3>6. conns' = RemoveAt(conns, i) /\ sess' = [sess EXCEPT ![conns[i]] = NoSession]
      BY <3>1 DEF Unlink
    <3>7. Len(conns) <= MAX_CONNECTION /\ MAX_CONNECTION \in Nat
      BY Types DEF ServerInv
    <3>8. Len(RemoveAt(conns, i)) <= MAX_CONNECTION
      BY <3>2, <3>5, <3>7, LenProperties
    <3> QED
      BY <3>2, <3>5, <3>6, <3>8
  <2> QED
    BY <2>1, <2>2
<1>4. sess' \in [Client -> SessionSet]
  BY <1>1, <1>3, Types DEF ServerInv
<1>5. TypeOK'
  BY <1>2, <1>3, <1>4, EmptySeq DEF ServerInv, TypeOK, SessionSet, Rest, visit, past, marks, Pcs
<1>6. InHand' /\ Pointed'
  BY <1>2 DEF ServerInv, InHand, Pointed, Rest, visit
<1> QED
  BY <1>5, <1>6 DEF ServerInv

LEMMA ServerScheduler ==
  ASSUME ServerInv, Scheduler
  PROVE  ServerInv'
<1>1. UNCHANGED control
  BY DEF Scheduler, Gate, TestValid, LookPause, MarkBegin, Send, SendEnds
<1>2. /\ sched' \in [Entry -> EntrySet]
      /\ \A e \in Entry : sched'[e].rtp = sched[e].rtp
  <2>1. se \in Entry /\ sched \in [Entry -> EntrySet]
    BY Types DEF ServerInv, TypeOK
  <2>2. CASE MarkBegin
    <3>1. \E begin \in BOOLEAN : sched' = [sched EXCEPT ![se].begin = begin]
      BY <2>1, <2>2 DEF MarkBegin, EntrySet
    <3> QED
      BY <2>1, <3>1 DEF EntrySet
  <2>3. CASE ~ MarkBegin
    BY <2>1, <2>3 DEF Scheduler, Gate, TestValid, LookPause, Send, SendEnds
  <2> QED
    BY <2>2, <2>3
<1>3. /\ spc' \in {"gate", "test", "look", "mark", "send", "sending"} /\ se' \in Entry
      /\ crossed' \in BOOLEAN
  <2>1. Leave => spc' \in {"gate", "test"} /\ se' \in Entry /\ crossed' = FALSE
    BY DEF Leave, ServerInv, TypeOK, Entry
  <2>2. \/ Leave
        \/ \E step \in {"look", "mark", "send", "sending"} : Stay(step)
        \/ spc' = "test" /\ UNCHANGED <<se, crossed>>
    BY DEF Scheduler, Gate, TestValid, LookPause, MarkBegin, Send, SendEnds, marks
  <2> QED
    BY <2>1, <2>2 DEF Stay, ServerInv, TypeOK
<1>4. frame' \in {"unset", "new", "I", "P"} /\ up' \in BOOLEAN /\ smudged' \subseteq Entry
  BY DEF ServerInv, TypeOK, Scheduler, Gate, TestValid, LookPause, MarkBegin, Send, SendEnds, marks
<1>5. hnd' \in RtpId \union {NULL} /\ begun' \subseteq RtpId
  BY DEF ServerInv, TypeOK, Pointed, Scheduler, Gate, TestValid, LookPause, MarkBegin, Send,
     SendEnds, marks
<1>6. TypeOK'
  BY <1>1, <1>2, <1>3, <1>4, <1>5 DEF ServerInv, TypeOK, EntrySet, control, main, past
<1>7. InHand'
  BY <1>1 DEF ServerInv, InHand, Now, Here, control, main
<1>8. Pointed'
  <2>1. se \in Entry
    BY DEF ServerInv, TypeOK
  <2> QED
    BY <1>2, <2>1 DEF ServerInv, Pointed, Stay, Leave, Scheduler, Gate, TestValid, LookPause,
       MarkBegin, Send, SendEnds
<1> QED
  BY <1>6, <1>7, <1>8 DEF ServerInv

LEMMA ServerStep ==
  ASSUME ServerInv, [Next]_vars
  PROVE  ServerInv'
<1>1. CASE UNCHANGED vars
  BY <1>1 DEF ServerInv, TypeOK, InHand, Pointed, Now, Here, vars, control, main, visit, marks, past
<1>2. CASE \E c \in Client : Accept(c)
  BY <1>2, ServerAccept
<1>3. CASE \E i \in DOMAIN conns : Request(i)
  BY <1>3, ServerState, ServerSetupRefused, ServerSetup, ServerBegins, ServerEnds DEF Request
<1>4. CASE \/ ScheduleFill \/ ScheduleStart \/ StartCounts \/ StartSkips \/ PlayReplies
           \/ Delete \/ Unschedule \/ TeardownEnds \/ AbortEnds
  BY <1>4, ServerScheduleFill, ServerPlays, ServerDelete, ServerUnschedule, ServerEnds
<1>5. CASE Scheduler
  BY <1>5, ServerScheduler
<1> QED
  BY <1>1, <1>2, <1>3, <1>4, <1>5 DEF Next, Main

(* Every variable keeps its type, for every number of clients, entries and requests: the
   entries and ports that the threads work with are among those there are, even where an
   entry is used that its session does not own. *)
THEOREM RtspServerTypeOK == Spec => []TypeOK
<1>1. ServerInv => TypeOK
  BY DEF ServerInv
<1> QED
  BY <1>1, ServerInit, ServerStep, PTL DEF Spec
-----------------------------------------------------------------------------
(* The lists of the clients and the schedule list *)

LEMMA RegularBefore ==
  ASSUME ServerInv, [Next]_vars, Regular'
  PROVE  Regular /\ irregular' = irregular
<1>1. irregular' \in {irregular, irregular + 1}
  BY DEF Next, Main, Request, Scheduler, Accept, Options, SetupMalformed, SetupRefused, Setup,
     ScheduleFill, PlayRefused, Play, ScheduleStart, StartCounts, StartSkips, PlayReplies,
     Teardown, Truncated, Delete, Unschedule, TeardownEnds, AbortEnds, Closed, Unlink,
     Irregularly, Gate, TestValid, LookPause, MarkBegin, Send, SendEnds, control, past, vars
<1> QED
  BY <1>1, Types, SMTT(30) DEF Regular, ServerInv

LEMMA ListTypes ==
  ASSUME ServerInv
  PROVE  /\ \A e \in Entry : sched[e].rtp # NULL => sched[e].rtp \in RtpId
         /\ 1 .. nRtp \subseteq RtpId
         /\ \A r \in RtpId : r # NULL /\ r \in Nat
         /\ nRtp \in Nat
<1>1. irregular \in 0 .. MaxIrregular /\ nRtp \in irregular .. irregular + MaxRegular
  BY DEF ServerInv, TypeOK
<1>2. 1 .. nRtp \subseteq RtpId /\ nRtp \in Nat
  BY <1>1 DEF RtpId
<1>3. \A e \in Entry : sched[e].rtp \in RtpId \union {NULL}
  BY Types DEF ServerInv, EntrySet
<1> QED
  BY <1>2, <1>3 DEF RtpId, NULL

Quiet == {"rest", "start", "count"}

\* What the lists hold stays: main is at rest or starts a session, or is not what moves.
LEMMA ListKept ==
  ASSUME ServerInv, ListInv, Regular' => Regular, nRtp' = nRtp,
         \A c \in Client : sess'[c].rtps = sess[c].rtps /\ (sess[c].open => sess'[c].open),
         \A e \in Entry : sched'[e].valid = sched[e].valid /\ sched'[e].rtp = sched[e].rtp,
         \A r \in RtpId : rtp'[r].entry = rtp[r].entry /\ rtp'[r].handle = rtp[r].handle,
         \/ UNCHANGED <<conns, pc, at, todo, ent>>
         \/ /\ pc \in Quiet /\ pc' \in Quiet
            /\ \A i \in DOMAIN conns : \E j \in DOMAIN conns' : conns'[j] = conns[i]
  PROVE  ListInv'
<1> SUFFICES ASSUME Regular'
             PROVE  (ListsApart /\ EntriesOwned /\ ListsScheduled /\ AddsNewest /\ TakesOut)'
  BY DEF ListInv
<1>1. ListsApart /\ EntriesOwned /\ ListsScheduled /\ AddsNewest /\ TakesOut
  BY DEF ListInv
<1>2. ListsApart'
  BY <1>1 DEF ListsApart, Has
<1>3. CASE pc \in Quiet /\ pc' \in Quiet
  <2>1. EntriesOwned'
    <3> SUFFICES ASSUME NEW e \in Entry, sched'[e].valid
                 PROVE  /\ sched'[e].rtp # NULL /\ rtp'[sched'[e].rtp].entry = e
                        /\ rtp'[sched'[e].rtp].handle # "dead"
                        /\ \E d \in Client : sess'[d].rtps = <<sched'[e].rtp>>
      BY DEF EntriesOwned, Has
    <3>1. /\ sched[e].rtp # NULL /\ rtp[sched[e].rtp].entry = e
          /\ rtp[sched[e].rtp].handle # "dead"
          /\ \E d \in Client : sess[d].rtps = <<sched[e].rtp>>
      BY <1>1, <1>3 DEF EntriesOwned, Quiet, Adds, Changing, Has
    <3>2. sched[e].rtp \in RtpId /\ sched'[e].rtp = sched[e].rtp
      BY <3>1, ListTypes
    <3> QED
      BY <3>1, <3>2
  <2>2. ListsScheduled'
    BY <1>1, <1>3 DEF ListsScheduled, Quiet, Adds, Ending, Has, InUse
  <2> QED
    BY <1>2, <1>3, <2>1, <2>2 DEF Quiet, AddsNewest, TakesOut
<1>4. CASE UNCHANGED <<conns, pc, at, todo, ent>>
  <2>1. Here' = Here
    BY <1>4 DEF Here
  <2>2. pc \in {"teardownRemove", "abortRemove"} => Head(todo) \in RtpId
    BY HeadInHand DEF ServerInv, InHand
  <2>3. \A e \in Entry : Changing(e)' <=> Changing(e)
    BY <1>4, <2>2 DEF Changing
  <2>4. EntriesOwned'
    <3> SUFFICES ASSUME NEW e \in Entry, sched'[e].valid, ~ Adds(e)'
                 PROVE  /\ sched'[e].rtp # NULL /\ rtp'[sched'[e].rtp].entry = e
                        /\ \/ Changing(e)'
                           \/ /\ rtp'[sched'[e].rtp].handle # "dead"
                              /\ \E d \in Client : sess'[d].rtps = <<sched'[e].rtp>>
      BY DEF EntriesOwned, Has
    <3>1. /\ sched[e].rtp # NULL /\ rtp[sched[e].rtp].entry = e
          /\ \/ Changing(e)
             \/ /\ rtp[sched[e].rtp].handle # "dead"
                /\ \E d \in Client : sess[d].rtps = <<sched[e].rtp>>
      BY <1>1, <1>4 DEF EntriesOwned, Adds, Has
    <3>2. sched[e].rtp \in RtpId /\ sched'[e].rtp = sched[e].rtp
      BY <3>1, ListTypes
    <3> QED
      BY <2>3, <3>1, <3>2
  <2>5. ListsScheduled'
    BY <1>1, <1>4, <2>1 DEF ListsScheduled, Adds, Ending, Has, InUse
  <2>6. pc = "add" => nRtp \in RtpId /\ Here \in Client
    BY HereIsClient, HeadInHand, <1>1 DEF AddsNewest, ServerInv, InHand
  <2>7. AddsNewest'
    BY <1>1, <1>4, <2>1, <2>6 DEF AddsNewest, Has
  <2>8. pc # "rest" => Here \in Client
    BY HereIsClient
  <2>9. TakesOut'
    BY <1>1, <1>4, <2>1, <2>8 DEF TakesOut, Has, InUse, Now
  <2> QED
    BY <1>2, <2>4, <2>5, <2>7, <2>9
<1> QED
  BY <1>3, <1>4

LEMMA ListAccept ==
  ASSUME ServerInv, ListInv, Regular' => Regular, NEW c \in Client, Accept(c)
  PROVE  ListInv'
<1>1. SUFFICES ASSUME Regular' PROVE ListInv'
  BY DEF ListInv
<1>2. conns \in Seq(Client) /\ sess \in [Client -> SessionSet]
  BY Types DEF ServerInv
<1>3. sess[c].rtps = <<>>
  BY <1>1 DEF Accept, ListInv, ListsApart
<1>4. sess' = [sess EXCEPT ![c] = NewSession] /\ conns' = Append(conns, c) /\ pc = "rest"
  BY DEF Accept
<1>5. \A d \in Client : sess'[d].rtps = sess[d].rtps /\ (sess[d].open => sess'[d].open)
  BY <1>2, <1>3, <1>4 DEF NewSession, NoSession
<1>6. \A i \in DOMAIN conns : i \in DOMAIN conns' /\ conns'[i] = conns[i]
  BY <1>2, <1>4, AppendProperties, LenProperties
<1> QED
  BY <1>4, <1>5, <1>6, ListKept DEF Accept, main, Quiet

LEMMA ListState ==
  ASSUME ServerInv, ListInv, Regular' => Regular, NEW i \in DOMAIN conns,
         Options(i) \/ SetupMalformed(i) \/ PlayRefused(i)
  PROVE  ListInv'
<1>1. /\ pc = "rest"
      /\ UNCHANGED <<conns, rtp, nRtp, sched, pool, play, up, main, visit, past, marks>>
      /\ \E state \in {"INIT", "READY", "PLAY"} : sess' = [sess EXCEPT ![conns[i]].state = state]
  BY DEF Options, SetupMalformed, PlayRefused, MaySetup, MayPlay, Reads, SetState
<1>2. \A d \in Client : sess'[d].rtps = sess[d].rtps /\ (sess[d].open => sess'[d].open)
  BY <1>1, Types, SMTT(30) DEF ServerInv, SessionSet
<1> QED
  BY <1>1, <1>2, ListKept DEF main

\* PLAY looks at the list, and sets what no owner depends on.
LEMMA ListPlay ==
  ASSUME ServerInv, ListInv, Regular' => Regular,
         \/ \E i \in DOMAIN conns : Play(i)
         \/ ScheduleStart \/ StartCounts \/ StartSkips \/ PlayReplies
  PROVE  ListInv'
<1>1. /\ UNCHANGED <<conns, nRtp, sched>> /\ pc \in Quiet /\ pc' \in Quiet
  BY DEF Play, MayPlay, Reads, ScheduleStart, StartCounts, StartSkips, PlayReplies, Rest, Quiet
<1>2. rtp \in [RtpId -> RtpSet] /\ sess \in [Client -> SessionSet]
  BY Types DEF ServerInv
<1>3. \A r \in RtpId : rtp'[r].entry = rtp[r].entry /\ rtp'[r].handle = rtp[r].handle
  <2>1. \/ rtp' = rtp
        \/ \E q : rtp' = [r \in RtpId |-> IF r = q
                          THEN [rtp[r] EXCEPT !.pause = FALSE, !.started = TRUE] ELSE rtp[r]]
    BY ZenonT(60) DEF Play, ScheduleStart, StartCounts, StartSkips, PlayReplies
  <2> QED
    BY <1>2, <2>1, ZenonT(60) DEF RtpSet
<1>4. \A d \in Client : sess'[d].rtps = sess[d].rtps /\ (sess[d].open => sess'[d].open)
  <2>1. CASE PlayReplies
    <3>1. sess' = [sess EXCEPT ![Here].state = "PLAY"] /\ Here \in Client
      BY <2>1, HereIsClient DEF PlayReplies, SetState
    <3> QED
      BY <1>2, <3>1 DEF SessionSet
  <2>2. CASE ~ PlayReplies
    BY <2>2 DEF Play, ScheduleStart, StartCounts, StartSkips
  <2> QED
    BY <2>1, <2>2
<1> QED
  BY <1>1, <1>3, <1>4, ListKept

LEMMA ListScheduler ==
  ASSUME ServerInv, ListInv, Regular' => Regular, Scheduler
  PROVE  ListInv'
<1>1. UNCHANGED control
  BY DEF Scheduler, Gate, TestValid, LookPause, MarkBegin, Send, SendEnds
<1>2. \A e \in Entry : sched'[e].valid = sched[e].valid /\ sched'[e].rtp = sched[e].rtp
  <2>1. se \in Entry /\ sched \in [Entry -> EntrySet]
    BY Types DEF ServerInv, TypeOK
  <2>2. CASE MarkBegin
    <3>1. \E begin \in BOOLEAN : sched' = [sched EXCEPT ![se].begin = begin]
      BY <2>1, <2>2 DEF MarkBegin, EntrySet
    <3> QED
      BY <2>1, <3>1 DEF EntrySet
  <2>3. CASE ~ MarkBegin
    BY <2>3 DEF Scheduler, Gate, TestValid, LookPause, Send, SendEnds
  <2> QED
    BY <2>2, <2>3
<1> QED
  BY <1>1, <1>2, ListKept DEF control, main

\* The positions of a list but one.
LEMMA AllButOne ==
  ASSUME NEW n \in Nat, NEW i \in 1 .. n
  PROVE  IsFiniteSet((1 .. n) \ {i}) /\ Cardinality((1 .. n) \ {i}) = n - 1
<1>1. 1 \in Int /\ n \in Int /\ (1 > n => n = 0) /\ n - 1 + 1 = n
  OBVIOUS
<1>2. IsFiniteSet(1 .. n) /\ Cardinality(1 .. n) = n
  BY <1>1, FS_Interval
<1> DEFINE S == 1 .. n
<1>3. IsFiniteSet(S) /\ Cardinality(S) = n /\ i \in S
  BY <1>2
<1> HIDE DEF S
<1>4. IsFiniteSet(S \ {i}) /\ Cardinality(S \ {i}) = n - 1
  BY <1>3, FS_RemoveElement
<1> QED
  BY <1>4 DEF S

\* A client whose list is empty finds an entry: of the others no two have the same.
LEMMA EntryLeft ==
  ASSUME ServerInv, ListInv, Regular, pc = "rest",
         NEW i \in DOMAIN conns, sess[conns[i]].rtps = <<>>
  PROVE  FreeEntries # {}
<1> SUFFICES ASSUME FreeEntries = {} PROVE FALSE
  OBVIOUS
<1> DEFINE T == (1 .. Len(conns)) \ {i}
           f == [e \in Entry |-> CHOOSE j \in T : Has(conns[j], sched[e].rtp)]
<1>1. conns \in Seq(Client) /\ Len(conns) <= MAX_CONNECTION /\ DOMAIN conns = 1 .. Len(conns)
      /\ Len(conns) \in Nat
  BY Types, LenProperties DEF ServerInv
<1>2. \A e \in Entry : /\ sched[e].rtp # NULL /\ rtp[sched[e].rtp].entry = e
                       /\ \E c \in Client : Has(c, sched[e].rtp)
  BY DEF FreeEntries, ListInv, EntriesOwned, Adds, Changing
<1>3. \A e \in Entry : \E j \in T : Has(conns[j], sched[e].rtp)
  <2> SUFFICES ASSUME NEW e \in Entry PROVE \E j \in T : Has(conns[j], sched[e].rtp)
    OBVIOUS
  <2>1. PICK c \in Client : Has(c, sched[e].rtp)
    BY <1>2
  <2>2. sess[c].rtps # <<>>
    BY <2>1 DEF Has
  <2>3. PICK j \in DOMAIN conns : conns[j] = c
    BY <2>2 DEF ListInv, ListsApart
  <2> QED
    BY <1>1, <2>1, <2>2, <2>3
<1>4. f \in [Entry -> T]
  BY <1>3
<1>5. \A e \in Entry : Has(conns[f[e]], sched[e].rtp)
  BY <1>3
<1>6. IsFiniteSet(Entry) /\ Cardinality(Entry) = MAX_CONNECTION
  BY FS_Interval DEF Entry
<1>7. IsFiniteSet(T) /\ Cardinality(T) = Len(conns) - 1
  BY <1>1, AllButOne
<1>8. Cardinality(T) < Cardinality(Entry)
  BY <1>1, <1>6, <1>7
<1> HIDE DEF f, T
<1>9. PICK x, y \in Entry : x # y /\ f[x] = f[y]
  BY <1>4, <1>6, <1>7, <1>8, FS_PigeonHole
<1>10. sched[x].rtp = sched[y].rtp
  BY <1>5, <1>9 DEF Has
<1> QED
  BY <1>2, <1>9, <1>10

LEMMA ListSetup ==
  ASSUME ServerInv, ListInv, Regular' => Regular /\ irregular' = irregular,
         NEW i \in DOMAIN conns, Setup(i)
  PROVE  ListInv'
<1> SUFFICES ASSUME Regular'
             PROVE  (ListsApart /\ EntriesOwned /\ ListsScheduled /\ AddsNewest /\ TakesOut)'
  BY DEF ListInv
<1> DEFINE c == conns[i]
           n == nRtp + 1
<1>1. ListsApart /\ EntriesOwned /\ ListsScheduled
  BY DEF ListInv
<1>2. /\ pc = "rest" /\ pc' = "add" /\ at' = i /\ todo' = <<n>> /\ conns' = conns
      /\ sess[c].open
      /\ \E handle \in {"none", "live"} : CreateRtp(c, handle, sess[c].state)
  BY DEF Setup, MaySetup, Reads, TakePort, Created
<1>3. sess[c].rtps = <<>> /\ nRtp - irregular < MaxRegular
  <2>1. ~ Irregularly
    BY Types DEF Irregularly, ServerInv
  <2> QED
    BY <2>1 DEF Setup
<1>4. c \in Client /\ sess[c].state \in {"INIT", "READY", "PLAY"} /\ nRtp \in Nat
      /\ sess \in [Client -> SessionSet] /\ rtp \in [RtpId -> RtpSet]
  BY Types DEF ServerInv, SessionSet
<1>5. nRtp < MaxRegular + MaxIrregular
  <2>1. irregular \in 0 .. MaxIrregular
    BY DEF ServerInv, TypeOK
  <2> QED
    BY <1>3, <1>4, <2>1
<1>6. n \in RtpId /\ nRtp' = n /\ sess'[c].rtps = <<n>>
  <2>1. n \in RtpId /\ nRtp' = n /\ sess'[c].rtps = Append(<<>>, n)
    BY <1>2, <1>3, <1>4, <1>5, CreateTypes DEF ServerInv
  <2> QED
    BY <2>1
<1>7. /\ \A d \in Client \ {c} : sess'[d] = sess[d]
      /\ sess'[c].open = sess[c].open
  <2>1. PICK rtps, state : sess' = [sess EXCEPT ![c].rtps = rtps, ![c].state = state]
    BY <1>2 DEF CreateRtp
  <2> QED
    BY <1>4, <2>1 DEF SessionSet
<1>8. /\ \A r \in RtpId : r # n => rtp'[r] = rtp[r]
      /\ rtp'[n].handle # "dead"
  BY <1>2, <1>4, <1>6 DEF CreateRtp
<1>9. Here' = c
  BY <1>2 DEF Here
<1>10. ent' \in Entry /\ ~ sched[ent'].valid
  BY <1>2, <1>3, EntryLeft, FreeEntry DEF Setup
<1>11. \A e \in Entry : /\ sched'[e].rtp = sched[e].rtp
                        /\ sched'[e].valid = (sched[e].valid \/ e = ent')
  BY Types DEF Setup, ServerInv, EntrySet
<1>12. ListsApart'
  <2>1. \A d \in Client : d # c => \A r \in RtpId : Has(d, r) => r # n
    BY <1>1, <1>4 DEF ListsApart, Has
  <2>2. \A d \in Client : sess'[d].rtps = <<>> \/ \E r \in 1 .. nRtp' : sess'[d].rtps = <<r>>
    <3> SUFFICES ASSUME NEW d \in Client
                 PROVE  sess'[d].rtps = <<>> \/ \E r \in 1 .. nRtp' : sess'[d].rtps = <<r>>
      OBVIOUS
    <3>1. CASE d = c
      BY <1>4, <1>6, <3>1
    <3>2. CASE d # c
      BY <1>1, <1>4, <1>6, <1>7, <3>2 DEF ListsApart, Has
    <3> QED
      BY <3>1, <3>2
  <2>3. \A d \in Client : sess'[d].rtps # <<>> =>
          sess'[d].open /\ \E j \in DOMAIN conns : conns[j] = d
    BY <1>1, <1>2, <1>7 DEF ListsApart
  <2>4. \A d1, d2 \in Client, r \in RtpId :
          sess'[d1].rtps = <<r>> /\ sess'[d2].rtps = <<r>> => d1 = d2
    BY <1>1, <1>6, <1>7, <2>1 DEF ListsApart, Has
  <2>5. \A e \in Entry : sched'[e].rtp <= nRtp'
    BY <1>1, <1>4, <1>6, <1>11, Types DEF ListsApart, ServerInv, EntrySet, NULL, RtpId
  <2> QED
    BY <1>2, <2>2, <2>3, <2>4, <2>5 DEF ListsApart, Has
<1>13. \A e \in Entry : sched[e].rtp < n
  BY <1>1, <1>4, Types DEF ListsApart, ServerInv, EntrySet, NULL, RtpId
<1>14. EntriesOwned'
  <2> SUFFICES ASSUME NEW e \in Entry, sched[e].valid, e # ent'
               PROVE  /\ sched[e].rtp # NULL /\ rtp'[sched[e].rtp].entry = e
                      /\ rtp'[sched[e].rtp].handle # "dead"
                      /\ \E d \in Client : sess'[d].rtps = <<sched[e].rtp>>
    <3> SUFFICES ASSUME NEW e \in Entry, sched'[e].valid, e # ent'
                 PROVE  /\ sched'[e].rtp # NULL /\ rtp'[sched'[e].rtp].entry = e
                        /\ rtp'[sched'[e].rtp].handle # "dead"
                        /\ \E d \in Client : sess'[d].rtps = <<sched'[e].rtp>>
      BY <1>2 DEF EntriesOwned, Adds, Has
    <3>1. sched'[e].rtp = sched[e].rtp /\ sched[e].valid
      BY <1>11
    <3> QED
      BY <3>1
  <2>1. /\ sched[e].rtp # NULL /\ rtp[sched[e].rtp].entry = e
        /\ rtp[sched[e].rtp].handle # "dead"
        /\ \E d \in Client : sess[d].rtps = <<sched[e].rtp>>
    BY <1>1, <1>2 DEF EntriesOwned, Adds, Changing, Has
  <2>2. rtp'[sched[e].rtp] = rtp[sched[e].rtp]
    BY <1>8, <1>13, <1>4, <2>1, ListTypes
  <2> QED
    BY <1>3, <1>7, <2>1, <2>2
<1>15. ListsScheduled'
  <2> SUFFICES ASSUME NEW d \in Client, NEW r \in RtpId, d # c, sess[d].rtps = <<r>>
               PROVE  (InUse(r) /\ ~ Adds(rtp[r].entry))'
    BY <1>2, <1>7, <1>9 DEF ListsScheduled, Has
  <2>1. InUse(r)
    BY <1>1, <1>2 DEF ListsScheduled, Ending, Has
  <2>2. r # n
    <3>1. sched[rtp[r].entry].rtp < n /\ sched[rtp[r].entry].rtp = r
      BY <1>13, <2>1 DEF InUse
    <3> QED
      BY <1>4, <3>1
  <2> QED
    BY <1>8, <1>10, <1>11, <2>1, <2>2 DEF InUse, Adds
<1>16. AddsNewest'
  BY <1>2, <1>6, <1>8, <1>9, <1>10, <1>11, <1>13 DEF AddsNewest, Has
<1> QED
  BY <1>2, <1>12, <1>14, <1>15, <1>16 DEF TakesOut

LEMMA ListScheduleFill ==
  ASSUME ServerInv, ListInv, Regular' => Regular, ScheduleFill
  PROVE  ListInv'
<1> SUFFICES ASSUME Regular'
             PROVE  (ListsApart /\ EntriesOwned /\ ListsScheduled /\ AddsNewest /\ TakesOut)'
  BY DEF ListInv
<1>1. ListsApart /\ EntriesOwned /\ ListsScheduled /\ AddsNewest
  BY DEF ListInv
<1>2. pc = "add" /\ pc' = "rest" /\ UNCHANGED <<conns, nRtp>>
  BY DEF ScheduleFill, Rest
<1>3. /\ todo = <<nRtp>> /\ Now.rtps = <<nRtp>> /\ sess[Here].rtps = <<nRtp>> /\ Here \in Client
      /\ rtp[nRtp].handle # "dead" /\ ent \in Entry /\ sched[ent].valid
      /\ \A e \in Entry : sched[e].rtp < nRtp
  BY <1>1, <1>2, HereIsClient DEF AddsNewest, Has, Now
<1>4. Head(todo) = nRtp /\ Head(Now.rtps) = nRtp /\ nRtp \in RtpId
  BY <1>3, HeadInHand
<1>5. \A d \in Client : sess'[d].rtps = sess[d].rtps /\ sess'[d].open = sess[d].open
  BY Types DEF ScheduleFill, SetState, ServerInv, SessionSet
<1>6. /\ rtp'[nRtp].entry = ent /\ rtp'[nRtp].handle = rtp[nRtp].handle
      /\ \A r \in RtpId : r # nRtp => rtp'[r] = rtp[r]
  BY <1>4, Types DEF ScheduleFill, ServerInv, RtpSet
<1>7. /\ sched'[ent].valid /\ sched'[ent].rtp = nRtp
      /\ \A e \in Entry : e # ent => sched'[e] = sched[e]
  BY <1>3, <1>4, Types DEF ScheduleFill, ServerInv, EntrySet
<1>8. ListsApart'
  BY <1>1, <1>2, <1>4, <1>5, <1>7, ListTypes DEF ListsApart, Has
<1>9. EntriesOwned'
  <2> SUFFICES ASSUME NEW e \in Entry, sched'[e].valid
               PROVE  /\ sched'[e].rtp # NULL /\ rtp'[sched'[e].rtp].entry = e
                      /\ rtp'[sched'[e].rtp].handle # "dead"
                      /\ \E d \in Client : sess'[d].rtps = <<sched'[e].rtp>>
    BY <1>2 DEF EntriesOwned, Has
  <2>1. CASE e = ent
    BY <1>3, <1>4, <1>5, <1>6, <1>7, <2>1, ListTypes
  <2>2. CASE e # ent
    <3>1. sched'[e] = sched[e]
      BY <1>7, <2>2
    <3>2. /\ sched[e].rtp # NULL /\ rtp[sched[e].rtp].entry = e
          /\ rtp[sched[e].rtp].handle # "dead"
          /\ \E d \in Client : sess[d].rtps = <<sched[e].rtp>>
      BY <1>1, <1>2, <2>2, <3>1 DEF EntriesOwned, Adds, Changing, Has
    <3>3. rtp'[sched[e].rtp] = rtp[sched[e].rtp]
      BY <1>3, <1>6, <3>2, ListTypes
    <3> QED
      BY <1>5, <3>1, <3>2, <3>3
  <2> QED
    BY <2>1, <2>2
<1>10. ListsScheduled'
  <2> SUFFICES ASSUME NEW d \in Client, NEW r \in RtpId, sess[d].rtps = <<r>>
               PROVE  InUse(r)'
    BY <1>2, <1>5 DEF ListsScheduled, Has, Adds
  <2>1. CASE d = Here
    <3>1. r = nRtp
      BY <1>3, <2>1
    <3> QED
      BY <1>3, <1>6, <1>7, <3>1 DEF InUse
  <2>2. CASE d # Here
    <3>1. r # nRtp
      BY <1>1, <1>3, <1>4, <2>2 DEF ListsApart, Has
    <3>2. InUse(r) /\ rtp[r].entry # ent
      BY <1>1, <1>2, <2>2 DEF ListsScheduled, Ending, Has, Adds
    <3> QED
      BY <1>6, <1>7, <3>1, <3>2 DEF InUse
  <2> QED
    BY <2>1, <2>2
<1> QED
  BY <1>2, <1>8, <1>9, <1>10 DEF AddsNewest, TakesOut

\* An ending begins: the session it takes out has its entry.
LEMMA ListBegins ==
  ASSUME ServerInv, ListInv, Regular' => Regular, NEW i \in DOMAIN conns,
         Teardown(i) \/ Truncated(i)
  PROVE  ListInv'
<1> SUFFICES ASSUME Regular'
             PROVE  (ListsApart /\ EntriesOwned /\ ListsScheduled /\ AddsNewest /\ TakesOut)'
  BY DEF ListInv
<1>1. ListsApart /\ EntriesOwned /\ ListsScheduled
  BY DEF ListInv
<1>2. /\ pc = "rest" /\ pc' \in {"teardown", "abort"} /\ at' = i /\ todo' = sess[conns[i]].rtps
      /\ UNCHANGED <<conns, sess, rtp, nRtp, sched>>
  BY DEF Teardown, Truncated, Reads
<1>3. ListsApart'
  BY <1>1, <1>2 DEF ListsApart, Has
<1>4. EntriesOwned'
  <2>1. \A e \in Entry : ~ Changing(e) /\ ~ Adds(e)
    BY <1>2 DEF Changing, Adds
  <2> QED
    BY <1>1, <1>2, <2>1 DEF EntriesOwned, Has
<1>5. \A c \in Client, r \in RtpId : Has(c, r) => InUse(r)
  BY <1>1, <1>2 DEF ListsScheduled, Ending
<1>6. ListsScheduled'
  BY <1>2, <1>5 DEF ListsScheduled, Has, InUse, Adds
<1>7. TakesOut'
  <2>1. conns[i] \in Client
    BY Types DEF ServerInv
  <2>2. todo' = <<>> \/ \E r \in RtpId : todo' = <<r>> /\ InUse(r)'
    <3>1. todo' = <<>> \/ \E r \in RtpId : Has(conns[i], r) /\ todo' = <<r>>
      BY <1>1, <1>2, <2>1, ListTypes DEF ListsApart, Has
    <3> QED
      BY <1>2, <1>5, <2>1, <3>1 DEF InUse
  <2>3. todo' = Now'.rtps /\ sess'[Here'].rtps = todo'
    BY <1>2 DEF Now, Here
  <2>4. todo' = <<>> => \A e \in Entry : ~ Has(Here, sched[e].rtp)'
    BY <2>3 DEF Has
  <2> QED
    BY <1>2, <2>2, <2>3, <2>4 DEF TakesOut
<1> QED
  BY <1>2, <1>3, <1>4, <1>6, <1>7 DEF AddsNewest

\* The session that main takes out is the one of its list.
LEMMA TakenOut ==
  ASSUME ServerInv, ListInv, Regular, todo # <<>>,
         pc \in {"teardown", "teardownRemove", "abort", "abortRemove"}
  PROVE  \E r \in RtpId : todo = <<r>> /\ Head(todo) = r /\ Tail(todo) = <<>> /\ InUse(r)
<1>1. PICK r \in RtpId : todo = <<r>> /\ InUse(r)
  BY DEF ListInv, TakesOut
<1> QED
  BY <1>1

LEMMA ListDelete ==
  ASSUME ServerInv, ListInv, Regular' => Regular, Delete
  PROVE  ListInv'
<1> SUFFICES ASSUME Regular'
             PROVE  (ListsApart /\ EntriesOwned /\ ListsScheduled /\ AddsNewest /\ TakesOut)'
  BY DEF ListInv
<1>1. ListsApart /\ EntriesOwned /\ ListsScheduled /\ TakesOut
  BY DEF ListInv
<1>2. /\ pc \in {"teardown", "abort"} /\ todo # <<>>
      /\ pc' = (IF pc = "teardown" THEN "teardownRemove" ELSE "abortRemove")
      /\ UNCHANGED <<conns, nRtp, sched, at, todo, ent>>
  BY DEF Delete
<1>3. PICK r \in RtpId : todo = <<r>> /\ Head(todo) = r /\ Tail(todo) = <<>> /\ InUse(r)
  BY <1>2, TakenOut
<1>4. /\ \A q \in RtpId : rtp'[q].entry = rtp[q].entry
      /\ \A q \in RtpId : q # r => rtp'[q] = rtp[q]
  BY <1>3, Types DEF Delete, ServerInv, RtpSet
<1>5. Here \in Client /\ Has(Here, r) /\ Here' = Here
  <2>1. todo = Now.rtps
    BY <1>1, <1>2 DEF TakesOut, ServerInv, InHand
  <2> QED
    BY <1>2, <1>3, <2>1, HereIsClient DEF Has, Now, Here
<1>6. /\ \A c \in Client \ {Here} : sess'[c] = sess[c]
      /\ sess'[Here].open = sess[Here].open
      /\ pc = "teardown" => sess'[Here].rtps = <<>>
      /\ pc = "abort" => sess' = sess
  <2>1. CASE pc = "teardown"
    <3>1. sess' = [sess EXCEPT ![Here].rtps = <<>>]
      BY <1>3, <1>5, <2>1 DEF Delete, Has
    <3> QED
      BY <1>5, <2>1, <3>1, Types DEF ServerInv, SessionSet
  <2>2. CASE pc = "abort"
    BY <2>2 DEF Delete
  <2> QED
    BY <1>2, <2>1, <2>2
<1>7. ListsApart'
  <2>1. \A c \in Client : sess'[c].rtps = <<>> \/ sess'[c].rtps = sess[c].rtps
    BY <1>2, <1>6
  <2>2. \A c \in Client : sess'[c].open = sess[c].open
    BY <1>6
  <2>3. \A c \in Client, q \in RtpId : Has(c, q)' => Has(c, q)
    <3> SUFFICES ASSUME NEW c \in Client, NEW q \in RtpId, sess'[c].rtps = <<q>>
                 PROVE  sess[c].rtps = <<q>>
      BY DEF Has
    <3>1. <<q>> # <<>>
      OBVIOUS
    <3> QED
      BY <2>1, <3>1
  <2>4. \A c \in Client : sess'[c].rtps = <<>> \/ \E q \in 1 .. nRtp : Has(c, q)'
    BY <1>1, <2>1 DEF ListsApart, Has
  <2>5. \A c \in Client : sess'[c].rtps # <<>> =>
          sess'[c].open /\ \E i \in DOMAIN conns : conns[i] = c
    BY <1>1, <2>1, <2>2 DEF ListsApart
  <2> QED
    BY <1>1, <1>2, <2>3, <2>4, <2>5 DEF ListsApart
<1>8. \A c \in Client, q \in RtpId : Has(c, q)' <=> Has(c, q) /\ (pc = "teardown" => c # Here)
  <2> SUFFICES ASSUME NEW c \in Client, NEW q \in RtpId
               PROVE  sess'[c].rtps = <<q>> <=>
                        sess[c].rtps = <<q>> /\ (pc = "teardown" => c # Here)
    BY DEF Has
  <2>1. <<q>> # <<>>
    OBVIOUS
  <2> QED
    BY <1>2, <1>6, <2>1
<1>9. \A e \in Entry : Changing(e)' <=> e = rtp[r].entry
  BY <1>2, <1>3, <1>4 DEF Changing
<1>10. EntriesOwned'
  <2> SUFFICES ASSUME NEW e \in Entry, sched[e].valid
               PROVE  /\ sched[e].rtp # NULL /\ rtp'[sched[e].rtp].entry = e
                      /\ \/ e = rtp[r].entry
                         \/ /\ rtp'[sched[e].rtp].handle # "dead"
                            /\ \E c \in Client : Has(c, sched[e].rtp)'
    BY <1>2, <1>9 DEF EntriesOwned
  <2>1. /\ sched[e].rtp # NULL /\ rtp[sched[e].rtp].entry = e
        /\ rtp[sched[e].rtp].handle # "dead"
        /\ \E c \in Client : Has(c, sched[e].rtp)
    BY <1>1, <1>2 DEF EntriesOwned, Adds, Changing
  <2>2. sched[e].rtp \in RtpId
    BY <2>1, ListTypes
  <2>3. CASE sched[e].rtp = r
    BY <1>4, <2>1, <2>2, <2>3
  <2>4. CASE sched[e].rtp # r
    <3>1. PICK c \in Client : Has(c, sched[e].rtp)
      BY <2>1
    <3>2. c # Here
      BY <1>5, <2>4, <3>1 DEF Has
    <3>3. Has(c, sched[e].rtp)'
      BY <1>2, <1>6, <3>1, <3>2 DEF Has
    <3> QED
      BY <1>4, <2>1, <2>2, <2>4, <3>3
  <2> QED
    BY <2>3, <2>4
<1>11. ListsScheduled'
  <2> SUFFICES ASSUME NEW c \in Client, NEW q \in RtpId, Has(c, q)'
               PROVE  Ending(c)' \/ (InUse(q) /\ ~ Adds(rtp[q].entry))'
    BY DEF ListsScheduled
  <2>1. Ending(c) \/ InUse(q)
    BY <1>1, <1>2, <1>8 DEF ListsScheduled
  <2>2. Ending(c) => Ending(c)'
    BY <1>2, <1>5 DEF Ending
  <2>3. InUse(q) => (InUse(q) /\ ~ Adds(rtp[q].entry))'
    BY <1>2, <1>4 DEF InUse, Adds
  <2> QED
    BY <2>1, <2>2, <2>3
<1>12. TakesOut'
  <2>1. InUse(r)' /\ todo' = <<r>> /\ todo' # <<>>
    BY <1>2, <1>3, <1>4 DEF InUse
  <2>2. pc = "teardown" => \A c \in Client : ~ Has(c, r)'
    BY <1>1, <1>5, <1>8 DEF ListsApart
  <2>3. pc = "abort" => Now'.rtps = <<r>>
    BY <1>5, <1>6 DEF Now, Has
  <2> QED
    BY <1>2, <2>1, <2>2, <2>3 DEF TakesOut, Has
<1> QED
  BY <1>2, <1>7, <1>10, <1>11, <1>12 DEF AddsNewest

LEMMA ListUnschedule ==
  ASSUME ServerInv, ListInv, Regular' => Regular, Unschedule
  PROVE  ListInv'
<1> SUFFICES ASSUME Regular'
             PROVE  (ListsApart /\ EntriesOwned /\ ListsScheduled /\ AddsNewest /\ TakesOut)'
  BY DEF ListInv
<1>1. ListsApart /\ EntriesOwned /\ ListsScheduled /\ TakesOut
  BY DEF ListInv
<1>2. /\ pc \in {"teardownRemove", "abortRemove"} /\ todo # <<>> /\ todo' = Tail(todo)
      /\ pc' = (IF pc = "teardownRemove" THEN "teardown" ELSE "abort")
      /\ UNCHANGED <<conns, sess, rtp, nRtp, at, ent>>
  BY DEF Unschedule, ServerInv, InHand
<1>3. PICK r \in RtpId : todo = <<r>> /\ Head(todo) = r /\ Tail(todo) = <<>> /\ InUse(r)
  BY <1>2, TakenOut
<1>4. /\ \A e \in Entry : sched'[e].rtp = sched[e].rtp
      /\ \A e \in Entry : e # rtp[r].entry => sched'[e].valid = sched[e].valid
      /\ ~ sched'[rtp[r].entry].valid
  <2>1. rtp[r].entry \in Entry /\ sched \in [Entry -> EntrySet]
    BY <1>3, Types DEF InUse, ServerInv
  <2>2. sched' = [e \in Entry |-> IF e = rtp[r].entry THEN FreedEntry(sched[e]) ELSE sched[e]]
    BY <1>3 DEF Unschedule
  <2> QED
    BY <2>1, <2>2 DEF FreedEntry, EntrySet
<1>5. Here' = Here /\ todo' = <<>>
  BY <1>2, <1>3 DEF Here
<1>6. ListsApart'
  BY <1>1, <1>2, <1>4 DEF ListsApart, Has
<1>7. \A e \in Entry : sched[e].valid =>
        /\ sched[e].rtp # NULL /\ rtp[sched[e].rtp].entry = e
        /\ \/ e = rtp[r].entry
           \/ rtp[sched[e].rtp].handle # "dead" /\ \E c \in Client : Has(c, sched[e].rtp)
  BY <1>1, <1>2, <1>3 DEF EntriesOwned, Adds, Changing
<1>8. EntriesOwned'
  <2> SUFFICES ASSUME NEW e \in Entry, sched'[e].valid
               PROVE  /\ sched'[e].rtp # NULL /\ rtp'[sched'[e].rtp].entry = e
                      /\ rtp'[sched'[e].rtp].handle # "dead"
                      /\ \E c \in Client : sess'[c].rtps = <<sched'[e].rtp>>
    BY DEF EntriesOwned, Has
  <2>1. sched[e].valid /\ e # rtp[r].entry /\ sched'[e].rtp = sched[e].rtp
    BY <1>4
  <2> QED
    BY <1>2, <1>7, <2>1 DEF Has
<1>9. ListsScheduled'
  <2> SUFFICES ASSUME NEW c \in Client, NEW q \in RtpId, Has(c, q)
               PROVE  Ending(c)' \/ (InUse(q) /\ ~ Adds(rtp[q].entry))'
    BY <1>2 DEF ListsScheduled, Has
  <2>1. Ending(c) \/ InUse(q)
    BY <1>1, <1>2 DEF ListsScheduled
  <2>2. Ending(c) => Ending(c)'
    BY <1>2, <1>5 DEF Ending
  <2>3. CASE ~ Ending(c)
    <3>1. rtp[q].entry # rtp[r].entry
      <4> SUFFICES ASSUME rtp[q].entry = rtp[r].entry PROVE FALSE
        OBVIOUS
      <4>1. q = r
        BY <1>3, <2>1, <2>3 DEF InUse
      <4>2. CASE pc = "teardownRemove"
        BY <1>1, <1>3, <4>1, <4>2 DEF TakesOut, Has
      <4>3. CASE pc = "abortRemove"
        <5>1. Has(Here, r) /\ Here \in Client
          BY <1>1, <1>3, <4>3, HereIsClient DEF TakesOut, Has, Now
        <5> QED
          BY <1>1, <2>3, <4>1, <4>3, <5>1 DEF ListsApart, Ending
      <4> QED
        BY <1>2, <4>2, <4>3
    <3> QED
      BY <1>2, <1>4, <2>1, <2>3, <3>1 DEF InUse, Adds
  <2> QED
    BY <2>2, <2>3
<1>10. TakesOut'
  <2>1. pc = "abortRemove" => sess[Here].rtps = <<r>>
    BY <1>1, <1>3 DEF TakesOut, Now
  <2>2. pc = "abortRemove" =>
          \A e \in Entry : sched'[e].valid => sess[Here].rtps # <<sched'[e].rtp>>
    <3> SUFFICES ASSUME pc = "abortRemove", NEW e \in Entry, sched'[e].valid,
                        sess[Here].rtps = <<sched'[e].rtp>>
                 PROVE  FALSE
      OBVIOUS
    <3>1. sched[e].rtp = r
      BY <1>4, <2>1
    <3>2. e # rtp[r].entry /\ sched[e].valid
      BY <1>4
    <3> QED
      BY <1>7, <3>1, <3>2
  <2> QED
    BY <1>2, <1>5, <2>2 DEF TakesOut, Has
<1> QED
  BY <1>2, <1>6, <1>8, <1>9, <1>10 DEF AddsNewest

\* A client whose session no entry in use is for ends.
LEMMA ListEnds ==
  ASSUME ServerInv, ListInv, Regular' => Regular, NEW c \in Client,
         sess' = [sess EXCEPT ![c] = NoSession], UNCHANGED <<rtp, nRtp, sched>>,
         pc \in {"rest", "teardown", "abort"}, pc' = "rest", pc = "abort" => c = Here,
         Regular => \A e \in Entry : sched[e].valid => ~ Has(c, sched[e].rtp),
         \A i \in DOMAIN conns : conns[i] # c => \E j \in DOMAIN conns' : conns'[j] = conns[i]
  PROVE  ListInv'
<1> SUFFICES ASSUME Regular'
             PROVE  (ListsApart /\ EntriesOwned /\ ListsScheduled /\ AddsNewest /\ TakesOut)'
  BY DEF ListInv
<1>1. ListsApart /\ EntriesOwned /\ ListsScheduled
  BY DEF ListInv
<1>2. /\ sess'[c].rtps = <<>>
      /\ \A d \in Client : d # c => sess'[d] = sess[d]
  BY Types DEF NoSession, ServerInv
<1>3. \A d \in Client, r \in RtpId : Has(d, r)' <=> d # c /\ Has(d, r)
  <2> SUFFICES ASSUME NEW d \in Client, NEW r \in RtpId
               PROVE  sess'[d].rtps = <<r>> <=> d # c /\ sess[d].rtps = <<r>>
    BY DEF Has
  <2>1. <<r>> # <<>>
    OBVIOUS
  <2> QED
    BY <1>2, <2>1
<1>4. ListsApart'
  <2>1. \A d \in Client : sess'[d].rtps = <<>> \/ \E r \in 1 .. nRtp' : Has(d, r)'
    BY <1>1, <1>2 DEF ListsApart, Has
  <2>2. \A d \in Client : sess'[d].rtps # <<>> =>
          sess'[d].open /\ \E i \in DOMAIN conns' : conns'[i] = d
    BY <1>1, <1>2 DEF ListsApart
  <2> QED
    BY <1>1, <1>3, <2>1, <2>2 DEF ListsApart
<1>5. EntriesOwned'
  <2> SUFFICES ASSUME NEW e \in Entry, sched'[e].valid
               PROVE  /\ sched'[e].rtp # NULL /\ rtp'[sched'[e].rtp].entry = e
                      /\ rtp'[sched'[e].rtp].handle # "dead"
                      /\ \E d \in Client : sess'[d].rtps = <<sched'[e].rtp>>
    BY DEF EntriesOwned, Has
  <2>1. /\ sched[e].rtp # NULL /\ rtp[sched[e].rtp].entry = e
        /\ rtp[sched[e].rtp].handle # "dead"
        /\ \E d \in Client : Has(d, sched[e].rtp)
    BY <1>1 DEF EntriesOwned, Adds, Changing
  <2> QED
    BY <1>2, <2>1 DEF Has
<1>6. ListsScheduled'
  BY <1>1, <1>3 DEF ListsScheduled, Ending, InUse, Adds
<1> QED
  BY <1>4, <1>5, <1>6 DEF AddsNewest, TakesOut

\* Removing a position keeps what is at the others.
LEMMA RemoveAtKeeps ==
  ASSUME NEW S, NEW s \in Seq(S), NEW i \in DOMAIN s, NEW j \in DOMAIN s, j # i
  PROVE  \E k \in DOMAIN RemoveAt(s, i) : RemoveAt(s, i)[k] = s[j]
<1>1. i \in 1 .. Len(s) /\ j \in 1 .. Len(s) /\ Len(s) \in Nat
  BY LenProperties
<1>2. PICK before : before = SubSeq(s, 1, i - 1)
  OBVIOUS
<1>3. PICK after : after = SubSeq(s, i + 1, Len(s))
  OBVIOUS
<1>4. /\ before \in Seq(S) /\ Len(before) = i - 1
      /\ \A k \in 1 .. i - 1 : before[k] = s[k]
  BY <1>1, <1>2
<1>5. /\ after \in Seq(S) /\ Len(after) = Len(s) - i
      /\ \A k \in 1 .. Len(s) - i : after[k] = s[i + k]
  BY <1>1, <1>3
<1>6. RemoveAt(s, i) = before \o after
  BY <1>2, <1>3 DEF RemoveAt
<1>7. /\ before \o after \in Seq(S) /\ Len(before \o after) = Len(before) + Len(after)
      /\ \A k \in 1 .. Len(before) + Len(after) :
           (before \o after)[k] = IF k <= Len(before) THEN before[k] ELSE after[k - Len(before)]
  BY <1>4, <1>5, ConcatProperties
<1>8. DOMAIN (before \o after) = 1 .. Len(s) - 1
  <2>1. Len(before \o after) = Len(s) - 1
    BY <1>1, <1>4, <1>5, <1>7
  <2>2. DOMAIN (before \o after) = 1 .. Len(before \o after)
    BY <1>7, LenProperties
  <2> QED
    BY <2>1, <2>2
<1>9. CASE j < i
  <2>1. j \in 1 .. Len(s) - 1 /\ j <= Len(before) /\ j \in 1 .. i - 1
    BY <1>1, <1>4, <1>9
  <2>2. (before \o after)[j] = s[j]
    BY <1>1, <1>4, <1>5, <1>7, <2>1
  <2> QED
    BY <1>6, <1>8, <2>1, <2>2
<1>10. CASE j > i
  <2>1. j - 1 \in 1 .. Len(s) - 1 /\ ~ (j - 1 <= i - 1) /\ (j - 1) - (i - 1) = j - i
    BY <1>1, <1>10
  <2>2. j - i \in 1 .. Len(s) - i /\ i + (j - i) = j
    BY <1>1, <1>10
  <2>3. Len(before) + Len(after) = Len(s) - 1
    BY <1>1, <1>4, <1>5
  <2>4. (before \o after)[j - 1] = after[j - i]
    BY <1>4, <1>7, <2>1, <2>3
  <2>5. (before \o after)[j - 1] = s[j]
    BY <1>5, <2>2, <2>4
  <2> QED
    BY <1>6, <1>8, <2>1, <2>5
<1> QED
  BY <1>1, <1>9, <1>10

\* Taking a connection off the list keeps the others.
LEMMA OthersStay ==
  ASSUME ServerInv, NEW i \in DOMAIN conns, conns' = RemoveAt(conns, i),
         NEW j \in DOMAIN conns, j # i
  PROVE  \E k \in DOMAIN conns' : conns'[k] = conns[j]
<1>1. conns \in Seq(Client)
  BY Types DEF ServerInv
<1> QED
  BY <1>1, RemoveAtKeeps

LEMMA ListConnectionEnds ==
  ASSUME ServerInv, ListInv, Regular' => Regular,
         TeardownEnds \/ AbortEnds \/ \E i \in DOMAIN conns : Closed(i)
  PROVE  ListInv'
<1>1. CASE TeardownEnds
  <2>1. /\ pc = "teardown" /\ todo = <<>> /\ pc' = "rest" /\ UNCHANGED <<conns, rtp, nRtp, sched>>
        /\ sess' = [sess EXCEPT ![Here] = NoSession]
    BY <1>1 DEF TeardownEnds, Rest
  <2>2. Here \in Client /\ sess[Here].rtps = <<>>
    BY <2>1, HereIsClient DEF ServerInv, InHand, Now
  <2>3. \A e \in Entry : ~ Has(Here, sched[e].rtp)
    BY <2>2 DEF Has
  <2> QED
    BY <2>1, <2>2, <2>3, ListEnds
<1>2. CASE AbortEnds
  <2>1. /\ pc = "abort" /\ todo = <<>> /\ pc' = "rest" /\ UNCHANGED <<rtp, nRtp, sched>>
        /\ sess' = [sess EXCEPT ![Here] = NoSession] /\ conns' = RemoveAt(conns, at)
    BY <1>2 DEF AbortEnds, Unlink, Rest, Here
  <2>2. Here \in Client /\ at \in DOMAIN conns
    BY <2>1, HereIsClient
  <2>3. Regular => \A e \in Entry : sched[e].valid => ~ Has(Here, sched[e].rtp)
    BY <2>1 DEF ListInv, TakesOut
  <2>4. \A j \in DOMAIN conns : conns[j] # Here => \E k \in DOMAIN conns' : conns'[k] = conns[j]
    BY <2>1, <2>2, OthersStay DEF Here
  <2> QED
    BY <2>1, <2>2, <2>3, <2>4, ListEnds
<1>3. ASSUME NEW i \in DOMAIN conns, Closed(i) PROVE ListInv'
  <2>1. /\ pc = "rest" /\ pc' = "rest" /\ UNCHANGED <<rtp, nRtp, sched>> /\ ~ sess[conns[i]].open
        /\ sess' = [sess EXCEPT ![conns[i]] = NoSession] /\ conns' = RemoveAt(conns, i)
    BY <1>3 DEF Closed, Unlink, Rest
  <2>2. conns[i] \in Client
    BY Types DEF ServerInv
  <2>3. Regular => sess[conns[i]].rtps = <<>>
    BY <2>1, <2>2 DEF ListInv, ListsApart
  <2>4. Regular => \A e \in Entry : sched[e].valid => ~ Has(conns[i], sched[e].rtp)
    <3> SUFFICES ASSUME Regular, NEW e \in Entry, sess[conns[i]].rtps = <<sched[e].rtp>> PROVE FALSE
      BY DEF Has
    <3>1. sess[conns[i]].rtps = <<>>
      BY <2>3
    <3>2. <<sched[e].rtp>> # <<>>
      OBVIOUS
    <3> QED
      BY <3>1, <3>2
  <2>5. \A j \in DOMAIN conns : conns[j] # conns[i] => \E k \in DOMAIN conns' : conns'[k] = conns[j]
    BY <2>1, OthersStay
  <2> QED
    BY <2>1, <2>2, <2>4, <2>5, ListEnds
<1> QED
  BY <1>1, <1>2, <1>3

LEMMA ListInit == Init => ListInv
<1> SUFFICES ASSUME Init PROVE ListInv
  OBVIOUS
<1>1. \A c \in Client : sess[c].rtps = <<>>
  BY DEF Init, NoSession
<1>2. \A c \in Client, r \in RtpId : ~ Has(c, r)
  BY <1>1 DEF Has
<1>3. \A e \in Entry : ~ sched[e].valid /\ sched[e].rtp <= nRtp
  BY DEF Init, NULL
<1> QED
  BY <1>1, <1>2, <1>3 DEF Init, ListInv, ListsApart, EntriesOwned, ListsScheduled,
     AddsNewest, TakesOut

LEMMA ListStep ==
  ASSUME ServerInv, ListInv, [Next]_vars
  PROVE  ListInv'
<1>1. Regular' => Regular /\ irregular' = irregular
  BY RegularBefore
<1>2. CASE UNCHANGED vars
  BY <1>1, <1>2, ListKept DEF vars, control, main
<1>3. CASE \E c \in Client : Accept(c)
  BY <1>1, <1>3, ListAccept
<1>4. ASSUME NEW i \in DOMAIN conns, Request(i) PROVE ListInv'
  <2>1. CASE SetupRefused(i)
    <3>1. irregular' = irregular + 1 /\ irregular \in Nat
      BY <2>1, Types DEF SetupRefused, Irregularly, ServerInv
    <3> QED
      BY <3>1 DEF ListInv, Regular
  <2>2. CASE Options(i) \/ SetupMalformed(i) \/ PlayRefused(i)
    BY <1>1, <2>2, ListState
  <2>3. CASE Setup(i)
    BY <1>1, <2>3, ListSetup
  <2>4. CASE Play(i)
    BY <1>1, <2>4, ListPlay
  <2>5. CASE Teardown(i) \/ Truncated(i)
    BY <1>1, <2>5, ListBegins
  <2>6. CASE Closed(i)
    BY <1>1, <2>6, ListConnectionEnds
  <2> QED
    BY <1>4, <2>1, <2>2, <2>3, <2>4, <2>5, <2>6 DEF Request
<1>5. CASE \/ ScheduleFill \/ ScheduleStart \/ StartCounts \/ StartSkips \/ PlayReplies
           \/ Delete \/ Unschedule \/ TeardownEnds \/ AbortEnds
  BY <1>1, <1>5, ListScheduleFill, ListPlay, ListDelete, ListUnschedule, ListConnectionEnds
<1>6. CASE Scheduler
  BY <1>1, <1>6, ListScheduler
<1> QED
  BY <1>2, <1>3, <1>4, <1>5, <1>6 DEF Next, Main

LEMMA ListImplies ==
  ASSUME ServerInv, ListInv
  PROVE  OwnEntry
<1> SUFFICES ASSUME Regular PROVE OwnEntry
  BY DEF OwnEntry
<1>1. ListsApart /\ EntriesOwned /\ ListsScheduled
  BY DEF ListInv
<1>2. ASSUME NEW e \in Entry, sched[e].valid, ~ Changing(e)
      PROVE  \E c \in Client : /\ sess[c].rtps = <<sched[e].rtp>>
                              /\ rtp[sched[e].rtp].entry = e
                              /\ rtp[sched[e].rtp].handle # "dead"
  BY <1>1, <1>2 DEF EntriesOwned, Adds, Changing, Has
<1>3. ASSUME NEW c \in Client, ~ Ending(c), pc # "add", NEW r \in RtpsOf(c)
      PROVE  InUse(r)
  <2>1. sess[c].rtps # <<>>
    BY <1>3 DEF RtpsOf
  <2>2. PICK q \in RtpId : sess[c].rtps = <<q>>
    BY <1>1, <2>1, ListTypes DEF ListsApart, Has
  <2>3. r = q
    BY <1>3, <2>2 DEF RtpsOf
  <2> QED
    BY <1>1, <1>3, <2>2, <2>3 DEF ListsScheduled, Has
<1> QED
  BY <1>2, <1>3 DEF OwnEntry, InUse

(* Every entry in use is that of one client's RTP session, with a handle that was not
   deleted, and every client's session has its entry, whenever main is not at it: however
   many clients there are, and wherever the schedule thread is. *)
THEOREM RtspServerOwnEntry == Spec => []OwnEntry
<1>1. Init => ServerInv /\ ListInv
  BY ServerInit, ListInit
<1>2. ServerInv /\ ListInv /\ [Next]_vars => (ServerInv /\ ListInv)'
  BY ServerStep, ListStep
<1>3. ServerInv /\ ListInv => OwnEntry
  BY ListImplies
<1> QED
  BY <1>1, <1>2, <1>3, PTL DEF Spec
-----------------------------------------------------------------------------
(* The visits of the schedule thread *)

\* Main comes to an entry in three steps only.
LEMMA MainElsewhere ==
  ASSUME Main
  PROVE  \/ \E i \in DOMAIN conns : Setup(i)
         \/ ScheduleFill
         \/ Unschedule
         \/ UNCHANGED <<sched, visit, marks>> /\ pc' # "add"
<1>1. CASE \E c \in Client : Accept(c)
  BY <1>1 DEF Accept, main
<1>2. CASE \E i \in DOMAIN conns : Request(i)
  <2>1. PICK i \in DOMAIN conns : Request(i)
    BY <1>2, SMTT(30)
  <2> QED
    BY <2>1 DEF Request, Options, SetupMalformed, SetupRefused, PlayRefused, Play, Teardown,
       Truncated, Closed, Unlink, Rest, MaySetup, MayPlay, Reads, main
<1>3. CASE \/ ScheduleStart \/ StartCounts \/ StartSkips \/ PlayReplies
           \/ Delete \/ TeardownEnds \/ AbortEnds
  BY <1>3 DEF ScheduleStart, StartCounts, StartSkips, PlayReplies, Delete, TeardownEnds,
     AbortEnds, Unlink, Rest
<1> QED
  BY <1>1, <1>2, <1>3 DEF Main

\* An entry that main comes to is one the schedule thread is not at, or crossed says so.
LEMMA VisitStep ==
  ASSUME ServerInv, VisitInv, [Next]_vars
  PROVE  VisitInv'
<1> DEFINE Visiting == {"look", "mark", "send", "sending"}
<1>1. se \in Entry /\ sched \in [Entry -> EntrySet]
  BY Types DEF ServerInv, TypeOK
<1>2. CASE UNCHANGED <<sched, visit, marks>>
  BY <1>2 DEF VisitInv, visit, marks
<1>3. CASE \E i \in DOMAIN conns : Setup(i)
  <2>1. /\ UNCHANGED <<visit, marks>>
        /\ sched' = [e \in Entry |-> IF e = ent' THEN [sched[e] EXCEPT !.valid = TRUE]
                                     ELSE sched[e]]
    BY <1>3 DEF Setup
  <2>2. /\ sched[se].valid => sched'[se].valid
        /\ sched'[se].rtp = sched[se].rtp /\ sched'[se].begin = sched[se].begin
    BY <1>1, <2>1 DEF EntrySet
  <2> QED
    BY <2>1, <2>2 DEF VisitInv, visit, marks
<1>4. CASE ScheduleFill \/ Unschedule
  <2>1. PICK e, entry : /\ crossed' = (crossed \/ Holds(e))
                        /\ sched' = [d \in Entry |-> IF d = e THEN entry ELSE sched[d]]
                        /\ UNCHANGED visit
    <3>1. CASE ScheduleFill
      <4> DEFINE filled == [sched[ent] EXCEPT !.rtp = Head(todo)]
      <4>1. sched' = [d \in Entry |-> IF d = ent THEN filled ELSE sched[d]]
        BY <3>1 DEF ScheduleFill
      <4>2. crossed' = (crossed \/ Holds(ent)) /\ UNCHANGED visit
        BY <3>1 DEF ScheduleFill
      <4> HIDE DEF filled
      <4> QED
        BY <4>1, <4>2
    <3>2. CASE Unschedule
      <4> DEFINE gone == rtp[Head(todo)].entry
      <4>1. sched' = [d \in Entry |-> IF d = gone THEN FreedEntry(sched[gone]) ELSE sched[d]]
        BY <3>2 DEF Unschedule
      <4> QED
        BY <3>2, <4>1 DEF Unschedule
    <3> QED
      BY <1>4, <3>1, <3>2
  <2>2. spc \in Visiting => crossed' \/ sched'[se] = sched[se]
    BY <1>1, <2>1 DEF Holds
  <2>3. crossed => crossed'
    BY <2>1
  <2> QED
    BY <2>1, <2>2, <2>3 DEF VisitInv, visit
<1>5. CASE Scheduler
  <2>1. CASE spc' \notin Visiting
    BY <2>1 DEF VisitInv
  <2>2. CASE spc' \in Visiting
    <3>1. ~ Leave /\ ~ Gate /\ ~ SendEnds
      BY <2>2 DEF Leave, Gate, SendEnds
    <3>2. CASE TestValid
      BY <3>1, <3>2 DEF TestValid, IsValid, Stay, VisitInv
    <3>3. CASE LookPause
      BY <3>1, <3>3 DEF LookPause, Stay, VisitInv
    <3>4. CASE MarkBegin
      <4>1. /\ spc = "mark" /\ Stay("send") /\ sched'[se].begin
        BY <3>1, <3>4 DEF MarkBegin
      <4>2. sched'[se].valid = sched[se].valid
        BY <1>1, <3>4 DEF MarkBegin, EntrySet
      <4> QED
        BY <4>1, <4>2 DEF Stay, VisitInv
    <3>5. CASE Send
      BY <3>5 DEF Send, Stay, VisitInv, ServerInv, Pointed
    <3> QED
      BY <1>5, <3>1, <3>2, <3>3, <3>4, <3>5 DEF Scheduler
  <2> QED
    BY <2>1, <2>2
<1>6. CASE Main /\ ~ ScheduleFill /\ ~ Unschedule /\ ~ \E i \in DOMAIN conns : Setup(i)
  BY <1>2, <1>6, MainElsewhere
<1> QED
  BY <1>2, <1>3, <1>4, <1>5, <1>6 DEF Next, vars

\* BeginFrame goes up where the schedule thread sends next, and falls with the entry.
LEMMA BeginStep ==
  ASSUME ServerInv, ListInv, VisitInv, BeginInv, [Next]_vars
  PROVE  BeginInv'
<1> SUFFICES ASSUME NEW e \in Entry, sched'[e].begin, e \notin smudged'
             PROVE  /\ sched'[e].valid /\ ~ Adds(e)'
                    /\ \/ Regular' => sched'[e].rtp \in begun'
                       \/ spc' = "send" /\ se' = e /\ frame' = "I"
  BY DEF BeginInv
<1>1. se \in Entry /\ sched \in [Entry -> EntrySet]
  BY Types DEF ServerInv, TypeOK
<1>2. Regular' => Regular
  BY RegularBefore
<1> DEFINE Begun == /\ sched[e].valid /\ ~ Adds(e)
                    /\ \/ Regular => sched[e].rtp \in begun
                       \/ spc = "send" /\ se = e /\ frame = "I"
<1>3. sched[e].begin /\ e \notin smudged => Begun
  BY DEF BeginInv
<1>4. CASE UNCHANGED <<sched, visit, marks>> /\ (pc' # "add" \/ UNCHANGED <<pc, ent>>)
  BY <1>2, <1>3, <1>4 DEF visit, marks, Adds
<1>5. CASE \E i \in DOMAIN conns : Setup(i)
  <2>1. /\ UNCHANGED <<visit, marks>>
        /\ sched' = [d \in Entry |-> IF d = ent' THEN [sched[d] EXCEPT !.valid = TRUE]
                                     ELSE sched[d]]
        /\ ent' = (IF FreeEntries = {} THEN NoEntry ELSE Min(FreeEntries))
    BY <1>5 DEF Setup
  <2>2. /\ sched'[e].rtp = sched[e].rtp /\ sched[e].begin
        /\ sched[e].valid => sched'[e].valid
    BY <1>1, <2>1 DEF EntrySet
  <2>3. Begun
    BY <1>3, <2>1, <2>2 DEF marks
  <2>4. e # ent'
    BY <2>1, <2>3, FreeEntry DEF NoEntry, Entry
  <2> QED
    BY <1>2, <2>1, <2>2, <2>3, <2>4 DEF visit, marks, Adds
<1>6. CASE ScheduleFill
  <2>1. /\ pc = "add" /\ pc' = "rest" /\ UNCHANGED <<visit, smudged, begun>>
        /\ sched' = [d \in Entry |-> IF d = ent THEN [sched[d] EXCEPT !.rtp = Head(todo)]
                                     ELSE sched[d]]
    BY <1>6 DEF ScheduleFill, Rest
  <2>2. sched[e].begin
    BY <1>1, <2>1 DEF EntrySet
  <2>3. Begun
    BY <1>3, <2>1, <2>2
  <2>4. sched'[e] = sched[e]
    BY <2>1, <2>3 DEF Adds
  <2> QED
    BY <1>2, <2>1, <2>3, <2>4 DEF visit, Adds
<1>7. CASE Unschedule
  <2> DEFINE gone == rtp[Head(todo)].entry
  <2>1. /\ pc \in {"teardownRemove", "abortRemove"} /\ pc' # "add" /\ UNCHANGED visit
        /\ sched' = [d \in Entry |-> IF d = gone THEN FreedEntry(sched[d]) ELSE sched[d]]
        /\ smudged' = smudged \ {gone} /\ begun' = begun \ {Head(todo)}
    BY <1>7 DEF Unschedule
  <2>2. e # gone
    BY <1>1, <2>1 DEF FreedEntry, EntrySet
  <2>3. sched'[e] = sched[e] /\ e \notin smudged
    BY <2>1, <2>2
  <2>4. Begun
    BY <1>3, <2>3
  <2>5. Regular => sched[e].rtp # Head(todo)
    BY <2>1, <2>2, <2>4 DEF ListInv, EntriesOwned
  <2> QED
    BY <1>2, <2>1, <2>3, <2>4, <2>5 DEF visit, Adds
<1>8. CASE Scheduler
  <2>1. UNCHANGED <<pc, ent>>
    BY <1>8 DEF Scheduler, Gate, TestValid, LookPause, MarkBegin, Send, SendEnds, control, main
  <2>2. CASE Gate \/ TestValid \/ LookPause \/ SendEnds
    <3>1. UNCHANGED <<sched, smudged, begun>> /\ spc # "send"
      BY <2>2 DEF Gate, TestValid, LookPause, SendEnds, marks
    <3> QED
      BY <1>2, <1>3, <2>1, <3>1 DEF Adds
  <2>3. CASE MarkBegin
    <3> DEFINE ready == rtp[sched[se].rtp].handle # "none"
               begins == ready /\ frame' = "I"
    <3>1. /\ spc = "mark" /\ UNCHANGED begun
          /\ sched' = [sched EXCEPT ![se].begin = @ \/ begins]
          /\ smudged' = IF begins /\ Disturbed THEN smudged \union {se} ELSE smudged
          /\ IF ready /\ sched'[se].begin THEN Stay("send") ELSE Leave
      BY <2>3 DEF MarkBegin
    <3> HIDE DEF ready, begins
    <3>2. /\ sched'[e].valid = sched[e].valid /\ sched'[e].rtp = sched[e].rtp
          /\ e \notin smudged
      BY <1>1, <3>1 DEF EntrySet
    <3>3. CASE e = se /\ begins
      <4>1. ~ Disturbed
        BY <3>1, <3>3
      <4>2. sched[e].valid /\ ~ Adds(e)
        BY <3>1, <3>3, <4>1 DEF Disturbed, Changing, Adds, VisitInv
      <4>3. spc' = "send" /\ se' = e /\ frame' = "I"
        BY <3>1, <3>3 DEF Stay, begins
      <4> QED
        BY <2>1, <3>2, <4>2, <4>3 DEF Adds
    <3>4. CASE ~ (e = se /\ begins)
      <4>1. sched[e].begin
        BY <1>1, <3>1, <3>4 DEF EntrySet
      <4> QED
        BY <1>2, <1>3, <2>1, <3>1, <3>2, <4>1 DEF Adds
    <3> QED
      BY <3>3, <3>4
  <2>4. CASE Send
    <3>1. /\ spc = "send" /\ UNCHANGED <<sched, frame, smudged>>
          /\ begun' = begun \union {sched[se].rtp}
      BY <2>4 DEF Send
    <3> QED
      BY <1>2, <1>3, <2>1, <3>1 DEF Adds
  <2> QED
    BY <1>8, <2>2, <2>3, <2>4 DEF Scheduler
<1>9. CASE UNCHANGED vars
  BY <1>4, <1>9 DEF vars, control, main
<1>10. CASE Main
  BY <1>4, <1>5, <1>6, <1>7, <1>10, MainElsewhere
<1> QED
  BY <1>8, <1>9, <1>10 DEF Next

LEMMA InvInit == Init => IInv
<1> SUFFICES ASSUME Init PROVE VisitInv /\ BeginInv
  BY ServerInit, ListInit DEF IInv
<1> QED
  BY DEF Init, VisitInv, BeginInv

LEMMA InvStep == IInv /\ [Next]_vars => IInv'
BY ServerStep, ListStep, VisitStep, BeginStep DEF IInv

(* RtpSend works with a deleted handle only in a visit that main came to: a schedule list
   of any length is never left with an entry whose handle is gone. *)
THEOREM RtspServerDeadHandleOnlyInRace == Spec => []DeadHandleOnlyInRace
<1>1. IInv => DeadHandleOnlyInRace
  <2> SUFFICES ASSUME IInv, Regular, spc = "sending", rtp[hnd].handle = "dead", ~ Disturbed
               PROVE  FALSE
    BY DEF DeadHandleOnlyInRace
  <2>1. ~ crossed /\ ~ Changing(se) /\ ~ Adds(se) /\ se \in Entry
    BY DEF Disturbed, Changing, Adds, IInv, ServerInv, TypeOK
  <2>2. sched[se].valid /\ hnd = sched[se].rtp
    BY <2>1 DEF IInv, VisitInv
  <2> QED
    BY <2>1, <2>2 DEF IInv, ListInv, EntriesOwned
<1> QED
  BY <1>1, InvInit, InvStep, PTL DEF Spec

(* Whatever main does between the visits, a client's first frame is an I frame, unless
   main came to the entry in that visit or in the one that set BeginFrame. *)
THEOREM RtspServerBeginsWithI == Spec => BeginsWithI
<1> DEFINE First == Regular => \A r \in begun' \ begun : frame = "I" \/ Disturbed \/ se \in smudged
<1>1. IInv /\ [Next]_vars => [First]_vars
  <2> SUFFICES ASSUME IInv, Next, Regular, NEW r \in begun' \ begun, ~ Disturbed, se \notin smudged
               PROVE  frame = "I"
    BY DEF vars
  <2>1. Send
    <3>1. ~ Main
      <4>1. ASSUME UNCHANGED begun \/ begun' \subseteq begun PROVE FALSE
        BY <4>1
      <4> QED
        BY <4>1, MainElsewhere DEF Setup, ScheduleFill, Unschedule, marks
    <3> QED
      BY <3>1 DEF Next, Scheduler, Gate, TestValid, LookPause, MarkBegin, SendEnds, marks
  <2>2. spc = "send" /\ r = sched[se].rtp /\ se \in Entry
    BY <2>1 DEF Send, IInv, ServerInv, TypeOK
  <2>3. sched[se].begin
    BY <2>2 DEF IInv, VisitInv, Disturbed
  <2> QED
    BY <2>2, <2>3 DEF IInv, BeginInv
<1> QED
  BY <1>1, InvInit, InvStep, PTL DEF Spec, BeginsWithI
-----------------------------------------------------------------------------
(* The count of the players, and the ports *)

\* The sessions that play: a client has them, and PLAY started them.
Playing == {r \in RtpId : rtp[r].started /\ \E c \in Client : Has(c, r)}

\* How far the count is from them while main starts a session or takes one out.
Behind == IF pc = "count" THEN -1 ELSE IF pc = "teardownRemove" THEN 1 ELSE 0

\* What main has in hand, where no ending was out of step.
CountInHand ==
  /\ pc \in {"start", "count"} => todo = <<>> \/ \E r \in RtpId : todo = <<r>> /\ Has(Here, r)
  /\ pc = "count" \/ (pc = "teardown" /\ todo # <<>>) => rtp[Head(todo)].started
  /\ pc \in {"abort", "abortRemove"} => \E r \in RtpId : Has(Here, r) /\ rtp[r].started

Nobody == \A c \in Client, r \in RtpId : ~ Has(c, r)

CountInv ==
  Balanced =>
    /\ CountInHand
    /\ play = Cardinality(Playing) + Behind
    /\ Nobody /\ pc \notin {"teardown", "teardownRemove"} => pool = Port

LEMMA OneMore ==
  ASSUME NEW S, IsFiniteSet(S), NEW x, x \notin S
  PROVE  Cardinality(S \union {x}) = Cardinality(S) + 1
BY FS_AddElement

LEMMA OneLess ==
  ASSUME NEW S, IsFiniteSet(S), NEW x, x \in S
  PROVE  Cardinality(S \ {x}) = Cardinality(S) - 1
BY FS_RemoveElement

LEMMA PlayingFinite == IsFiniteSet(Playing) /\ Cardinality(Playing) \in Nat
<1>1. IsFiniteSet(RtpId)
  <2>1. 1 \in Int /\ MaxRegular + MaxIrregular \in Int
    OBVIOUS
  <2> QED
    BY <2>1, FS_Interval DEF RtpId
<1> QED
  BY <1>1, FS_Subset, FS_CardinalityType DEF Playing

\* What main counts stays: main is at rest, or is not what moves.
LEMMA CountKept ==
  ASSUME ServerInv, CountInv, Balanced' => Balanced, UNCHANGED <<play, pool>>,
         \A c \in Client, r \in RtpId : Has(c, r)' <=> Has(c, r),
         \A r \in RtpId : rtp'[r].started = rtp[r].started,
         UNCHANGED <<pc, at, todo>> /\ (pc = "rest" \/ UNCHANGED conns)
  PROVE  CountInv'
<1> SUFFICES ASSUME Balanced'
             PROVE  (/\ CountInHand
                     /\ play = Cardinality(Playing) + Behind
                     /\ Nobody /\ pc \notin {"teardown", "teardownRemove"} => pool = Port)'
  BY DEF CountInv
<1>1. /\ CountInHand
      /\ play = Cardinality(Playing) + Behind
      /\ Nobody /\ pc \notin {"teardown", "teardownRemove"} => pool = Port
  BY DEF CountInv
<1>2. Playing' = Playing
  BY DEF Playing
<1>3. CountInHand'
  <2>1. CASE pc = "rest"
    BY <2>1 DEF CountInHand
  <2>2. CASE pc # "rest"
    <3>1. Here' = Here /\ Here \in Client
      BY <2>2, HereIsClient DEF Here
    <3>2. pc = "count" \/ (pc = "teardown" /\ todo # <<>>) => Head(todo) \in RtpId
      BY HeadInHand DEF ServerInv, InHand
    <3> QED
      BY <1>1, <3>1, <3>2 DEF CountInHand
  <2> QED
    BY <2>1, <2>2
<1> QED
  BY <1>1, <1>2, <1>3 DEF Behind, Nobody

LEMMA CountSetup ==
  ASSUME ServerInv, ListInv, CountInv, Balanced' => Balanced /\ irregular' = irregular,
         NEW i \in DOMAIN conns, Setup(i)
  PROVE  CountInv'
<1> SUFFICES ASSUME Balanced' PROVE CountInv'
  BY DEF CountInv
<1> DEFINE c == conns[i]
           n == nRtp + 1
<1>1. /\ pc = "rest" /\ pc' = "add" /\ UNCHANGED play
      /\ \E handle \in {"none", "live"} : CreateRtp(c, handle, sess[c].state)
  BY DEF Setup, MaySetup, Reads, TakePort, Created
<1>2. sess[c].rtps = <<>> /\ nRtp - irregular < MaxRegular
  <2>1. ~ Irregularly
    BY Types DEF Irregularly, ServerInv, Balanced
  <2> QED
    BY <2>1 DEF Setup
<1>3. c \in Client /\ sess[c].state \in {"INIT", "READY", "PLAY"} /\ nRtp \in Nat
      /\ sess \in [Client -> SessionSet] /\ rtp \in [RtpId -> RtpSet]
  BY Types DEF ServerInv, SessionSet
<1>4. n \in RtpId /\ sess'[c].rtps = <<n>>
  <2>1. irregular \in 0 .. MaxIrregular
    BY DEF ServerInv, TypeOK
  <2>2. nRtp < MaxRegular + MaxIrregular
    BY <1>2, <1>3, <2>1
  <2>3. n \in RtpId /\ sess'[c].rtps = Append(<<>>, n)
    BY <1>1, <1>2, <1>3, <2>2, CreateTypes DEF ServerInv
  <2> QED
    BY <2>3
<1>5. /\ \A r \in RtpId : r # n => rtp'[r] = rtp[r]
      /\ ~ rtp'[n].started
  BY <1>1, <1>3, <1>4 DEF CreateRtp
<1>6. \A d \in Client \ {c} : sess'[d] = sess[d]
  <2>1. PICK rtps, state : sess' = [sess EXCEPT ![c].rtps = rtps, ![c].state = state]
    BY <1>1 DEF CreateRtp
  <2> QED
    BY <1>3, <2>1 DEF SessionSet
<1>7. Playing' = Playing
  <2>1. \A d \in Client, r \in RtpId : r # n => (Has(d, r)' <=> Has(d, r))
    <3> SUFFICES ASSUME NEW d \in Client, NEW r \in RtpId, r # n
                 PROVE  sess'[d].rtps = <<r>> <=> sess[d].rtps = <<r>>
      BY DEF Has
    <3>1. <<r>> # <<>> /\ <<r>> # <<n>>
      OBVIOUS
    <3> QED
      BY <1>2, <1>4, <1>6, <3>1
  <2>2. \A d \in Client : ~ Has(d, n)
    BY <1>3, <1>4 DEF ListInv, ListsApart, Balanced, Has
  <2> QED
    BY <1>4, <1>5, <2>1, <2>2 DEF Playing
<1>8. ~ Nobody'
  BY <1>3, <1>4 DEF Nobody, Has
<1> QED
  BY <1>1, <1>7, <1>8 DEF CountInv, CountInHand, Behind

\* PLAY starts the session of its connection, and counts it in the next step.
LEMMA CountPlay ==
  ASSUME ServerInv, ListInv, CountInv, Balanced' => Balanced,
         \/ \E i \in DOMAIN conns : Play(i)
         \/ ScheduleStart \/ StartCounts \/ StartSkips \/ PlayReplies
  PROVE  CountInv'
<1> SUFFICES ASSUME Balanced' PROVE CountInv'
  BY DEF CountInv
<1>1. /\ CountInHand
      /\ play = Cardinality(Playing) + Behind
      /\ Nobody /\ pc \notin {"teardown", "teardownRemove"} => pool = Port
      /\ play \in Int /\ Cardinality(Playing) \in Nat
  BY PlayingFinite DEF CountInv, ServerInv, TypeOK
<1>2. ListsApart /\ ListsScheduled
  BY SMTT(30) DEF ListInv, Balanced
<1>3. UNCHANGED <<conns, pool>> /\ pc \in Quiet
  BY DEF Play, MayPlay, Reads, ScheduleStart, StartCounts, StartSkips, PlayReplies, Quiet
<1>4. \A c \in Client, r \in RtpId : Has(c, r)' <=> Has(c, r)
  <2>1. CASE PlayReplies
    <3>1. sess' = [sess EXCEPT ![Here].state = "PLAY"] /\ Here \in Client
      BY <2>1, HereIsClient DEF PlayReplies, SetState
    <3> QED
      BY <3>1, Types, SMTT(30) DEF Has, ServerInv, SessionSet
  <2>2. CASE ~ PlayReplies
    BY <2>2 DEF Play, ScheduleStart, StartCounts, StartSkips, Has
  <2> QED
    BY <2>1, <2>2
<1>5. Nobody' <=> Nobody
  BY <1>4 DEF Nobody
<1>6. CASE \E i \in DOMAIN conns : Play(i)
  <2>1. PICK i \in DOMAIN conns : Play(i)
    BY <1>6
  <2>2. /\ pc = "rest" /\ pc' = "start" /\ at' = i /\ todo' = sess[conns[i]].rtps
        /\ UNCHANGED <<rtp, play>>
    BY <2>1 DEF Play, MayPlay, Reads
  <2>3. todo' = <<>> \/ \E r \in RtpId : todo' = <<r>> /\ Has(conns[i], r)
    BY <1>2, <2>2, Types, ListTypes DEF ListsApart, Has, ServerInv
  <2>4. Here' = conns[i] /\ conns[i] \in Client
    BY <1>3, <2>2, Types DEF Here, ServerInv
  <2>5. CountInHand'
    <3>1. todo' = <<>> \/ \E r \in RtpId : todo' = <<r>> /\ Has(Here, r)'
      BY <1>4, <2>3, <2>4 DEF Has
    <3> QED
      BY <2>2, <3>1 DEF CountInHand
  <2>6. Playing' = Playing
    BY <1>4, <2>2 DEF Playing
  <2> QED
    BY <1>1, <1>3, <1>5, <2>2, <2>5, <2>6 DEF CountInv, Behind
<1>7. CASE ScheduleStart
  <2>1. /\ pc = "start" /\ pc' = "count" /\ todo # <<>> /\ ~ rtp[Head(todo)].started
        /\ UNCHANGED <<play, at, todo>>
    BY <1>7 DEF ScheduleStart
  <2>2. PICK r \in RtpId : todo = <<r>> /\ Has(Here, r)
    BY <1>1, <2>1 DEF CountInHand
  <2>3. Head(todo) = r /\ Here \in Client /\ Here' = Here
    BY <1>3, <2>1, <2>2, HereIsClient DEF Here
  <2>4. InUse(r)
    BY <1>2, <2>1, <2>2, <2>3 DEF ListsScheduled, Ending
  <2>5. rtp' = [q \in RtpId |-> IF q = r THEN [rtp[q] EXCEPT !.pause = FALSE, !.started = TRUE]
                                ELSE rtp[q]]
    <3>1. rtp[r].entry # NoEntry /\ sched[rtp[r].entry].rtp = r
      BY <2>4, SMTT(30) DEF InUse, NoEntry, Entry
    <3>2. rtp' = [q \in RtpId |-> IF q = sched[rtp[r].entry].rtp
                   THEN [rtp[q] EXCEPT !.pause = FALSE, !.started = TRUE] ELSE rtp[q]]
      BY <1>7, <2>3, <3>1 DEF ScheduleStart
    <3> QED
      BY <3>1, <3>2
  <2>6. rtp'[r].started /\ \A q \in RtpId : q # r => rtp'[q] = rtp[q]
    BY <2>5, Types DEF ServerInv, RtpSet
  <2>7. Playing' = Playing \union {r}
    BY <1>4, <2>2, <2>3, <2>6 DEF Playing
  <2>8. r \notin Playing
    BY <2>1, <2>3 DEF Playing
  <2>9. Cardinality(Playing') = Cardinality(Playing) + 1
    BY <2>7, <2>8, OneMore, PlayingFinite
  <2>10. CountInHand'
    <3>1. todo' = <<r>> /\ Has(Here, r)'
      BY <1>4, <2>1, <2>2, <2>3 DEF Has
    <3> QED
      BY <2>1, <2>3, <2>6, <3>1 DEF CountInHand
  <2> QED
    BY <1>1, <1>3, <1>5, <2>1, <2>9, <2>10, SMTT(30) DEF CountInv, Behind
<1>8. CASE StartCounts \/ StartSkips
  <2>1. /\ pc' = "start" /\ todo # <<>> /\ todo' = Tail(todo) /\ pc \in {"start", "count"}
        /\ play' = play - Behind /\ UNCHANGED rtp
    BY <1>1, <1>8 DEF StartCounts, StartSkips, ServerInv, InHand, Behind
  <2>2. todo' = <<>>
    BY <1>1, <2>1 DEF CountInHand
  <2>3. Playing' = Playing
    BY <1>4, <2>1 DEF Playing
  <2> QED
    BY <1>1, <1>3, <1>5, <2>1, <2>2, <2>3 DEF CountInv, CountInHand, Behind
<1>9. CASE PlayReplies
  <2>1. pc = "start" /\ pc' = "rest" /\ UNCHANGED <<rtp, play>>
    BY <1>9 DEF PlayReplies, Rest
  <2>2. Playing' = Playing
    BY <1>4, <2>1 DEF Playing
  <2> QED
    BY <1>1, <1>3, <1>5, <2>1, <2>2 DEF CountInv, CountInHand, Behind
<1> QED
  BY <1>6, <1>7, <1>8, <1>9

\* An ending that is in step subtracts what its connection added.
LEMMA InStep ==
  ASSUME ServerInv, ListInv, Regular, NEW c \in Client
  PROVE  /\ ~ Unplayed(c, Len(sess[c].rtps)) =>
              sess[c].rtps = <<>> \/ \E r \in RtpId : Has(c, r) /\ rtp[r].started
         /\ ~ Unplayed(c, 1) => \E r \in RtpId : Has(c, r) /\ rtp[r].started
<1> DEFINE added == {i \in DOMAIN sess[c].rtps : rtp[sess[c].rtps[i]].started}
<1>1. CASE sess[c].rtps = <<>>
  <2>1. added = {}
    BY <1>1
  <2>2. Cardinality(added) = 0
    BY <2>1, FS_EmptySet
  <2> QED
    BY <1>1, <2>2 DEF Unplayed
<1>2. CASE sess[c].rtps # <<>>
  <2>1. PICK r \in RtpId : sess[c].rtps = <<r>>
    BY <1>2, ListTypes DEF ListInv, ListsApart, Has
  <2>2. Len(sess[c].rtps) = 1
    BY <2>1
  <2>3. rtp[r].started \/ added = {}
    BY <2>1
  <2>4. rtp[r].started \/ Cardinality(added) = 0
    BY <2>3, FS_EmptySet
  <2> QED
    BY <2>1, <2>2, <2>4 DEF Unplayed, Has
<1> QED
  BY <1>1, <1>2

LEMMA CountBegins ==
  ASSUME ServerInv, ListInv, CountInv, Regular' => Regular, NEW i \in DOMAIN conns,
         Teardown(i) \/ Truncated(i)
  PROVE  CountInv'
<1> SUFFICES ASSUME Balanced' PROVE CountInv'
  BY DEF CountInv
<1>1. /\ pc = "rest" /\ pc' \in {"teardown", "abort"} /\ at' = i /\ todo' = sess[conns[i]].rtps
      /\ UNCHANGED <<conns, sess, rtp, play, pool>>
  BY DEF Teardown, Truncated, Reads
<1>2. Balanced
  BY DEF Balanced, Teardown, Truncated
<1>3. conns[i] \in Client /\ Here' = conns[i]
  BY <1>1, Types DEF ServerInv, Here
<1>4. /\ pc' = "teardown" =>
           todo' = <<>> \/ \E r \in RtpId : Has(conns[i], r) /\ rtp[r].started
      /\ pc' = "abort" => \E r \in RtpId : Has(conns[i], r) /\ rtp[r].started
  BY <1>1, <1>2, <1>3, InStep DEF Balanced, Teardown, Truncated
<1>5. CountInHand'
  <2>1. pc' = "teardown" /\ todo' # <<>> => rtp[Head(todo')].started
    <3> SUFFICES ASSUME pc' = "teardown", todo' # <<>> PROVE rtp[Head(todo')].started
      OBVIOUS
    <3>1. PICK r \in RtpId : sess[conns[i]].rtps = <<r>> /\ rtp[r].started
      BY <1>4 DEF Has
    <3> QED
      BY <1>1, <3>1
  <2> QED
    BY <1>1, <1>3, <1>4, <2>1 DEF CountInHand, Has
<1>6. Playing' = Playing /\ (Nobody' <=> Nobody)
  BY <1>1 DEF Playing, Nobody, Has
<1> QED
  BY <1>1, <1>2, <1>5, <1>6 DEF CountInv, Behind

\* A session that plays goes off the list of its client.
LEMMA PlayerLeaves ==
  ASSUME ServerInv, ListInv, Regular, NEW c \in Client, NEW r \in RtpId,
         Has(c, r), rtp[r].started, sess'[c].rtps = <<>>,
         \A d \in Client \ {c} : sess'[d].rtps = sess[d].rtps,
         \A q \in RtpId : rtp'[q].started = rtp[q].started
  PROVE  Cardinality(Playing') = Cardinality(Playing) - 1
<1>1. \A d \in Client : Has(d, r) => d = c
  BY DEF ListInv, ListsApart
<1>2. \A d \in Client, q \in RtpId : Has(d, q)' <=> d # c /\ Has(d, q)
  <2> SUFFICES ASSUME NEW d \in Client, NEW q \in RtpId
               PROVE  sess'[d].rtps = <<q>> <=> d # c /\ sess[d].rtps = <<q>>
    BY DEF Has
  <2>1. <<q>> # <<>>
    OBVIOUS
  <2> QED
    BY <2>1
<1>3. \A q \in RtpId : Has(c, q) => q = r
  BY DEF Has
<1>4. Playing' = Playing \ {r} /\ r \in Playing
  BY <1>1, <1>2, <1>3 DEF Playing
<1> QED
  BY <1>4, OneLess, PlayingFinite

LEMMA CountDelete ==
  ASSUME ServerInv, ListInv, CountInv, Balanced' => Balanced, Delete
  PROVE  CountInv'
<1> SUFFICES ASSUME Balanced' PROVE CountInv'
  BY DEF CountInv
<1>1. /\ CountInHand
      /\ play = Cardinality(Playing) + Behind
      /\ Nobody /\ pc \notin {"teardown", "teardownRemove"} => pool = Port
      /\ play \in Int /\ Cardinality(Playing) \in Nat /\ Regular
  BY PlayingFinite DEF CountInv, ServerInv, TypeOK, Balanced
<1>2. /\ pc \in {"teardown", "abort"} /\ todo # <<>>
      /\ pc' = (IF pc = "teardown" THEN "teardownRemove" ELSE "abortRemove")
      /\ UNCHANGED <<conns, at, todo, play, pool>>
  BY DEF Delete
<1>3. PICK r \in RtpId : todo = <<r>> /\ Head(todo) = r /\ Tail(todo) = <<>> /\ InUse(r)
  BY <1>1, <1>2, TakenOut
<1>4. Here \in Client /\ Has(Here, r) /\ Here' = Here
  <2>1. todo = Now.rtps
    BY <1>1, <1>2 DEF ListInv, TakesOut, ServerInv, InHand
  <2> QED
    BY <1>2, <1>3, <2>1, HereIsClient DEF Has, Now, Here
<1>5. \A q \in RtpId : rtp'[q].started = rtp[q].started
  BY <1>3, Types DEF Delete, ServerInv, RtpSet
<1>6. CASE pc = "teardown"
  <2>1. sess' = [sess EXCEPT ![Here].rtps = <<>>]
    BY <1>3, <1>4, <1>6 DEF Delete, Has
  <2>2. /\ sess'[Here].rtps = <<>>
        /\ \A d \in Client \ {Here} : sess'[d].rtps = sess[d].rtps
    BY <1>4, <2>1, Types DEF ServerInv, SessionSet
  <2>3. rtp[r].started
    BY <1>1, <1>2, <1>3, <1>6 DEF CountInHand
  <2>4. Cardinality(Playing') = Cardinality(Playing) - 1
    BY <1>1, <1>4, <1>5, <2>2, <2>3, PlayerLeaves
  <2> QED
    BY <1>1, <1>2, <1>6, <2>4 DEF CountInv, CountInHand, Behind
<1>7. CASE pc = "abort"
  <2>1. UNCHANGED sess /\ pc' = "abortRemove"
    BY <1>2, <1>7 DEF Delete
  <2>2. Playing' = Playing /\ (Nobody' <=> Nobody)
    BY <1>5, <2>1 DEF Playing, Nobody, Has
  <2>3. CountInHand'
    <3>1. PICK q \in RtpId : Has(Here, q) /\ rtp[q].started
      BY <1>1, <1>7 DEF CountInHand
    <3>2. Has(Here, q)' /\ rtp'[q].started
      BY <1>4, <1>5, <2>1, <3>1 DEF Has
    <3> QED
      BY <2>1, <3>2 DEF CountInHand
  <2> QED
    BY <1>1, <1>2, <1>7, <2>1, <2>2, <2>3 DEF CountInv, Behind
<1> QED
  BY <1>2, <1>6, <1>7

LEMMA CountUnschedule ==
  ASSUME ServerInv, ListInv, CountInv, Balanced' => Balanced, Unschedule
  PROVE  CountInv'
<1> SUFFICES ASSUME Balanced' PROVE CountInv'
  BY DEF CountInv
<1>1. /\ CountInHand
      /\ play = Cardinality(Playing) + Behind
      /\ Nobody /\ pc \notin {"teardown", "teardownRemove"} => pool = Port
      /\ play \in Int /\ Cardinality(Playing) \in Nat /\ Regular
  BY PlayingFinite DEF CountInv, ServerInv, TypeOK, Balanced
<1>2. /\ pc \in {"teardownRemove", "abortRemove"} /\ todo # <<>> /\ todo' = Tail(todo)
      /\ pc' = (IF pc = "teardownRemove" THEN "teardown" ELSE "abort")
      /\ play' = (IF pc = "teardownRemove" THEN play - 1 ELSE play)
      /\ UNCHANGED <<conns, sess, rtp, at, pool>>
  BY DEF Unschedule, ServerInv, InHand
<1>3. todo' = <<>>
  BY <1>1, <1>2, TakenOut
<1>4. Playing' = Playing /\ (Nobody' <=> Nobody) /\ Here' = Here
  BY <1>2 DEF Playing, Nobody, Has, Here
<1>5. CountInHand'
  <2>1. pc = "abortRemove" => (\E q \in RtpId : Has(Here, q) /\ rtp[q].started)'
    BY <1>1, <1>2, <1>4 DEF CountInHand, Has
  <2> QED
    BY <1>2, <1>3, <2>1 DEF CountInHand
<1> QED
  BY <1>1, <1>2, <1>4, <1>5 DEF CountInv, Behind

\* When the last player has gone the count is zero, and the pool is filled again.
LEMMA CountEnds ==
  ASSUME ServerInv, ListInv, CountInv, Balanced' => Balanced,
         TeardownEnds \/ AbortEnds \/ \E i \in DOMAIN conns : Closed(i)
  PROVE  CountInv'
<1> SUFFICES ASSUME Balanced' PROVE CountInv'
  BY DEF CountInv
<1>1. /\ CountInHand
      /\ play = Cardinality(Playing) + Behind
      /\ Nobody /\ pc \notin {"teardown", "teardownRemove"} => pool = Port
      /\ play \in Int /\ Cardinality(Playing) \in Nat /\ Regular
  BY PlayingFinite DEF CountInv, ServerInv, TypeOK, Balanced
<1>2. pc' = "rest" /\ UNCHANGED rtp
  BY DEF TeardownEnds, AbortEnds, Closed, Unlink, Rest
<1>3. Nobody' => Cardinality(Playing') = 0
  <2>1. Nobody' => Playing' = {}
    BY DEF Nobody, Playing
  <2> QED
    BY <2>1, FS_EmptySet
<1>4. ASSUME NEW c \in Client, sess' = [sess EXCEPT ![c] = NoSession]
      PROVE  /\ sess'[c].rtps = <<>>
             /\ \A d \in Client \ {c} : sess'[d].rtps = sess[d].rtps
             /\ sess[c].rtps = <<>> => \A d \in Client, r \in RtpId : Has(d, r)' <=> Has(d, r)
  <2>1. /\ sess'[c].rtps = <<>>
        /\ \A d \in Client \ {c} : sess'[d].rtps = sess[d].rtps
    BY <1>4, Types DEF NoSession, ServerInv
  <2>2. sess[c].rtps = <<>> => \A d \in Client : sess'[d].rtps = sess[d].rtps
    BY <2>1
  <2> QED
    BY <2>1, <2>2 DEF Has
<1>5. CASE TeardownEnds
  <2>1. /\ pc = "teardown" /\ sess' = [sess EXCEPT ![Here] = NoSession] /\ UNCHANGED play
        /\ play = 0 => pool' = Port
    BY <1>5 DEF TeardownEnds, RefillPool
  <2>2. Here \in Client /\ sess[Here].rtps = <<>>
    BY <1>5, HereIsClient DEF TeardownEnds, ServerInv, InHand, Now
  <2>3. \A d \in Client, r \in RtpId : Has(d, r)' <=> Has(d, r)
    BY <1>4, <2>1, <2>2
  <2>4. Playing' = Playing
    BY <1>2, <2>3 DEF Playing
  <2>5. play' = Cardinality(Playing') /\ (Nobody' => pool' = Port)
    BY <1>1, <1>3, <2>1, <2>4 DEF Behind
  <2>6. Cardinality(Playing') \in Int
    BY <1>1, <2>4
  <2> QED
    BY <1>2, <2>5, <2>6 DEF CountInv, CountInHand, Behind
<1>6. CASE AbortEnds
  <2>1. /\ pc = "abort" /\ sess' = [sess EXCEPT ![Here] = NoSession] /\ play' = play - 1
        /\ play - 1 = 0 => pool' = Port
    BY <1>6 DEF AbortEnds, AbortCounted, RefillPool, Unlink, Here
  <2>2. Here \in Client
    BY <2>1, HereIsClient
  <2>3. PICK r \in RtpId : Has(Here, r) /\ rtp[r].started
    BY <1>1, <2>1 DEF CountInHand
  <2>4. Cardinality(Playing') = Cardinality(Playing) - 1
    BY <1>1, <1>2, <1>4, <2>1, <2>2, <2>3, PlayerLeaves
  <2>5. play' = Cardinality(Playing') /\ (Nobody' => pool' = Port)
    BY <1>1, <1>3, <2>1, <2>4 DEF Behind
  <2>6. Cardinality(Playing') \in Int
    BY <1>1, <2>4
  <2> QED
    BY <1>2, <2>5, <2>6 DEF CountInv, CountInHand, Behind
<1>7. ASSUME NEW i \in DOMAIN conns, Closed(i) PROVE CountInv'
  <2>1. /\ pc = "rest" /\ ~ sess[conns[i]].open /\ UNCHANGED <<play, pool>>
        /\ sess' = [sess EXCEPT ![conns[i]] = NoSession]
    BY <1>7 DEF Closed, Unlink
  <2>2. conns[i] \in Client /\ sess[conns[i]].rtps = <<>>
    BY <1>1, <2>1, Types DEF ListInv, ListsApart, ServerInv
  <2>3. \A d \in Client, r \in RtpId : Has(d, r)' <=> Has(d, r)
    BY <1>4, <2>1, <2>2
  <2>4. Playing' = Playing /\ (Nobody' <=> Nobody)
    BY <1>2, <2>3 DEF Playing, Nobody
  <2> QED
    BY <1>1, <1>2, <2>1, <2>4 DEF CountInv, CountInHand, Behind
<1> QED
  BY <1>5, <1>6, <1>7

LEMMA CountInit == Init => CountInv
<1> SUFFICES ASSUME Init PROVE CountInv
  OBVIOUS
<1>1. Playing = {}
  BY DEF Init, Playing
<1>2. Cardinality(Playing) = 0
  BY <1>1, FS_EmptySet
<1> QED
  BY <1>2 DEF Init, CountInv, CountInHand, Behind

LEMMA BalancedBefore ==
  ASSUME ServerInv, [Next]_vars, Balanced'
  PROVE  Balanced /\ Regular /\ irregular' = irregular
<1>1. unplayed => unplayed'
  BY DEF Next, Main, Request, Scheduler, Accept, Options, SetupMalformed, SetupRefused, Setup,
     ScheduleFill, PlayRefused, Play, ScheduleStart, StartCounts, StartSkips, PlayReplies,
     Teardown, Truncated, Delete, Unschedule, TeardownEnds, AbortEnds, Closed, Unlink,
     Gate, TestValid, LookPause, MarkBegin, Send, SendEnds, control, past, vars
<1> QED
  BY <1>1, RegularBefore, SMTT(30) DEF Balanced

LEMMA CountStep ==
  ASSUME ServerInv, ListInv, CountInv, [Next]_vars
  PROVE  CountInv'
<1>1. /\ Balanced' => Balanced /\ irregular' = irregular
      /\ Regular' => Regular
  BY BalancedBefore, RegularBefore
<1>2. CASE UNCHANGED vars \/ Scheduler
  <2>1. UNCHANGED control
    BY <1>2 DEF vars, Scheduler, Gate, TestValid, LookPause, MarkBegin, Send, SendEnds
  <2>2. \A c \in Client, r \in RtpId : Has(c, r)' <=> Has(c, r)
    BY <2>1 DEF control, Has
  <2> QED
    BY <1>1, <2>1, <2>2, CountKept DEF control, main
<1>3. ASSUME NEW c \in Client, Accept(c) PROVE CountInv'
  <2> SUFFICES ASSUME Balanced' PROVE CountInv'
    BY DEF CountInv
  <2>1. /\ pc = "rest" /\ UNCHANGED <<rtp, pool, play, main>>
        /\ sess' = [sess EXCEPT ![c] = NewSession]
    BY <1>3 DEF Accept
  <2>2. sess[c].rtps = <<>>
    BY <1>1, <1>3 DEF Accept, ListInv, ListsApart, Balanced
  <2>3. \A d \in Client : sess'[d].rtps = sess[d].rtps
    BY <2>1, <2>2, Types DEF NewSession, NoSession, ServerInv
  <2>4. \A d \in Client, r \in RtpId : Has(d, r)' <=> Has(d, r)
    BY <2>3 DEF Has
  <2> QED
    BY <1>1, <2>1, <2>4, CountKept DEF main
<1>4. ASSUME NEW i \in DOMAIN conns, Request(i) PROVE CountInv'
  <2>1. CASE SetupRefused(i)
    <3>1. irregular' = irregular + 1 /\ irregular \in Nat
      BY <2>1, Types DEF SetupRefused, Irregularly, ServerInv
    <3> QED
      BY <3>1 DEF CountInv, Balanced, Regular
  <2>2. CASE Options(i) \/ SetupMalformed(i) \/ PlayRefused(i)
    <3>1. /\ pc = "rest" /\ UNCHANGED <<rtp, pool, play, main>>
          /\ \E state \in {"INIT", "READY", "PLAY"} :
               sess' = [sess EXCEPT ![conns[i]].state = state]
      BY <2>2 DEF Options, SetupMalformed, PlayRefused, MaySetup, MayPlay, Reads, SetState
    <3>2. \A d \in Client : sess'[d].rtps = sess[d].rtps
      BY <3>1, Types DEF ServerInv, SessionSet
    <3>3. \A d \in Client, r \in RtpId : Has(d, r)' <=> Has(d, r)
      BY <3>2 DEF Has
    <3> QED
      BY <1>1, <3>1, <3>3, CountKept DEF main
  <2>3. CASE Setup(i)
    BY <1>1, <2>3, CountSetup
  <2>4. CASE Play(i)
    BY <1>1, <2>4, CountPlay
  <2>5. CASE Teardown(i) \/ Truncated(i)
    BY <1>1, <2>5, CountBegins
  <2>6. CASE Closed(i)
    BY <1>1, <2>6, CountEnds
  <2> QED
    BY <1>4, <2>1, <2>2, <2>3, <2>4, <2>5, <2>6 DEF Request
<1>5. CASE ScheduleFill
  <2>1. /\ pc = "add" /\ pc' = "rest" /\ UNCHANGED <<pool, play>>
        /\ sess' = [sess EXCEPT ![Here].state = "READY"] /\ Here \in Client
        /\ \E entry : rtp' = [rtp EXCEPT ![Head(Now.rtps)].entry = entry]
    BY <1>5, HereIsClient DEF ScheduleFill, SetState, Rest
  <2>2. \A d \in Client : sess'[d].rtps = sess[d].rtps
    BY <2>1, Types DEF ServerInv, SessionSet
  <2>3. \A r \in RtpId : rtp'[r].started = rtp[r].started
    BY <2>1, Types DEF ServerInv, RtpSet
  <2>4. Playing' = Playing /\ (Nobody' <=> Nobody)
    BY <2>2, <2>3 DEF Playing, Nobody, Has
  <2> QED
    BY <1>1, <2>1, <2>4 DEF CountInv, CountInHand, Behind
<1>6. CASE \/ ScheduleStart \/ StartCounts \/ StartSkips \/ PlayReplies
           \/ Delete \/ Unschedule \/ TeardownEnds \/ AbortEnds
  BY <1>1, <1>6, CountPlay, CountDelete, CountUnschedule, CountEnds
<1> QED
  BY <1>2, <1>3, <1>4, <1>5, <1>6 DEF Next, Main

LEMMA CountHolds == Spec => [](ServerInv /\ ListInv /\ CountInv)
<1>1. Init => ServerInv /\ ListInv /\ CountInv
  BY ServerInit, ListInit, CountInit
<1>2. ServerInv /\ ListInv /\ CountInv /\ [Next]_vars => (ServerInv /\ ListInv /\ CountInv)'
  BY ServerStep, ListStep, CountStep
<1> QED
  BY <1>1, <1>2, PTL DEF Spec

\* The lists of the clients, seen as who has what.
LEMMA ListedHas ==
  ASSUME ServerInv, ListInv, Regular
  PROVE  \A r : r \in Listed <=> r \in RtpId /\ \E c \in Client : Has(c, r)
<1>1. ASSUME NEW c \in Client, NEW r PROVE r \in RtpsOf(c) <=> r \in RtpId /\ Has(c, r)
  <2>1. CASE sess[c].rtps = <<>>
    BY <2>1 DEF RtpsOf, Has
  <2>2. CASE sess[c].rtps # <<>>
    <3>1. PICK q \in RtpId : sess[c].rtps = <<q>>
      BY <2>2, ListTypes DEF ListInv, ListsApart, Has
    <3> QED
      BY <3>1 DEF RtpsOf, Has
  <2> QED
    BY <2>1, <2>2
<1> QED
  BY <1>1 DEF Listed

(* g_s32DoPlay is the number of sessions that play, for every number of clients, as long
   as every ending subtracted what its connection had added. *)
THEOREM RtspServerCountIsExact == Spec => []CountIsExact
<1>1. ServerInv /\ ListInv /\ CountInv => CountIsExact
  <2> SUFFICES ASSUME ServerInv, ListInv, CountInv, Balanced, pc = "rest"
               PROVE  play = Cardinality({r \in Listed : rtp[r].started})
    BY DEF CountIsExact
  <2>1. {r \in Listed : rtp[r].started} = Playing
    BY ListedHas DEF Playing, Balanced
  <2>2. Cardinality(Playing) \in Int
    BY PlayingFinite
  <2>3. play = Cardinality(Playing) + 0
    BY DEF CountInv, Behind
  <2>4. play = Cardinality(Playing)
    BY <2>2, <2>3
  <2> QED
    BY <2>1, <2>4
<1> QED
  BY <1>1, CountHolds, PTL

(* However many ports there are and in whatever order the sessions end, they are all in
   the pool again when none is left. *)
THEOREM RtspServerPortsComeBack == Spec => []PortsComeBack
<1>1. ServerInv /\ ListInv /\ CountInv => PortsComeBack
  <2> SUFFICES ASSUME ServerInv, ListInv, CountInv, Balanced, pc = "rest", Listed = {}
               PROVE  pool = Port
    BY DEF PortsComeBack
  <2>1. Nobody
    BY ListedHas DEF Nobody, Balanced
  <2> QED
    BY <2>1 DEF CountInv
<1> QED
  BY <1>1, CountHolds, PTL
=============================================================================
