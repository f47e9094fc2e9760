----------------------------- MODULE RtspServer -----------------------------
(***************************************************************************)
(* The control side of the RTSP server (ashwing-rtspserver).  The main     *)
(* thread goes round the list of connections and carries out their         *)
(* requests: SETUP puts an RTP session into the schedule list, PLAY starts *)
(* it, TEARDOWN or the end of the connection takes it out again; between   *)
(* them they count the players (g_s32DoPlay).  The schedule thread walks   *)
(* through the same list and sends the current frame to every session that *)
(* plays.  No lock is between the two (mut is created and never taken), so *)
(* a step of a thread is one access to what they share.                    *)
(*                                                                         *)
(* A visit that reads nothing, or a request without consequences, changes  *)
(* no variable; so main may go from any connection to any other, and where *)
(* it is in its round is left out.  Requests arrive whole, one per read.   *)
(* The ports are the numbers of the pairs.                                 *)
(***************************************************************************)
EXTENDS Integers, Sequences, FiniteSets, FiniteSetsExt, SequencesExt

CONSTANTS
  Client,          \* who may connect; a client has one connection at a time
  MAX_CONNECTION,  \* connections, entries of the schedule list, pairs of ports
  MaxRegular,      \* bound: how many SETUPs are granted and the first of their connection
  MaxIrregular,    \* bound: how many others create an RTP session
  MaxBelow         \* bound: how far g_s32DoPlay may fall below zero

ASSUME ConnectionAssumption == MAX_CONNECTION \in Nat \ {0}
ASSUME BoundAssumption == MaxRegular \in Nat /\ MaxIrregular \in Nat /\ MaxBelow \in Nat

Entry == 0 .. MAX_CONNECTION - 1
Port == 0 .. MAX_CONNECTION - 1
RtpId == 1 .. MaxRegular + MaxIrregular
NoEntry == -1     \* schedule_add found the list full
NULL == 0         \* the pointer of an entry never filled in

VARIABLES
  conns,     \* pRtspList: the connected clients, oldest first
  sess,      \* each client's RTSP session: whether it exists, its state, its RTP sessions
  rtp,       \* the RTP sessions ever created (they are never freed)
  nRtp,      \* how many there are
  sched,     \* the schedule list
  pool,      \* the ports s_uPortPool still has
  play,      \* g_s32DoPlay
  up,        \* the process lives: no NULL pointer was followed
  pc, at,    \* main: what it does, and the position of the connection it does it for
  todo,      \* main: the RTP sessions the loop of PLAY or of an ending still has to visit
  ent,       \* main: the entry schedule_add found
  spc, se,   \* schedule thread: what it does, and the entry it is at
  frame,     \* schedule thread: the type of the frame in ringinfo; "new" is not looked at yet
  hnd,       \* schedule thread: the RTP session whose handle RtpSend works with
  irregular, \* history: how many SETUPs created an RTP session and were refused or not the first
  unplayed,  \* history: an ending subtracted from the count what it had not added
  crossed,   \* history: main added or removed the entry while the schedule thread was at it
  smudged,   \* history: entries whose BeginFrame was set in such a visit
  begun      \* history: the scheduled RTP sessions that were sent a frame

main == <<pc, at, todo, ent>>
visit == <<spc, se, frame, hnd>>
marks == <<crossed, smudged, begun>>
past == <<irregular, unplayed>>
control == <<conns, sess, rtp, nRtp, pool, play, main, past>>
vars == <<control, sched, up, visit, marks>>

NoSession == [open |-> FALSE, state |-> "INIT", rtps |-> <<>>]
NewSession == [NoSession EXCEPT !.open = TRUE]     \* RTSP_initserver

Init ==
  /\ conns = <<>>
  /\ sess = [c \in Client |-> NoSession]
  /\ rtp = [r \in RtpId |-> [pause |-> TRUE, started |-> FALSE, handle |-> "none", entry |-> 0]]
  /\ nRtp = 0
  /\ sched = [e \in Entry |-> [valid |-> FALSE, rtp |-> NULL, begin |-> FALSE]]
  /\ pool = Port
  /\ play = 0
  /\ up = TRUE
  /\ pc = "rest" /\ at = 1 /\ todo = <<>> /\ ent = NoEntry
  /\ spc = "gate" /\ se = 0 /\ frame = "unset" /\ hnd = NULL
  /\ irregular = 0 /\ unplayed = FALSE
  /\ crossed = FALSE /\ smudged = {} /\ begun = {}

\* the client whose request main carries out, and its RTSP session
Here == conns[at]
Now == sess[Here]

\* main reads from the connection at position i, whose RTSP session exists
Reads(i) == up /\ pc = "rest" /\ sess[conns[i]].open

\* the request is done
Rest == pc' = "rest" /\ at' = 1 /\ todo' = <<>> /\ ent' = NoEntry

SetState(c, state) == sess' = [sess EXCEPT ![c].state = state]

\* the schedule thread is between its test of valid and the end of its work on e
Holds(e) == se = e /\ spc \in {"look", "mark", "send", "sending"}
-----------------------------------------------------------------------------
(* Connections and OPTIONS *)

\* a client beyond MAX_CONNECTION is accepted and never looked at: no step
Accept(c) ==
  /\ up /\ pc = "rest"
  /\ \A i \in DOMAIN conns : conns[i] # c
  /\ Len(conns) < MAX_CONNECTION
  /\ conns' = Append(conns, c)
  /\ sess' = [sess EXCEPT ![c] = NewSession]
  /\ UNCHANGED <<rtp, nRtp, sched, pool, play, up, main, visit, past, marks>>

\* OPTIONS puts a session that was ready back into INIT
Options(i) ==
  /\ Reads(i) /\ sess[conns[i]].state = "READY"
  /\ SetState(conns[i], "INIT")
  /\ UNCHANGED <<conns, rtp, nRtp, sched, pool, play, up, main, visit, past, marks>>
-----------------------------------------------------------------------------
(* SETUP *)

MaySetup(i) == Reads(i) /\ sess[conns[i]].state \in {"INIT", "READY"}

\* refused before anything is created (406, 400): the reply still makes the session ready
SetupMalformed(i) ==
  /\ MaySetup(i)
  /\ SetState(conns[i], "READY")
  /\ UNCHANGED <<conns, rtp, nRtp, sched, pool, play, up, main, visit, past, marks>>

\* a paused RTP session at the end of the client's list; calloc makes its sched_id 0
CreateRtp(c, handle, state) ==
  /\ nRtp' = nRtp + 1
  /\ rtp' = [rtp EXCEPT ![nRtp + 1] =
               [pause |-> TRUE, started |-> FALSE, handle |-> handle, entry |-> 0]]
  /\ sess' = [sess EXCEPT ![c].rtps = Append(@, nRtp + 1), ![c].state = state]

TakePort == pool # {} /\ pool' = pool \ {Min(pool)}

\* RtpCreate may fail, which nobody looks at
Created == {"live", "none"}

\* counts a SETUP that is refused, or not the first of its connection.  Bound: it comes
\* between two passes of the schedule thread, and Gate lets no pass follow.
Irregularly ==
  /\ spc = "gate"
  /\ irregular < MaxIrregular
  /\ irregular' = irregular + 1

\* refused when the RTP session is in the client's list already, and left there: transport
\* (461), no ports (500, which does not make the session ready), session header (454)
SetupRefused(i) ==
  LET c == conns[i] IN
  /\ MaySetup(i)
  /\ Irregularly
  /\ \/ CreateRtp(c, "none", "READY") /\ UNCHANGED pool
     \/ pool = {} /\ CreateRtp(c, "none", sess[c].state) /\ UNCHANGED pool
     \/ TakePort /\ \E handle \in Created : CreateRtp(c, handle, "READY")
  /\ UNCHANGED <<conns, sched, play, up, main, visit, unplayed, marks>>

EveryEntry == Entry
FreeEntries == {e \in Entry : ~ sched[e].valid}

\* granted: multicast, which has no handle, or a port and RtpCreate; then schedule_add up
\* to valid = 1
Setup(i) ==
  LET c == conns[i] IN
  /\ MaySetup(i)
  /\ \/ sess[c].rtps = <<>> /\ nRtp - irregular < MaxRegular /\ UNCHANGED irregular
     \/ sess[c].rtps # <<>> /\ Irregularly
  /\ \/ CreateRtp(c, "none", sess[c].state) /\ UNCHANGED pool
     \/ TakePort /\ \E handle \in Created : CreateRtp(c, handle, sess[c].state)
  /\ ent' = (IF FreeEntries = {} THEN NoEntry ELSE Min(FreeEntries))
  /\ sched' = [e \in Entry |-> IF e = ent' THEN [sched[e] EXCEPT !.valid = TRUE] ELSE sched[e]]
  /\ pc' = "add" /\ at' = i /\ todo' = <<nRtp + 1>>
  /\ UNCHANGED <<conns, play, up, visit, unplayed, marks>>

\* the rest of schedule_add; its result goes to the first RTP session of the list
ScheduleFill ==
  /\ up /\ pc = "add"
  /\ sched' = [e \in Entry |-> IF e = ent THEN [sched[e] EXCEPT !.rtp = Head(todo)] ELSE sched[e]]
  /\ rtp' = [rtp EXCEPT ![Head(Now.rtps)].entry = ent]
  /\ SetState(Here, "READY")
  /\ crossed' = (crossed \/ Holds(ent))
  /\ Rest
  /\ UNCHANGED <<conns, nRtp, pool, play, up, visit, past, smudged, begun>>
-----------------------------------------------------------------------------
(* PLAY *)

MayPlay(i) == Reads(i) /\ sess[conns[i]].state = "READY"

\* the wrong session or none: an error reply, and the session counts as playing all the same
PlayRefused(i) ==
  /\ MayPlay(i)
  /\ SetState(conns[i], "PLAY")
  /\ UNCHANGED <<conns, rtp, nRtp, sched, pool, play, up, main, visit, past, marks>>

Play(i) ==
  /\ MayPlay(i)
  /\ pc' = "start" /\ at' = i /\ todo' = sess[conns[i]].rtps
  /\ UNCHANGED <<conns, sess, rtp, nRtp, sched, pool, play, up, ent, visit, past, marks>>

\* schedule_start up to started = 1, for the session the entry points to; an entry never
\* filled in is a NULL pointer, and sched[-1] may end the process or change nothing here
ScheduleStart ==
  /\ up /\ pc = "start" /\ todo # <<>> /\ ~ rtp[Head(todo)].started
  /\ LET e == rtp[Head(todo)].entry
     IN  \/ e = NoEntry /\ up' \in BOOLEAN /\ UNCHANGED rtp
         \/ /\ e # NoEntry
            /\ up' = (sched[e].rtp # NULL)
            /\ rtp' = [r \in RtpId |-> IF r = sched[e].rtp
                         THEN [rtp[r] EXCEPT !.pause = FALSE, !.started = TRUE] ELSE rtp[r]]
  /\ pc' = "count"
  /\ UNCHANGED <<conns, sess, nRtp, sched, pool, play, at, todo, ent, visit, past, marks>>

StartCounts ==
  /\ up /\ pc = "count"
  /\ play' = play + 1
  /\ pc' = "start" /\ todo' = Tail(todo)
  /\ UNCHANGED <<conns, sess, rtp, nRtp, sched, pool, up, at, ent, visit, past, marks>>

\* started by an earlier turn of the loop, through an entry that was not its own
StartSkips ==
  /\ up /\ pc = "start" /\ todo # <<>> /\ rtp[Head(todo)].started
  /\ todo' = Tail(todo)
  /\ UNCHANGED <<conns, sess, rtp, nRtp, sched, pool, play, up, pc, at, ent, visit, past, marks>>

PlayReplies ==
  /\ up /\ pc = "start" /\ todo = <<>>
  /\ SetState(Here, "PLAY")
  /\ Rest
  /\ UNCHANGED <<conns, rtp, nRtp, sched, pool, play, up, visit, past, marks>>
-----------------------------------------------------------------------------
(* TEARDOWN and the end of a connection *)

\* an ending that does not subtract what its connection had added
Unplayed(c, subtracts) ==
  LET added == {i \in DOMAIN sess[c].rtps : rtp[sess[c].rtps[i]].started}
  IN  Cardinality(added) # subtracts

\* TEARDOWN that names the session, in any state
Teardown(i) ==
  /\ Reads(i)
  /\ play - Len(sess[conns[i]].rtps) >= -MaxBelow
  /\ unplayed' = (unplayed \/ Unplayed(conns[i], Len(sess[conns[i]].rtps)))
  /\ pc' = "teardown" /\ at' = i /\ todo' = sess[conns[i]].rtps
  /\ UNCHANGED <<conns, sess, rtp, nRtp, sched, pool, play, up, ent, visit, irregular, marks>>

\* the client closed, or its socket failed, with its RTSP session still there
Truncated(i) ==
  /\ Reads(i)
  /\ play > -MaxBelow
  /\ unplayed' = (unplayed \/ Unplayed(conns[i], 1))
  /\ pc' = "abort" /\ at' = i /\ todo' = sess[conns[i]].rtps
  /\ UNCHANGED <<conns, sess, rtp, nRtp, sched, pool, play, up, ent, visit, irregular, marks>>

\* RtpDelete frees the handle; TEARDOWN has taken the session off the client's list before
Delete ==
  /\ up /\ pc \in {"teardown", "abort"} /\ todo # <<>>
  /\ rtp' = [rtp EXCEPT ![Head(todo)].handle = IF @ = "live" THEN "dead" ELSE @]
  /\ sess' = (IF pc = "teardown" THEN [sess EXCEPT ![Here].rtps = Tail(@)] ELSE sess)
  /\ pc' = (IF pc = "teardown" THEN "teardownRemove" ELSE "abortRemove")
  /\ UNCHANGED <<conns, nRtp, sched, pool, play, up, at, todo, ent, visit, past, marks>>

UnmarkedEntry(entry) == [entry EXCEPT !.valid = FALSE]
FreedEntry(entry) == [entry EXCEPT !.valid = FALSE, !.begin = FALSE]

\* schedule_remove, whatever the entry holds; TEARDOWN subtracts for every RTP session
Unschedule ==
  /\ up /\ pc \in {"teardownRemove", "abortRemove"}
  /\ LET gone == rtp[Head(todo)].entry
     IN  /\ sched' = [e \in Entry |-> IF e = gone THEN FreedEntry(sched[e]) ELSE sched[e]]
         /\ crossed' = (crossed \/ Holds(gone))
         /\ smudged' = smudged \ {gone}
         /\ begun' = begun \ {Head(todo)}
  /\ play' = (IF pc = "teardownRemove" THEN play - 1 ELSE play)
  /\ pc' = (IF pc = "teardownRemove" THEN "teardown" ELSE "abort")
  /\ todo' = Tail(todo)
  /\ UNCHANGED <<conns, sess, rtp, nRtp, pool, up, at, ent, visit, past>>

RefillPoolBelowZero(count) == pool' = IF count < 0 THEN Port ELSE pool
RefillPoolShifted(count) == pool' = IF count = 0 THEN 1 .. MAX_CONNECTION ELSE pool

\* RTP_port_pool_init when the count says that nobody plays (ringreset; does nothing)
RefillPool(count) == pool' = IF count = 0 THEN Port ELSE pool

TeardownEnds ==
  /\ up /\ pc = "teardown" /\ todo = <<>>
  /\ RefillPool(play)
  /\ sess' = [sess EXCEPT ![Here] = NoSession]
  /\ Rest
  /\ UNCHANGED <<conns, rtp, nRtp, sched, play, up, visit, past, marks>>

\* close, and off the list.  The message about the next connection follows a NULL
\* pointer when the one that goes was the last, but not the only one.
Unlink(i) ==
  /\ conns' = RemoveAt(conns, i)
  /\ sess' = [sess EXCEPT ![conns[i]] = NoSession]
  /\ up' = (i = 1 \/ i < Len(conns))
  /\ Rest
  /\ UNCHANGED <<rtp, nRtp, sched, visit, past, marks>>

AbortUncounted == play
AbortCounted == play - 1

\* a truncated connection subtracts one, however many RTP sessions it had
AbortEnds ==
  /\ up /\ pc = "abort" /\ todo = <<>>
  /\ play' = AbortCounted
  /\ RefillPool(AbortCounted)
  /\ Unlink(at)

\* the client closed after a TEARDOWN
Closed(i) ==
  /\ up /\ pc = "rest" /\ ~ sess[conns[i]].open
  /\ Unlink(i)
  /\ UNCHANGED <<pool, play>>
-----------------------------------------------------------------------------
(* The schedule thread *)

\* main is in the middle of putting e into the schedule list or of taking it out
Changing(e) ==
  \/ pc = "add" /\ ent = e
  \/ pc \in {"teardownRemove", "abortRemove"} /\ rtp[Head(todo)].entry = e

\* main came to the entry during this visit of the schedule thread, or is at it now
Disturbed == crossed \/ Changing(se)

Stay(step) == spc' = step /\ UNCHANGED <<se, crossed>>

Leave ==
  /\ crossed' = FALSE
  /\ \/ se = MAX_CONNECTION - 1 /\ spc' = "gate" /\ se' = 0
     \/ se < MAX_CONNECTION - 1 /\ spc' = "test" /\ se' = se + 1

\* A pass begins: with a new frame when someone plays (an empty ring buffer is no step),
\* with what ringinfo held before when nobody does.
Gate ==
  /\ up /\ spc = "gate" /\ irregular = 0
  /\ IF play > 0 THEN frame' = "new" ELSE UNCHANGED frame
  /\ spc' = "test"
  /\ UNCHANGED <<control, sched, up, se, hnd, marks>>

AnyEntry(e) == sched[e].rtp # NULL
IsValid(e) == sched[e].valid

TestValid ==
  /\ up /\ spc = "test"
  /\ IF IsValid(se) THEN Stay("look") ELSE Leave
  /\ UNCHANGED <<control, sched, up, frame, hnd, smudged, begun>>

\* rtp_session->pause; main may have marked the entry valid and not filled it in yet
LookPause ==
  /\ up /\ spc = "look"
  /\ LET r == sched[se].rtp
     IN  /\ up' = (r # NULL)
         /\ IF r # NULL /\ ~ rtp[r].pause THEN Stay("mark") ELSE Leave
  /\ UNCHANGED <<control, sched, frame, hnd, smudged, begun>>

\* BeginFrame goes up with an I frame.  A ringinfo never filled in may look like an I
\* frame, and what RtpSend would read through it ends the process.
MarkBegin ==
  /\ up /\ spc = "mark"
  /\ LET ready == rtp[sched[se].rtp].handle # "none"
         begins == ready /\ frame' = "I"
     IN  /\ frame' \in (IF ready /\ frame = "new" THEN {"I", "P"} ELSE {frame})
         /\ sched' = [sched EXCEPT ![se].begin = @ \/ begins]
         /\ smudged' = IF begins /\ Disturbed THEN smudged \union {se} ELSE smudged
         /\ IF ready /\ sched'[se].begin THEN Stay("send") ELSE Leave
         /\ IF ready /\ frame = "unset" THEN up' \in BOOLEAN ELSE UNCHANGED up
  /\ UNCHANGED <<control, hnd, begun>>

\* RtpSend is called with the handle of the session that the entry points to by now
Send ==
  /\ up /\ spc = "send"
  /\ hnd' = sched[se].rtp
  /\ begun' = begun \union {hnd'}
  /\ Stay("sending")
  /\ UNCHANGED <<control, sched, up, frame, smudged>>

SendEnds ==
  /\ up /\ spc = "sending"
  /\ hnd' = NULL
  /\ Leave
  /\ UNCHANGED <<control, sched, up, frame, smudged, begun>>
-----------------------------------------------------------------------------
Request(i) ==
  \/ Options(i) \/ SetupMalformed(i) \/ SetupRefused(i) \/ Setup(i)
  \/ PlayRefused(i) \/ Play(i) \/ Teardown(i) \/ Truncated(i) \/ Closed(i)

Main ==
  \/ \E c \in Client : Accept(c)
  \/ \E i \in DOMAIN conns : Request(i)
  \/ ScheduleFill \/ ScheduleStart \/ StartCounts \/ StartSkips \/ PlayReplies
  \/ Delete \/ Unschedule \/ TeardownEnds \/ AbortEnds

Scheduler == Gate \/ TestValid \/ LookPause \/ MarkBegin \/ Send \/ SendEnds

Next == Main \/ Scheduler

Spec == Init /\ [][Next]_vars
-----------------------------------------------------------------------------
Pcs == {"rest", "add", "start", "count", "teardown", "teardownRemove", "abort", "abortRemove"}

TypeOK ==
  /\ conns \in Seq(Client) /\ Len(conns) <= MAX_CONNECTION
  /\ sess \in [Client -> [open : BOOLEAN, state : {"INIT", "READY", "PLAY"}, rtps : Seq(RtpId)]]
  /\ irregular \in 0 .. MaxIrregular /\ nRtp \in irregular .. irregular + MaxRegular
  /\ rtp \in [RtpId -> [pause : BOOLEAN, started : BOOLEAN,
                        handle : {"none", "live", "dead"}, entry : Entry \union {NoEntry}]]
  /\ sched \in [Entry -> [valid : BOOLEAN, rtp : RtpId \union {NULL}, begin : BOOLEAN]]
  /\ pool \subseteq Port
  /\ play \in Int
  /\ up \in BOOLEAN
  /\ pc \in Pcs /\ at \in Nat \ {0} /\ todo \in Seq(RtpId) /\ ent \in Entry \union {NoEntry}
  /\ spc \in {"gate", "test", "look", "mark", "send", "sending"} /\ se \in Entry
  /\ frame \in {"unset", "new", "I", "P"} /\ hnd \in RtpId \union {NULL}
  /\ unplayed \in BOOLEAN /\ crossed \in BOOLEAN /\ smudged \subseteq Entry /\ begun \subseteq RtpId

\* every SETUP so far was granted and the only one of its connection
Regular == irregular = 0

\* and every ending so far subtracted what its connection had added
Balanced == Regular /\ ~ unplayed

RtpsOf(c) == {sess[c].rtps[i] : i \in DOMAIN sess[c].rtps}
Listed == UNION {RtpsOf(c) : c \in Client}
Ending(c) == pc \in {"abort", "abortRemove"} /\ c = Here

(* As long as every SETUP was granted and the only one of its connection, the schedule
   list and the clients' lists agree whenever main is not changing the entry: an entry
   in use belongs to the RTP session of one client, whose handle was not deleted, and
   the RTP session of a client has its entry.  Nobody is left without one. *)
OwnEntry ==
  Regular =>
    /\ \A e \in Entry :
         sched[e].valid /\ ~ Changing(e) =>
           \E c \in Client : /\ sess[c].rtps = <<sched[e].rtp>>
                            /\ rtp[sched[e].rtp].entry = e
                            /\ rtp[sched[e].rtp].handle # "dead"
    /\ \A c \in Client : ~ Ending(c) /\ pc # "add" =>
         \A r \in RtpsOf(c) : /\ rtp[r].entry \in Entry
                              /\ sched[rtp[r].entry].valid
                              /\ sched[rtp[r].entry].rtp = r

(* g_s32DoPlay is the number of sessions that play, as long as every ending subtracted
   what its connection had added. *)
CountIsExact ==
  Balanced /\ pc = "rest" => play = Cardinality({r \in Listed : rtp[r].started})

(* When the last RTP session has ended, every port is back in the pool, though no
   session gives back the port it took. *)
PortsComeBack ==
  Balanced /\ pc = "rest" /\ Listed = {} => pool = Port

(* RtpSend works with a deleted handle only if main came to the entry during this very
   visit, or is deleting it now: a visit that begins later finds it gone. *)
DeadHandleOnlyInRace ==
  Regular /\ spc = "sending" /\ rtp[hnd].handle = "dead" => Disturbed

(* What a client receives begins with an I frame, unless main was at the entry during
   this visit, or during the one that set its BeginFrame. *)
BeginsWithI ==
  [][Regular => \A r \in begun' \ begun : frame = "I" \/ Disturbed \/ se \in smudged]_vars

(* The camera fills the ring buffer only while g_s32DoPlay is positive; a client that
   plays is to be counted.  The code breaks this: a connection that ends without having
   played subtracts one too. *)
PlayingIsCounted ==
  pc = "rest" /\ (\E r \in Listed : rtp[r].started) => play > 0
=============================================================================
