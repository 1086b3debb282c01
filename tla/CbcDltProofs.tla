---------------------------- MODULE CbcDltProofs ----------------------------
(***************************************************************************)
(* Theorems about the two programs on cbc-dlt, for every value of the      *)
(* constants.  The type invariant comes first; the other invariants are    *)
(* inductive with it, or with what is known of the frames on their way: in *)
(* which order logs were stamped (LateKnown, LogsRecent), and in which     *)
(* boot events happened (EventsInOrder).                                   *)
(***************************************************************************)
EXTENDS CbcDlt, TLAPS, SequenceTheorems

USE DEF Clients, NArgs

\* The head of a queue is a frame, and what is left is a queue of them.
LEMMA Popped ==
    ASSUME NEW S, NEW q \in Seq(S), q # <<>>
    PROVE  /\ Head(q) \in S /\ Tail(q) \in Seq(S)
           /\ Head(q) = q[1] /\ Len(q) \in Nat /\ Len(q) > 0
           /\ Len(Tail(q)) = Len(q) - 1
           /\ \A i \in 1..Len(Tail(q)) : Tail(q)[i] = q[i + 1]
BY HeadTailProperties

\* What there is when a frame has been put in.
LEMMA AppendedTyped ==
    ASSUME NEW q \in Seq(Frames), NEW f \in Frames
    PROVE  /\ Append(q, f) \in Seq(Frames) /\ Len(q) \in Nat
           /\ Len(Append(q, f)) = Len(q) + 1
           /\ \A i \in 1..Len(q) : Append(q, f)[i] = q[i]
           /\ Append(q, f)[Len(q) + 1] = f
BY AppendProperties

\* A frame is of one of three kinds.
LEMMA FrameKinds ==
    ASSUME NEW f \in Frames
    PROVE  /\ f.kind = "log" => /\ f \in Logs /\ f.at \in Moments
                                /\ f.args \in ArgLists /\ f.nth \in Nat
           /\ f.kind = "boot" => f \in Boots /\ f.event \in DOMAIN Events
           /\ f.kind \in {"log", "boot", "unfit"}
BY DEF Frames, Logs, Boots, Unfit

\* The moment some ticks ago is a moment.
LEMMA AgoType ==
    ASSUME clock \in Moments, NEW lag \in 0..MaxLag
    PROVE  Ago(lag) \in Moments
BY LagAssumption, WAssumption DEF Ago, Moments

\* The log that SendLog sends.
LogFrame(args, lag) == [kind |-> "log", at |-> Ago(lag), args |-> args,
                        nth |-> IF lag > 0 THEN lagged + 1 ELSE 0]

LEMMA LogFrameType ==
    ASSUME DeviceTypeOK, NEW args \in ArgLists, NEW lag \in 0..MaxLag
    PROVE  LogFrame(args, lag) \in Logs /\ LogFrame(args, lag) \in Frames
<1>1. Ago(lag) \in Moments /\ (IF lag > 0 THEN lagged + 1 ELSE 0) \in Nat
  BY AgoType DEF DeviceTypeOK
<1> QED BY <1>1 DEF LogFrame, Frames, Logs

\* What is delivered leaves the queues queues of frames.
LEMMA DeliverType ==
    ASSUME DeviceTypeOK, NEW f \in Frames, Deliver(f)
    PROVE  dlt' \in [Clients -> Seq(Frames)] /\ files' = files
<1>1. \A r \in Clients : View(r, f) \in Frames
  BY DEF View, Frames
<1>2. PICK R \in SUBSET {r \in files : Len(dlt[r]) < MaxQueue} :
        dlt' = [r \in Clients |-> IF r \in R THEN Append(dlt[r], View(r, f))
                                             ELSE dlt[r]]
  BY DEF Deliver
<1>3. \A r \in Clients : Append(dlt[r], View(r, f)) \in Seq(Frames)
  BY <1>1, AppendProperties DEF DeviceTypeOK
<1> QED BY <1>2, <1>3 DEF Deliver, DeviceTypeOK

----------------------------------------------------------------------------
(* Types *)

LEMMA TickTyped == ASSUME DeviceTypeOK, Tick PROVE DeviceTypeOK'
<1>1. clock' \in Moments
  <2>1. CASE clock.phase = W - 1
    BY <2>1, WAssumption DEF Tick, DeviceTypeOK, Moments
  <2>2. CASE clock.phase # W - 1
    <3>1. clock' = [epoch |-> clock.epoch, phase |-> clock.phase + 1]
      BY <2>2 DEF Tick, DeviceTypeOK, Moments
    <3> QED BY <2>2, <3>1, WAssumption DEF DeviceTypeOK, Moments
  <2> QED BY <2>1, <2>2
<1> QED BY <1>1 DEF Tick, DeviceTypeOK

LEMMA SendLogTyped == ASSUME DeviceTypeOK, SendLog PROVE DeviceTypeOK'
<1>1. PICK args \in ArgLists, lag \in 0..MaxLag :
        /\ lagged' = IF lag > 0 THEN lagged + 1 ELSE lagged
        /\ Deliver(LogFrame(args, lag))
  BY Zenon DEF SendLog, LogFrame
<1>2. LogFrame(args, lag) \in Frames
  BY LogFrameType
<1>3. lagged' \in Nat
  BY <1>1 DEF DeviceTypeOK
<1>4. dlt' \in [Clients -> Seq(Frames)] /\ files' = files
  BY <1>1, <1>2, DeliverType
<1> QED BY <1>3, <1>4 DEF SendLog, DeviceTypeOK

LEMMA SendUnfitTyped == ASSUME DeviceTypeOK, SendUnfit PROVE DeviceTypeOK'
<1>1. dlt' \in [Clients -> Seq(Frames)] /\ files' = files
  BY DeliverType DEF SendUnfit, Frames
<1> QED BY <1>1 DEF SendUnfit, iocVars, DeviceTypeOK

\* The boot event to send is one of them, and the next one too.
LEMMA ResendEvent ==
    ASSUME DeviceTypeOK, SendBoot
    PROVE  resend \in DOMAIN Events /\ resend' \in 0..Len(Events)
BY EventsAssumption DEF DeviceTypeOK, SendBoot

LEMMA SendBootTyped == ASSUME DeviceTypeOK, SendBoot PROVE DeviceTypeOK'
<1>1. [kind |-> "boot", event |-> resend] \in Frames
  BY ResendEvent DEF Frames, Boots
<1>2. dlt' \in [Clients -> Seq(Frames)] /\ files' = files
  BY <1>1, DeliverType DEF SendBoot
<1> QED BY <1>2, ResendEvent DEF SendBoot, DeviceTypeOK

LEMMA RequestTyped ==
    ASSUME DeviceTypeOK, Request
    PROVE  /\ resend' \in 0..Len(Events) /\ requests' \in 0..2
           /\ clock' = clock /\ lagged' = lagged
<1>1. Events = <<>> \/ Len(Events) \in Nat \ {0}
  BY EventsAssumption, EmptySeq
<1> QED BY <1>1, EventsAssumption DEF Request, DeviceTypeOK

LEMMA DeviceTyped == ASSUME DeviceTypeOK, Device PROVE DeviceTypeOK'
<1>1. OtherRequest => DeviceTypeOK'
  BY RequestTyped DEF OtherRequest, DeviceTypeOK
<1> QED BY <1>1, TickTyped, SendLogTyped, SendUnfitTyped, SendBootTyped DEF Device

\* To take a frame leaves the device of its type.
LEMMA TakeTyped ==
    ASSUME DeviceTypeOK, NEW r \in Clients, Take(r)
    PROVE  dlt' \in [Clients -> Seq(Frames)] /\ Front(r) \in Frames
<1>1. dlt[r] \in Seq(Frames) /\ dlt[r] # <<>>
  BY DEF DeviceTypeOK, Take
<1>2. Tail(dlt[r]) \in Seq(Frames) /\ Head(dlt[r]) \in Frames
  BY <1>1, Popped
<1> QED BY <1>2 DEF DeviceTypeOK, Take, Front

LEMMA EventTyped ==
    ASSUME NEW e \in DOMAIN Events
    PROVE  Events[e] \in [reason : 0..255, at : Nat] /\ Events[e].at < W64
<1>1. \A S : \A s \in Seq(S) : \A k \in DOMAIN s : s[k] \in S
  OBVIOUS
<1>2. Events[e] \in [reason : 0..255, at : Nat]
  BY <1>1, EventsAssumption
<1> QED BY <1>2, W64Assumption

\* A difference of two times of 64 bits is a time of 64 bits, and is no more
\* than the later one when it is the later one they are subtracted from.
LEMMA AgeTyped ==
    ASSUME NEW at \in Nat, NEW start \in Nat, at < W64
    PROVE  Age(at, start) \in Nat /\ (start <= at => Age(at, start) <= at)
<1>1. W64 \in Nat \ {0}
  BY W64Assumption
<1>2. (at - start) % W64 \in 0..(W64 - 1)
  BY <1>1
<1>3. ASSUME start <= at PROVE (at - start) % W64 = at - start
  <2>1. at - start \in 0..(W64 - 1)
    BY <1>1, <1>3
  <2> QED BY <1>1, <2>1
<1> QED BY <1>1, <1>2, <1>3 DEF Age

LEMMA BootEventTyped ==
    ASSUME DeviceTypeOK, SvcTypeOK, NEW i \in DOMAIN Events,
           SvcBootEvent(Events[i])
    PROVE  DeviceTypeOK' /\ SvcTypeOK'
<1> DEFINE e == Events[i]
<1>1. e.at \in Nat /\ e.at < W64
  BY EventTyped
<1>2. abl_start_timestamp' \in Nat
  BY <1>1 DEF SvcBootEvent, SvcTypeOK
<1>3. Age(e.at, abl_start_timestamp') \in Nat
  BY <1>1, <1>2, AgeTyped
<1>4. <<[at |-> e.at, age |-> Age(e.at, abl_start_timestamp')]>>
          \in Seq([at : Nat, age : Nat])
  BY <1>1, <1>3
<1>5. dlt' \in [Clients -> Seq(Frames)]
  BY TakeTyped DEF SvcBootEvent
<1> HIDE DEF e
<1>6. svc' = [svc EXCEPT !.pc = "ping",
                 !.told = <<[at |-> e.at, age |-> Age(e.at, abl_start_timestamp')]>>]
  BY DEF SvcBootEvent, e
<1>7. svc'.told \in Seq([at : Nat, age : Nat])
  BY <1>4, <1>6 DEF SvcTypeOK
<1>8. svc' \in [pc : {"main", "reset", "read", "dlt", "ping", "exited"},
                pingSent : BOOLEAN, args : ArgLists \cup {<<>>},
                given : SUBSET (1..NArgs), right : SUBSET (1..NArgs),
                told : Seq([at : Nat, age : Nat])]
  BY <1>4, <1>6 DEF SvcTypeOK
<1> QED BY <1>2, <1>5, <1>8
        DEF SvcBootEvent, SvcTypeOK, DeviceTypeOK, iocVars, timeVars

LEMMA DropTyped ==
    ASSUME DeviceTypeOK, SvcTypeOK, SvcDrop
    PROVE  DeviceTypeOK' /\ SvcTypeOK'
BY TakeTyped DEF SvcDrop, SvcTypeOK, DeviceTypeOK, iocVars, timeVars

LEMMA LogTyped ==
    ASSUME DeviceTypeOK, SvcTypeOK, NEW f \in Frames, f.kind = "log", NEW p,
           SvcSendLog(f, p)
    PROVE  DeviceTypeOK' /\ SvcTypeOK'
<1>1. f.at \in Moments /\ f.args \in ArgLists
  BY FrameKinds
<1>2. Logged(f.args) \subseteq 1..NArgs
  BY DEF Logged
<1>3. dlt' \in [Clients -> Seq(Frames)]
  BY TakeTyped DEF SvcSendLog
<1>4. last_timestamp' \in [high : Nat, low : 0..(W - 1)]
  BY <1>1 DEF SvcSendLog, Extend, SvcTypeOK, Moments
<1>5. late' \in Nat /\ gap' \in BOOLEAN /\ stamped' \in Moments
  BY <1>1 DEF SvcSendLog, SvcTypeOK
<1> DEFINE right == {i \in 1..NArgs : p[i].cursor = p[i].place}
<1>6. svc' = [svc EXCEPT !.pc = "dlt", !.args = f.args,
                         !.given = Logged(f.args), !.right = right]
  BY DEF SvcSendLog
<1>7. right \subseteq 1..NArgs
  OBVIOUS
<1> HIDE DEF right
<1>8. svc' \in [pc : {"main", "reset", "read", "dlt", "ping", "exited"},
                pingSent : BOOLEAN, args : ArgLists \cup {<<>>},
                given : SUBSET (1..NArgs), right : SUBSET (1..NArgs),
                told : Seq([at : Nat, age : Nat])]
  BY <1>1, <1>2, <1>6, <1>7 DEF SvcTypeOK
<1> QED BY <1>3, <1>4, <1>5, <1>8
        DEF SvcSendLog, SvcTypeOK, DeviceTypeOK, iocVars

LEMMA ServiceTyped ==
    ASSUME DeviceTypeOK, SvcTypeOK, Service
    PROVE  DeviceTypeOK' /\ SvcTypeOK'
<1> USE DEF SvcTypeOK, DeviceTypeOK, iocVars, timeVars
<1>1. CASE SvcMain
  BY <1>1 DEF SvcMain
<1>2. CASE SvcReset
  BY <1>2, RequestTyped DEF SvcReset, SvcExit
<1>3. CASE SvcReadNothing
  BY <1>3 DEF SvcReadNothing
<1>4. CASE SvcRead
  <2> HIDE DEF SvcTypeOK, DeviceTypeOK, iocVars, timeVars
  <2> DEFINE f == Front("service")
  <2>1. f \in Frames
    <3>1. dlt["service"] \in Seq(Frames) /\ dlt["service"] # <<>>
      BY <1>4 DEF SvcRead, DeviceTypeOK
    <3> QED BY <3>1, Popped DEF Front
  <2>2. \/ SvcDrop
        \/ f.kind = "boot" /\ SvcBootEvent(Events[f.event])
        \/ f.kind = "log" /\ \E p : SvcSendLog(f, p)
    BY <1>4, Zenon DEF SvcRead
  <2>3. CASE f.kind = "boot" /\ SvcBootEvent(Events[f.event])
    BY <2>1, <2>3, FrameKinds, BootEventTyped
  <2>4. CASE f.kind = "log" /\ \E p : SvcSendLog(f, p)
    <3>1. PICK p : SvcSendLog(f, p)
      BY <2>4
    <3> HIDE DEF f
    <3> QED BY <2>1, <2>4, <3>1, LogTyped
  <2> QED BY <2>2, <2>3, <2>4, DropTyped
<1>5. CASE SvcHandOver
  BY <1>5 DEF SvcHandOver
<1>6. CASE SvcPing
  <2>1. <<>> \in Seq([at : Nat, age : Nat])
    OBVIOUS
  <2> QED BY <1>6, <2>1 DEF SvcPing, SvcExit
<1> QED BY <1>1, <1>2, <1>3, <1>4, <1>5, <1>6 DEF Service

LEMMA EndedTyped ==
    ASSUME ToolTypeOK, NEW r \in {-2, -1, 0, 255}, tool' = Ended(tool, r)
    PROVE  ToolTypeOK'
BY DEF ToolTypeOK, Asked, Ended

LEMMA WantTyped ==
    ASSUME ToolTypeOK, NEW S \in SUBSET Asked,
           tool' = [tool EXCEPT !.pc = "open", !.want = S]
    PROVE  ToolTypeOK'
BY DEF ToolTypeOK, Asked

LEMMA SentTyped ==
    ASSUME ToolTypeOK, NEW S \in SUBSET Asked, NEW p \in {"ask_boot", "poll"},
           tool' = [tool EXCEPT !.pc = p, !.sent = S]
    PROVE  ToolTypeOK'
BY DEF ToolTypeOK, Asked

LEMMA ReadyTyped ==
    ASSUME ToolTypeOK, NEW S \in SUBSET Asked,
           tool' = [tool EXCEPT !.pc = "version", !.ready = S]
    PROVE  ToolTypeOK'
BY DEF ToolTypeOK, Asked

LEMMA ToolStepTyped ==
    ASSUME ToolTypeOK, Tool \/ ToolOptions \/ ToolAgain
    PROVE  ToolTypeOK'
<1> DEFINE At(p) == tool' = [tool EXCEPT !.pc = p]
<1>1. CASE ToolOptions
  <2>1. \A given : Wanted(given) \in SUBSET Asked
    BY DEF Wanted, Selected, Asked
  <2>2. \/ \E W1 \in SUBSET Asked : tool' = [tool EXCEPT !.pc = "open", !.want = W1]
        \/ tool' = Ended(tool, -2)
    BY <1>1, <2>1, Zenon DEF ToolOptions
  <2> QED BY <2>2, WantTyped, EndedTyped
<1>2. CASE ToolOpen
  <2>1. At("ask_version") \/ tool' = Ended(tool, -1)
    BY <1>2, Zenon DEF ToolOpen
  <2>2. At("ask_version") => ToolTypeOK'
    BY DEF ToolTypeOK, Asked
  <2> QED BY <2>1, <2>2, EndedTyped
<1>3. CASE ToolAskVersion
  <2>1. \/ tool' = [tool EXCEPT !.pc = "ask_boot", !.sent = {"version"}]
        \/ tool' = Ended(tool, -1) \/ At("ask_boot")
    BY <1>3, Zenon DEF ToolAskVersion
  <2>2. {"version"} \in SUBSET Asked
    BY DEF Asked
  <2>3. At("ask_boot") => ToolTypeOK'
    BY DEF ToolTypeOK, Asked
  <2> QED BY <2>1, <2>2, <2>3, SentTyped, EndedTyped
<1>4. CASE ToolAskBoot
  <2>1. \/ tool' = [tool EXCEPT !.pc = "poll", !.sent = tool.want]
        \/ tool' = Ended(tool, -1) \/ tool' = Ended(tool, 255) \/ At("poll")
    BY <1>4, Zenon DEF ToolAskBoot
  <2>2. tool.want \in SUBSET Asked
    BY DEF ToolTypeOK
  <2>3. At("poll") => ToolTypeOK'
    BY DEF ToolTypeOK, Asked
  <2> QED BY <2>1, <2>2, <2>3, SentTyped, EndedTyped
<1>5. CASE ToolPoll
  <2>1. PICK R : \/ tool' = Ended(tool, 0)
                 \/ tool' = [tool EXCEPT !.pc = "version", !.ready = R \cap tool.want]
    BY <1>5, Zenon DEF ToolPoll
  <2>2. R \cap tool.want \in SUBSET Asked
    BY DEF ToolTypeOK
  <2> QED BY <2>1, <2>2, ReadyTyped, EndedTyped
<1>6. CASE ToolPollFails \/ ToolReadNoMore
  <2>1. tool' = Ended(tool, -1) \/ tool' = Ended(tool, 0)
    BY <1>6, Zenon DEF ToolPollFails, ToolReadNoMore
  <2> QED BY <2>1, EndedTyped
<1>7. CASE ToolReadVersion
  <2>1. At("boot") \/ tool' = Ended(tool, 0)
    BY <1>7, Zenon DEF ToolReadVersion
  <2>2. At("boot") => ToolTypeOK'
    BY DEF ToolTypeOK, Asked
  <2> QED BY <2>1, <2>2, EndedTyped
<1>8. CASE ToolReadBoot
  BY <1>8 DEF ToolReadBoot, ToolTypeOK, Asked
<1>9. CASE ToolClose
  BY <1>9 DEF ToolClose, ToolTypeOK, Asked
<1>10. CASE ToolAgain
  BY <1>10 DEF ToolAgain, NoTool, ToolTypeOK, Asked
<1> QED BY <1>1, <1>2, <1>3, <1>4, <1>5, <1>6, <1>7, <1>8, <1>9, <1>10 DEF Tool

LEMMA ToolDeviceTyped ==
    ASSUME DeviceTypeOK, Tool \/ ToolOptions \/ ToolAgain
    PROVE  DeviceTypeOK'
<1>1. CASE ToolOpen
  <2>1. <<>> \in Seq(Frames)
    OBVIOUS
  <2>2. dlt' \in [Clients -> Seq(Frames)]
    BY <1>1, <2>1 DEF ToolOpen, DeviceTypeOK
  <2>3. files' \in SUBSET Clients
    BY <1>1 DEF ToolOpen, DeviceTypeOK
  <2> QED BY <1>1, <2>2, <2>3 DEF ToolOpen, DeviceTypeOK, iocVars
<1>2. CASE ToolAskBoot
  <2>1. Request \/ UNCHANGED iocVars
    BY <1>2, Zenon DEF ToolAskBoot
  <2>2. UNCHANGED <<dlt, files>>
    BY <1>2 DEF ToolAskBoot
  <2>3. /\ resend' \in 0..Len(Events) /\ requests' \in 0..2
        /\ clock' = clock /\ lagged' = lagged
    BY <2>1, RequestTyped DEF iocVars, DeviceTypeOK
  <2> QED BY <2>2, <2>3 DEF DeviceTypeOK
<1>3. CASE ToolReadBoot
  <2>1. dlt' \in [Clients -> Seq(Frames)]
    BY <1>3, TakeTyped DEF ToolReadBoot
  <2> QED BY <1>3, <2>1 DEF ToolReadBoot, DeviceTypeOK, iocVars
<1>4. CASE ToolClose
  BY <1>4 DEF ToolClose, DeviceTypeOK, iocVars
<1>5. CASE UNCHANGED <<dlt, files, iocVars>>
  BY <1>5 DEF DeviceTypeOK, iocVars
<1>6. ToolOptions \/ ToolAskVersion \/ ToolPoll \/ ToolPollFails \/ ToolReadVersion
      \/ ToolReadNoMore \/ ToolAgain => UNCHANGED <<dlt, files, iocVars>>
  BY DEF ToolOptions, ToolAskVersion, ToolPoll, ToolPollFails, ToolReadVersion,
         ToolReadNoMore, ToolAgain
<1> QED BY <1>1, <1>2, <1>3, <1>4, <1>5, <1>6 DEF Tool

\* Every variable keeps the type of what it stands for.
LEMMA TypedInit == Init => TypeOK
<1> SUFFICES ASSUME Init PROVE TypeOK
  OBVIOUS
<1>1. DeviceTypeOK
  <2>1. <<>> \in Seq(Frames) /\ Len(Events) \in Nat
    BY EventsAssumption
  <2>2. clock \in Moments
    BY DEF Init, DeviceInit, Moments
  <2> QED BY <2>1, <2>2 DEF Init, DeviceInit, DeviceTypeOK
<1>2. SvcTypeOK
  <2>1. <<>> \in Seq([at : Nat, age : Nat])
    OBVIOUS
  <2>2. PICK used : LoggingInit(used)
    BY Zenon DEF Init
  <2>3. PICK pc \in {"main", "exited"} :
          svc = [pc |-> pc, pingSent |-> FALSE, args |-> <<>>, given |-> {},
                 right |-> {}, told |-> <<>>]
    BY <2>2 DEF LoggingInit
  <2>4. svc \in [pc : {"main", "reset", "read", "dlt", "ping", "exited"},
                 pingSent : BOOLEAN, args : ArgLists \cup {<<>>},
                 given : SUBSET (1..NArgs), right : SUBSET (1..NArgs),
                 told : Seq([at : Nat, age : Nat])]
    <3> DEFINE A == ArgLists \cup {<<>>}
               I == SUBSET (1..NArgs)
               T == Seq([at : Nat, age : Nat])
    <3>1. <<>> \in A /\ {} \in I /\ <<>> \in T
      BY <2>1
    <3> HIDE DEF A, I, T
    <3>2. svc \in [pc : {"main", "reset", "read", "dlt", "ping", "exited"},
                   pingSent : BOOLEAN, args : A, given : I, right : I, told : T]
      BY <2>3, <3>1
    <3> QED BY <3>2 DEF A, I, T
  <2>5. /\ abl_start_timestamp \in Nat /\ secs \in 0..2 /\ late \in Nat
        /\ gap \in BOOLEAN /\ stamped \in Moments
        /\ last_timestamp \in [high : Nat, low : 0..(W - 1)]
    <3>1. /\ abl_start_timestamp = 0 /\ secs = 0 /\ late = 0 /\ gap = FALSE
          /\ last_timestamp = [high |-> 0, low |-> 0]
          /\ stamped = [epoch |-> 0, phase |-> 0]
      BY <2>2, Zenon DEF LoggingInit
    <3>2. 0 \in 0..(W - 1) /\ 0 \in Int /\ 0 \in Nat /\ 0 \in 0..2
      BY WAssumption
    <3>3. gap \in BOOLEAN
      BY <3>1, Zenon
    <3>4. last_timestamp \in [high : Nat, low : 0..(W - 1)] /\ stamped \in Moments
      BY <3>1, <3>2 DEF Moments
    <3> QED BY <3>1, <3>2, <3>3, <3>4
  <2> QED BY <2>4, <2>5 DEF SvcTypeOK
<1>3. ToolTypeOK
  BY DEF Init, ToolInit, NoTool, ToolTypeOK, Asked
<1> QED BY <1>1, <1>2, <1>3 DEF TypeOK

LEMMA TypedStep == TypeOK /\ [Next]_vars => TypeOK'
<1> SUFFICES ASSUME TypeOK, [Next]_vars PROVE TypeOK'
  OBVIOUS
<1>1. CASE IocStep
  <2>1. DeviceTypeOK'
    BY <1>1, DeviceTyped DEF IocStep, TypeOK
  <2> QED BY <1>1, <2>1
          DEF IocStep, TypeOK, logVars, timeVars, SvcTypeOK, ToolTypeOK
<1>2. CASE ServiceStep
  <2>1. DeviceTypeOK' /\ SvcTypeOK'
    BY <1>2, ServiceTyped DEF ServiceStep, TypeOK
  <2> QED BY <1>2, <2>1 DEF ServiceStep, TypeOK, ToolTypeOK
<1>3. CASE Time
  BY <1>3 DEF Time, Second, TypeOK, timeVars, iocVars, SvcTypeOK, ToolTypeOK,
              DeviceTypeOK
<1>4. CASE ToolStep \/ ToolUser
  <2>1. DeviceTypeOK' /\ ToolTypeOK'
    BY <1>4, ToolStepTyped, ToolDeviceTyped DEF ToolStep, ToolUser, TypeOK
  <2> QED BY <1>4, <2>1
          DEF ToolStep, ToolUser, TypeOK, logVars, timeVars, SvcTypeOK
<1>5. CASE UNCHANGED vars
  BY <1>5 DEF vars, TypeOK, logVars, timeVars, iocVars, SvcTypeOK, ToolTypeOK,
              DeviceTypeOK
<1> QED BY <1>1, <1>2, <1>3, <1>4, <1>5 DEF Next

\* The types of the two programs and of the device, for any arguments, events
\* and bounds: no time of the service is negative or too wide.
THEOREM TypeCorrect == Spec => []TypeOK
<1> QED BY TypedInit, TypedStep, PTL DEF Spec

----------------------------------------------------------------------------
(* The times and the arguments of the logs *)

\* Only a log handed to DLT changes what the service knows of times, and only
\* such a step leads to a log in hand.
LEMMA LogStep ==
    ASSUME TypeOK, [Next]_vars
    PROVE  \/ UNCHANGED timeVars /\ (svc'.pc = "dlt" => svc' = svc)
           \/ \E f \in Frames, garbage \in [1..NArgs -> SizeBytes] :
                /\ f = Front("service") /\ f.kind = "log"
                /\ SvcSendLog(f, Parse(f.args, garbage))
<1>1. CASE UNCHANGED logVars
  BY <1>1 DEF logVars
<1>2. CASE SvcMain \/ SvcReset \/ SvcReadNothing \/ SvcHandOver \/ SvcPing
  <2>1. svc'.pc # "dlt"
    BY <1>2 DEF SvcMain, SvcReset, SvcReadNothing, SvcHandOver, SvcPing, SvcExit,
                TypeOK, SvcTypeOK
  <2>2. UNCHANGED timeVars
    BY <1>2 DEF SvcMain, SvcReset, SvcReadNothing, SvcHandOver, SvcPing
  <2> QED BY <2>1, <2>2
<1>3. CASE SvcDrop
  BY <1>3 DEF SvcDrop, TypeOK, SvcTypeOK
<1>4. ASSUME NEW e, SvcBootEvent(e)
      PROVE  UNCHANGED timeVars /\ svc'.pc # "dlt"
  <2>1. PICK t : svc' = [svc EXCEPT !.pc = "ping", !.told = t]
    BY <1>4 DEF SvcBootEvent
  <2> QED BY <1>4, <2>1 DEF SvcBootEvent, TypeOK, SvcTypeOK
<1>5. CASE SvcRead
  <2> DEFINE f == Front("service")
  <2>1. f \in Frames
    <3>1. dlt["service"] \in Seq(Frames) /\ dlt["service"] # <<>>
      BY <1>5 DEF SvcRead, TypeOK, DeviceTypeOK
    <3> QED BY <3>1, Popped DEF Front
  <2>2. \/ SvcDrop
        \/ \E e : SvcBootEvent(e)
        \/ \E garbage \in [1..NArgs -> SizeBytes] :
              f.kind = "log" /\ SvcSendLog(f, Parse(f.args, garbage))
    BY <1>5, Zenon DEF SvcRead
  <2>3. f = Front("service")
    OBVIOUS
  <2> HIDE DEF f
  <2>4. CASE \E e : SvcBootEvent(e)
    BY <1>4, <2>4
  <2>5. CASE \E garbage \in [1..NArgs -> SizeBytes] :
              f.kind = "log" /\ SvcSendLog(f, Parse(f.args, garbage))
    BY <2>1, <2>3, <2>5, Zenon
  <2> QED BY <1>3, <2>2, <2>4, <2>5
<1>6. CASE Time
  BY <1>6 DEF Time, Second
<1>7. [Next]_vars => UNCHANGED logVars \/ Service \/ Time
  BY DEF Next, IocStep, ServiceStep, ToolStep, ToolUser, vars
<1> QED BY <1>1, <1>2, <1>5, <1>6, <1>7 DEF Service

-----------------------------------------------------------------------------
(* The logs on their way.  A log stamped on its sending is not older than any *)
(* log that was sent before it, logged or not read yet; those that were not    *)
(* stamped on sending are numbered in the order they were sent, and no more    *)
(* than the numbers so far have come late.                                     *)

Dated(q, now, last, n, sent) ==
    \A i \in 1..Len(q) : q[i].kind = "log" =>
        /\ ~Before(now, q[i].at)
        /\ IF q[i].nth = 0 THEN ~Before(q[i].at, last)
                           ELSE n < q[i].nth /\ q[i].nth <= sent
        /\ \A j \in 1..(i - 1) : q[j].kind = "log" =>
             IF q[i].nth = 0 THEN ~Before(q[i].at, q[j].at) ELSE q[j].nth < q[i].nth

LateKnown == /\ late <= lagged
             /\ ~Before(clock, stamped)
             /\ Dated(dlt["service"], clock, stamped, late, lagged)

\* Moments are in a line.
LEMMA MomentsInLine ==
    ASSUME NEW a \in Moments, NEW b \in Moments, NEW c \in Moments
    PROVE  ~Before(a, a) /\ (~Before(a, b) /\ ~Before(b, c) => ~Before(a, c))
<1>1. /\ a.epoch \in Int /\ b.epoch \in Int /\ c.epoch \in Int
      /\ a.phase \in Int /\ b.phase \in Int /\ c.phase \in Int
  BY WAssumption DEF Moments
<1> QED BY <1>1 DEF Before

\* A log is stamped when it is sent or earlier.
LEMMA AgoBefore ==
    ASSUME clock \in Moments, NEW lag \in 0..MaxLag
    PROVE  ~Before(clock, Ago(lag)) /\ (lag = 0 => Ago(lag) = clock)
<1>1. /\ lag \in Nat /\ lag < W /\ W \in Nat /\ clock.epoch \in Int
      /\ clock.phase \in 0..(W - 1)
      /\ clock = [epoch |-> clock.epoch, phase |-> clock.phase]
  BY LagAssumption, WAssumption DEF Moments
<1>2. Ago(lag) = IF lag <= clock.phase
                 THEN [epoch |-> clock.epoch, phase |-> clock.phase - lag]
                 ELSE [epoch |-> clock.epoch - 1, phase |-> clock.phase + W - lag]
  BY <1>1 DEF Ago
<1> QED BY <1>1, <1>2 DEF Before

\* Time passes.
LEMMA DatedLater ==
    ASSUME NEW q \in Seq(Frames), NEW now \in Moments, NEW then \in Moments,
           ~Before(then, now), NEW last, NEW n, NEW sent, Dated(q, now, last, n, sent)
    PROVE  Dated(q, then, last, n, sent)
<1>1. \A i \in 1..Len(q) : q[i].kind = "log" => q[i].at \in Moments
  BY FrameKinds
<1>2. \A i \in 1..Len(q) : q[i].kind = "log" => ~Before(then, q[i].at)
  BY <1>1, MomentsInLine DEF Dated
<1> QED BY <1>2 DEF Dated

\* A frame comes.
LEMMA DatedAppend ==
    ASSUME NEW q \in Seq(Frames), NEW f \in Frames, NEW now \in Moments,
           NEW last \in Moments, NEW n \in Nat, NEW sent \in Nat, NEW sum \in Nat,
           n <= sent, sent <= sum, ~Before(now, last), Dated(q, now, last, n, sent),
           f.kind = "log" => /\ ~Before(now, f.at)
                             /\ IF f.nth = 0 THEN f.at = now
                                             ELSE f.nth = sum /\ sent < sum
    PROVE  Dated(q, now, last, n, sum) /\ Dated(Append(q, f), now, last, n, sum)
<1> DEFINE a == Append(q, f)
<1>1. /\ Len(q) \in Nat /\ Len(a) = Len(q) + 1 /\ a[Len(q) + 1] = f
      /\ \A i \in 1..Len(q) : a[i] = q[i]
  BY AppendedTyped
<1>2. \A i \in 1..Len(q) : q[i].kind = "log" => q[i].at \in Moments /\ q[i].nth \in Nat
  BY FrameKinds
<1>3. Dated(q, now, last, n, sum)
  BY <1>1, <1>2 DEF Dated
<1>4. f.kind = "log" => f.nth \in Nat
  BY FrameKinds
<1> HIDE DEF a
<1>5. Dated(a, now, last, n, sum)
  <2> SUFFICES ASSUME NEW i \in 1..Len(a), a[i].kind = "log"
               PROVE  /\ ~Before(now, a[i].at)
                      /\ IF a[i].nth = 0 THEN ~Before(a[i].at, last)
                                         ELSE n < a[i].nth /\ a[i].nth <= sum
                      /\ \A j \in 1..(i - 1) : a[j].kind = "log" =>
                           IF a[i].nth = 0 THEN ~Before(a[i].at, a[j].at)
                                           ELSE a[j].nth < a[i].nth
    BY DEF Dated
  <2>1. CASE i \in 1..Len(q)
    <3>1. a[i] = q[i] /\ \A j \in 1..(i - 1) : j \in 1..Len(q) /\ a[j] = q[j]
      BY <1>1, <2>1
    <3> QED BY <1>3, <2>1, <3>1 DEF Dated
  <2>2. CASE i = Len(q) + 1
    <3>1. a[i] = f /\ f.kind = "log" /\ \A j \in 1..(i - 1) : j \in 1..Len(q) /\ a[j] = q[j]
      BY <1>1, <2>2
    <3>2. \A j \in 1..Len(q) : q[j].kind = "log" =>
            ~Before(now, q[j].at) /\ q[j].nth <= sent /\ q[j].nth \in Nat
      BY <1>2 DEF Dated
    <3> QED BY <1>4, <3>1, <3>2
  <2> QED BY <1>1, <2>1, <2>2
<1> QED BY <1>3, <1>5 DEF a

\* A frame is taken: dropped, or a log that becomes the last one.
LEMMA DatedTail ==
    ASSUME NEW q \in Seq(Frames), q # <<>>, NEW now, NEW last, NEW n \in Nat,
           NEW sent \in Nat, n <= sent, Dated(q, now, last, n, sent)
    PROVE  /\ Dated(Tail(q), now, last, n, sent)
           /\ Head(q).kind = "log" =>
                LET at == Head(q).at
                    m  == IF Before(at, last) THEN n + 1 ELSE n
                IN  m <= sent /\ ~Before(now, at) /\ Dated(Tail(q), now, at, m, sent)
<1> DEFINE t == Tail(q)
<1>1. /\ Head(q) = q[1] /\ Len(q) \in Nat /\ Len(q) > 0 /\ Len(t) = Len(q) - 1
      /\ \A i \in 1..Len(t) : t[i] = q[i + 1]
  BY Popped
<1> HIDE DEF t
<1>2. \A i \in 1..Len(t) : t[i] = q[i + 1] /\ i + 1 \in 1..Len(q) /\ i \in 1..(i + 1 - 1)
  BY <1>1
<1>3. \A i \in 1..Len(t), j \in Nat : j \in 1..(i - 1) =>
        j + 1 \in 1..(i + 1 - 1) /\ t[j] = q[j + 1]
  BY <1>1
<1>4. Dated(t, now, last, n, sent)
  <2> SUFFICES ASSUME NEW i \in 1..Len(t), t[i].kind = "log"
               PROVE  /\ ~Before(now, t[i].at)
                      /\ IF t[i].nth = 0 THEN ~Before(t[i].at, last)
                                         ELSE n < t[i].nth /\ t[i].nth <= sent
                      /\ \A j \in 1..(i - 1) : t[j].kind = "log" =>
                           IF t[i].nth = 0 THEN ~Before(t[i].at, t[j].at)
                                           ELSE t[j].nth < t[i].nth
    BY DEF Dated
  <2>1. t[i] = q[i + 1] /\ i + 1 \in 1..Len(q) /\ q[i + 1].kind = "log"
    BY <1>2
  <2>2. \A j \in 1..(i - 1) : j + 1 \in 1..(i + 1 - 1) /\ t[j] = q[j + 1]
    BY <1>3
  <2>3. /\ ~Before(now, q[i + 1].at)
        /\ IF q[i + 1].nth = 0 THEN ~Before(q[i + 1].at, last)
                               ELSE n < q[i + 1].nth /\ q[i + 1].nth <= sent
    BY <2>1 DEF Dated
  <2>4. \A j \in 1..(i + 1 - 1) : q[j].kind = "log" =>
          IF q[i + 1].nth = 0 THEN ~Before(q[i + 1].at, q[j].at)
                              ELSE q[j].nth < q[i + 1].nth
    BY <2>1 DEF Dated
  <2>5. \A j \in 1..(i - 1) : t[j].kind = "log" =>
          IF t[i].nth = 0 THEN ~Before(t[i].at, t[j].at) ELSE t[j].nth < t[i].nth
    BY <2>1, <2>2, <2>4
  <2> QED BY <2>1, <2>3, <2>5
<1>5. ASSUME Head(q).kind = "log"
      PROVE  LET at == Head(q).at
                 m  == IF Before(at, last) THEN n + 1 ELSE n
             IN  m <= sent /\ ~Before(now, at) /\ Dated(t, now, at, m, sent)
  <2> DEFINE h == Head(q)
             m == IF Before(h.at, last) THEN n + 1 ELSE n
  <2>1. h = q[1] /\ q[1].kind = "log" /\ 1 \in 1..Len(q) /\ q[1].nth \in Nat
    BY <1>1, <1>5, FrameKinds
  <2>2. /\ ~Before(now, h.at) /\ m <= sent
        /\ m # n => h.nth # 0 /\ n < h.nth
    BY <2>1 DEF Dated
  <2>3. \A i \in 1..Len(t) : 1 \in 1..(i + 1 - 1)
    BY <1>1
  <2>4. \A i \in 1..Len(t) : t[i].kind = "log" => t[i].nth \in Nat
    BY <1>2, FrameKinds
  <2>5. \A i \in 1..Len(t) : t[i].kind = "log" =>
          IF t[i].nth = 0 THEN ~Before(t[i].at, h.at)
                          ELSE h.nth < t[i].nth /\ n < t[i].nth /\ t[i].nth <= sent
    BY <1>2, <2>1, <2>3 DEF Dated
  <2> HIDE DEF h
  <2>6. \A i \in 1..Len(t) : t[i].kind = "log" =>
          IF t[i].nth = 0 THEN ~Before(t[i].at, h.at)
                          ELSE m < t[i].nth /\ t[i].nth <= sent
    BY <2>1, <2>2, <2>4, <2>5
  <2> HIDE DEF m
  <2>7. Dated(t, now, h.at, m, sent)
    BY <1>4, <2>6 DEF Dated
  <2> QED BY <2>2, <2>7 DEF h, m
<1> QED BY <1>4, <1>5 DEF t

\* b is before a, or less than a wrap after it.
Reaches(a, b) == \/ b.epoch <= a.epoch
                 \/ b.epoch = a.epoch + 1 /\ b.phase < a.phase

\* No log is a wrap or more older than one that was sent before it.
Recent(q, last) ==
    \A i \in 1..Len(q) : q[i].kind = "log" =>
        /\ Reaches(q[i].at, last)
        /\ \A j \in 1..(i - 1) : q[j].kind = "log" => Reaches(q[i].at, q[j].at)

LogsRecent == Recent(dlt["service"], stamped)

\* What an older log is reached from, and where a log stamped some ticks ago
\* reaches to.
LEMMA ReachesBack ==
    ASSUME NEW a \in Moments, NEW b \in Moments, NEW c \in Moments,
           Reaches(a, b), ~Before(b, c)
    PROVE  Reaches(a, c)
BY WAssumption DEF Moments, Reaches, Before

LEMMA AgoReaches ==
    ASSUME clock \in Moments, NEW lag \in 0..MaxLag
    PROVE  Reaches(Ago(lag), clock)
<1>1. /\ lag \in Nat /\ lag < W /\ W \in Nat /\ clock.epoch \in Int
      /\ clock.phase \in 0..(W - 1)
      /\ clock = [epoch |-> clock.epoch, phase |-> clock.phase]
  BY LagAssumption, WAssumption DEF Moments
<1>2. Ago(lag) = IF lag <= clock.phase
                 THEN [epoch |-> clock.epoch, phase |-> clock.phase - lag]
                 ELSE [epoch |-> clock.epoch - 1, phase |-> clock.phase + W - lag]
  BY <1>1 DEF Ago
<1> QED BY <1>1, <1>2 DEF Reaches

\* A frame comes.
LEMMA RecentAppend ==
    ASSUME NEW q \in Seq(Frames), NEW f \in Frames, NEW last \in Moments,
           NEW now \in Moments, Recent(q, last), ~Before(now, last),
           \A i \in 1..Len(q) : q[i].kind = "log" => ~Before(now, q[i].at),
           f.kind = "log" => Reaches(f.at, now)
    PROVE  Recent(Append(q, f), last)
<1> DEFINE a == Append(q, f)
<1>1. /\ Len(q) \in Nat /\ Len(a) = Len(q) + 1 /\ a[Len(q) + 1] = f
      /\ \A i \in 1..Len(q) : a[i] = q[i]
  BY AppendedTyped
<1>2. \A i \in 1..Len(q) : q[i].kind = "log" => q[i].at \in Moments
  BY FrameKinds
<1> HIDE DEF a
<1> SUFFICES ASSUME NEW i \in 1..Len(a), a[i].kind = "log"
             PROVE  /\ Reaches(a[i].at, last)
                    /\ \A j \in 1..(i - 1) : a[j].kind = "log" => Reaches(a[i].at, a[j].at)
  BY DEF Recent, a
<1>3. \A j \in 1..(i - 1) : j \in 1..Len(q) /\ a[j] = q[j]
  BY <1>1
<1>4. CASE i \in 1..Len(q)
  BY <1>1, <1>3, <1>4 DEF Recent
<1>5. CASE i = Len(q) + 1
  <2>1. a[i] = f /\ f.at \in Moments /\ Reaches(f.at, now)
    BY <1>1, <1>5, FrameKinds
  <2>2. Reaches(f.at, last)
    BY <2>1, ReachesBack
  <2>3. \A j \in 1..Len(q) : q[j].kind = "log" => Reaches(f.at, q[j].at)
    BY <1>2, <2>1, ReachesBack
  <2> QED BY <1>3, <2>1, <2>2, <2>3
<1> QED BY <1>1, <1>4, <1>5

\* A frame is taken: dropped, or a log that becomes the last one.
LEMMA RecentTail ==
    ASSUME NEW q \in Seq(Frames), q # <<>>, NEW last, Recent(q, last)
    PROVE  /\ Recent(Tail(q), last)
           /\ Head(q).kind = "log" => /\ Reaches(Head(q).at, last)
                                      /\ Recent(Tail(q), Head(q).at)
<1> DEFINE t == Tail(q)
<1>1. /\ Head(q) = q[1] /\ Len(q) \in Nat /\ Len(q) > 0 /\ Len(t) = Len(q) - 1
      /\ \A i \in 1..Len(t) : t[i] = q[i + 1]
  BY Popped
<1> HIDE DEF t
<1>2. ASSUME NEW i \in 1..Len(t), t[i].kind = "log"
      PROVE  /\ Reaches(t[i].at, last)
             /\ \A j \in 1..(i - 1) : t[j].kind = "log" => Reaches(t[i].at, t[j].at)
             /\ Head(q).kind = "log" => Reaches(t[i].at, Head(q).at)
  <2>1. /\ t[i] = q[i + 1] /\ i + 1 \in 1..Len(q) /\ 1 \in 1..(i + 1 - 1)
        /\ \A j \in 1..(i - 1) : j + 1 \in 1..(i + 1 - 1) /\ t[j] = q[j + 1]
    BY <1>1
  <2>2. /\ Reaches(q[i + 1].at, last)
        /\ \A j \in 1..(i + 1 - 1) : q[j].kind = "log" => Reaches(q[i + 1].at, q[j].at)
    BY <1>2, <2>1 DEF Recent
  <2> QED BY <1>1, <2>1, <2>2
<1>3. Head(q).kind = "log" => Reaches(Head(q).at, last)
  BY <1>1 DEF Recent
<1>4. Recent(t, last) /\ (Head(q).kind = "log" => Recent(t, Head(q).at))
  BY <1>2 DEF Recent
<1> QED BY <1>3, <1>4 DEF t

TimeKnown == /\ last_timestamp.low = stamped.phase
             /\ last_timestamp.high <= stamped.epoch + late
             /\ ~gap => last_timestamp.high = stamped.epoch + late

\* One log: what the service adds to the upper half of its time is no more than
\* what the moment of the stamp and the count of late logs add up to, and just
\* that when the log is less than a wrap from the last one.
LEMMA DriftStep ==
    ASSUME TypeOK, TimeKnown, NEW f \in Frames, f.kind = "log", Reaches(f.at, stamped),
           NEW p, SvcSendLog(f, p)
    PROVE  TimeKnown'
<1> DEFINE at == f.at
<1>1. /\ at \in Moments /\ stamped \in Moments /\ late \in Nat
      /\ last_timestamp \in [high : Nat, low : 0..(W - 1)]
      /\ Reaches(at, stamped)
  BY FrameKinds DEF TypeOK, SvcTypeOK
<1> HIDE DEF at
<1>2. /\ at.epoch \in Int /\ at.phase \in Int
      /\ stamped.epoch \in Int /\ stamped.phase \in Int
      /\ last_timestamp.high \in Int /\ last_timestamp.low \in Int
  BY <1>1, WAssumption DEF Moments
<1>3. /\ last_timestamp'.high = IF at.phase < last_timestamp.low
                                THEN last_timestamp.high + 1
                                ELSE last_timestamp.high
      /\ last_timestamp'.low = at.phase
      /\ stamped' = at
      /\ late' = IF Before(at, stamped) THEN late + 1 ELSE late
      /\ gap' = (gap \/ ~(Near(stamped, at) \/ Near(at, stamped)))
  BY DEF SvcSendLog, Extend, at
<1>4. /\ last_timestamp.low = stamped.phase
      /\ last_timestamp.high <= stamped.epoch + late
  BY DEF TimeKnown
<1>5. last_timestamp'.high <= at.epoch + late'
  BY <1>1, <1>2, <1>3, <1>4 DEF Before, Reaches
<1>6. ASSUME ~gap, Near(stamped, at) \/ Near(at, stamped)
      PROVE  last_timestamp'.high = at.epoch + late'
  <2>1. last_timestamp.high = stamped.epoch + late
    BY <1>6 DEF TimeKnown
  <2> QED BY <1>1, <1>2, <1>3, <1>4, <1>6, <2>1 DEF Before, Near
<1> QED BY <1>3, <1>5, <1>6 DEF TimeKnown

\* What the service takes keeps LateKnown.
LEMMA LateService ==
    ASSUME TypeOK, LateKnown, Service
    PROVE  LateKnown'
<1> DEFINE q == dlt["service"]
<1>1. ASSUME Take("service")
      PROVE  /\ q \in Seq(Frames) /\ q # <<>> /\ q' = Tail(q) /\ Front("service") = Head(q)
             /\ late \in Nat /\ lagged \in Nat
  BY <1>1 DEF Take, Front, TypeOK, DeviceTypeOK, SvcTypeOK
<1>2. CASE SvcMain \/ SvcReset \/ SvcReadNothing \/ SvcHandOver \/ SvcPing
  <2>1. UNCHANGED <<dlt, clock, lagged, stamped, late>>
    BY <1>2 DEF SvcMain, SvcReset, SvcReadNothing, SvcHandOver, SvcPing, Request, iocVars,
                timeVars
  <2> QED BY <2>1 DEF LateKnown
<1>3. ASSUME Take("service"), UNCHANGED <<clock, lagged, stamped, late>>
      PROVE  LateKnown'
  <2>1. Dated(Tail(q), clock, stamped, late, lagged)
    BY <1>1, <1>3, DatedTail DEF LateKnown
  <2> QED BY <1>1, <1>3, <2>1 DEF LateKnown
<1>4. ASSUME NEW f, f = Front("service"), f.kind = "log", NEW p, SvcSendLog(f, p)
      PROVE  LateKnown'
  <2>1. /\ Take("service") /\ UNCHANGED <<clock, lagged>> /\ stamped' = f.at
        /\ late' = IF Before(f.at, stamped) THEN late + 1 ELSE late
    BY <1>4 DEF SvcSendLog, iocVars
  <2>2. f = Head(q)
    BY <1>1, <1>4, <2>1
  <2>3. /\ late' <= lagged /\ ~Before(clock, f.at)
        /\ Dated(Tail(q), clock, f.at, late', lagged)
    BY <1>1, <1>4, <2>1, <2>2, DatedTail DEF LateKnown
  <2> QED BY <1>1, <2>1, <2>3 DEF LateKnown
<1>5. CASE SvcRead
  <2>1. \/ SvcDrop
        \/ \E e : SvcBootEvent(e)
        \/ \E f, p : f = Front("service") /\ f.kind = "log" /\ SvcSendLog(f, p)
    BY <1>5, Zenon DEF SvcRead
  <2>2. SvcDrop \/ (\E e : SvcBootEvent(e)) =>
          Take("service") /\ UNCHANGED <<clock, lagged, stamped, late>>
    BY DEF SvcDrop, SvcBootEvent, iocVars, timeVars
  <2> QED BY <1>3, <1>4, <2>1, <2>2
<1> QED BY <1>2, <1>5 DEF Service

\* So does what the IOC sends.
LEMMA LateDevice ==
    ASSUME TypeOK, LateKnown, Device, UNCHANGED <<stamped, late>>
    PROVE  LateKnown'
<1> DEFINE q == dlt["service"]
<1>1. /\ q \in Seq(Frames) /\ clock \in Moments /\ stamped \in Moments
      /\ late \in Nat /\ lagged \in Nat
  BY DEF TypeOK, DeviceTypeOK, SvcTypeOK
<1>2. ASSUME NEW f \in Frames, Deliver(f), clock' = clock, lagged' \in Nat, lagged <= lagged',
             f.kind = "log" => /\ ~Before(clock, f.at)
                               /\ IF f.nth = 0 THEN f.at = clock
                                               ELSE f.nth = lagged' /\ lagged < lagged'
      PROVE  LateKnown'
  <2>1. q' = q \/ q' = Append(q, f)
    <3>1. PICK R \in SUBSET {r \in files : Len(dlt[r]) < MaxQueue} :
            dlt' = [r \in Clients |-> IF r \in R THEN Append(dlt[r], View(r, f))
                                                 ELSE dlt[r]]
      BY <1>2 DEF Deliver
    <3> QED BY <3>1 DEF View
  <2>2. /\ Dated(q, clock, stamped, late, lagged')
        /\ Dated(Append(q, f), clock, stamped, late, lagged')
    <3> DEFINE sum == lagged'
    <3>1. /\ sum \in Nat /\ lagged <= sum
          /\ f.kind = "log" => /\ ~Before(clock, f.at)
                               /\ IF f.nth = 0 THEN f.at = clock
                                               ELSE f.nth = sum /\ lagged < sum
      BY <1>2
    <3> HIDE DEF sum
    <3>2. /\ late <= lagged /\ ~Before(clock, stamped)
          /\ Dated(q, clock, stamped, late, lagged)
      BY DEF LateKnown
    <3> HIDE DEF q
    <3>3. /\ Dated(q, clock, stamped, late, sum)
          /\ Dated(Append(q, f), clock, stamped, late, sum)
      BY <1>1, <3>1, <3>2, DatedAppend
    <3> QED BY <3>3 DEF sum
  <2>3. late <= lagged'
    BY <1>1, <1>2 DEF LateKnown
  <2> QED BY <1>2, <2>1, <2>2, <2>3 DEF LateKnown
<1>3. CASE Tick
  <2>1. clock' \in Moments /\ ~Before(clock', clock)
    BY <1>1, <1>3, WAssumption DEF Tick, Moments, Before
  <2>2. UNCHANGED <<dlt, lagged>>
    BY <1>3 DEF Tick
  <2>3. ~Before(clock', stamped)
    BY <1>1, <2>1, MomentsInLine DEF LateKnown
  <2>4. Dated(q, clock', stamped, late, lagged)
    BY <1>1, <2>1, DatedLater DEF LateKnown
  <2> QED BY <2>2, <2>3, <2>4 DEF LateKnown
<1>4. CASE SendLog
  <2>1. PICK args \in ArgLists, lag \in 0..MaxLag :
          /\ lagged' = IF lag > 0 THEN lagged + 1 ELSE lagged
          /\ Deliver(LogFrame(args, lag))
    BY <1>4, Zenon DEF SendLog, LogFrame
  <2> DEFINE f == LogFrame(args, lag)
  <2>2. f \in Frames /\ clock' = clock
    BY <1>4, LogFrameType DEF SendLog, TypeOK
  <2>3. /\ f.at = Ago(lag) /\ f.nth = IF lag > 0 THEN lagged + 1 ELSE 0
    BY DEF LogFrame
  <2>4. lag \in Nat
    BY LagAssumption, WAssumption
  <2>5. /\ ~Before(clock, f.at) /\ lagged' \in Nat /\ lagged <= lagged'
        /\ IF f.nth = 0 THEN f.at = clock ELSE f.nth = lagged' /\ lagged < lagged'
    BY <1>1, <2>1, <2>3, <2>4, AgoBefore
  <2>6. Deliver(f)
    BY <2>1
  <2> HIDE DEF f
  <2> QED BY <1>2, <2>2, <2>5, <2>6
<1>5. CASE SendUnfit
  <2>1. Unfit \in Frames /\ Unfit.kind # "log"
    BY DEF Frames, Unfit
  <2> QED BY <1>1, <1>2, <1>5, <2>1 DEF SendUnfit, iocVars
<1>6. CASE SendBoot
  <2> DEFINE f == [kind |-> "boot", event |-> resend]
  <2>1. f \in Frames /\ f.kind # "log"
    BY <1>6, ResendEvent DEF Frames, Boots, TypeOK
  <2>2. Deliver(f) /\ UNCHANGED <<clock, lagged>>
    BY <1>6 DEF SendBoot
  <2> HIDE DEF f
  <2> QED BY <1>1, <1>2, <2>1, <2>2
<1>7. CASE OtherRequest
  BY <1>7 DEF OtherRequest, Request, LateKnown
<1> QED BY <1>3, <1>4, <1>5, <1>6, <1>7 DEF Device

\* So does the rest, which touches neither the service's frames nor its times.
LEMMA LateStep == TypeOK /\ LateKnown /\ [Next]_vars => LateKnown'
<1> SUFFICES ASSUME TypeOK, LateKnown, [Next]_vars PROVE LateKnown'
  OBVIOUS
<1>1. ASSUME UNCHANGED <<clock, lagged, stamped, late>>, dlt'["service"] = dlt["service"]
      PROVE  LateKnown'
  BY <1>1 DEF LateKnown
<1>2. CASE IocStep
  BY <1>2, LateDevice DEF IocStep, logVars, timeVars
<1>3. CASE ServiceStep
  BY <1>3, LateService DEF ServiceStep
<1>4. CASE Time \/ UNCHANGED vars
  BY <1>1, <1>4 DEF Time, Second, vars, logVars, iocVars, timeVars
<1>5. CASE ToolStep \/ ToolUser
  <2>1. UNCHANGED <<clock, lagged>>
    BY <1>5 DEF ToolStep, ToolUser, Tool, ToolOptions, ToolOpen, ToolAskVersion, ToolAskBoot,
                ToolPoll, ToolPollFails, ToolReadVersion, ToolReadBoot, ToolReadNoMore,
                ToolClose, ToolAgain, Request, iocVars
  <2>2. dlt'["service"] = dlt["service"]
    BY <1>5 DEF ToolStep, ToolUser, Tool, ToolOptions, ToolOpen, ToolAskVersion, ToolAskBoot,
                ToolPoll, ToolPollFails, ToolReadVersion, ToolReadBoot, ToolReadNoMore,
                ToolClose, ToolAgain, Take, TypeOK, DeviceTypeOK
  <2> QED BY <1>1, <1>5, <2>1, <2>2 DEF ToolStep, ToolUser, logVars, timeVars
<1> QED BY <1>2, <1>3, <1>4, <1>5 DEF Next

\* What a step does to the service's frames and to what it knows of the last log.
LEMMA FramesMove ==
    ASSUME TypeOK, [Next]_vars
    PROVE  LET q == dlt["service"]
           IN  \/ q' = q /\ stamped' = stamped
               \/ /\ q # <<>> /\ q' = Tail(q)
                  /\ \/ stamped' = stamped
                     \/ Head(q).kind = "log" /\ stamped' = Head(q).at
               \/ /\ stamped' = stamped
                  /\ \E f \in Frames : /\ q' = Append(q, f)
                                       /\ f.kind = "log" => Reaches(f.at, clock)
<1> DEFINE q == dlt["service"]
           Moved == \/ q' = q /\ stamped' = stamped
                    \/ /\ q # <<>> /\ q' = Tail(q)
                       /\ \/ stamped' = stamped
                          \/ Head(q).kind = "log" /\ stamped' = Head(q).at
                    \/ /\ stamped' = stamped
                       /\ \E f \in Frames : /\ q' = Append(q, f)
                                            /\ f.kind = "log" => Reaches(f.at, clock)
<1>1. CASE IocStep
  <2>1. stamped' = stamped
    BY <1>1 DEF IocStep, logVars, timeVars
  <2>2. ASSUME NEW f \in Frames, Deliver(f), f.kind = "log" => Reaches(f.at, clock)
        PROVE  Moved
    <3>1. PICK R \in SUBSET {r \in files : Len(dlt[r]) < MaxQueue} :
            dlt' = [r \in Clients |-> IF r \in R THEN Append(dlt[r], View(r, f))
                                                 ELSE dlt[r]]
      BY <2>2 DEF Deliver
    <3>2. q' = q \/ q' = Append(q, f)
      BY <3>1 DEF View
    <3> QED BY <2>1, <2>2, <3>2
  <2>3. CASE SendLog
    <3>1. PICK args \in ArgLists, lag \in 0..MaxLag : Deliver(LogFrame(args, lag))
      BY <2>3, Zenon DEF SendLog, LogFrame
    <3>2. LogFrame(args, lag) \in Frames /\ LogFrame(args, lag).at = Ago(lag)
      BY LogFrameType DEF LogFrame, TypeOK
    <3>3. Reaches(Ago(lag), clock)
      BY AgoReaches DEF TypeOK, DeviceTypeOK
    <3> QED BY <2>2, <3>1, <3>2, <3>3
  <2>4. CASE SendUnfit
    <3>1. Unfit \in Frames /\ Unfit.kind # "log"
      BY DEF Frames, Unfit
    <3> QED BY <2>2, <2>4, <3>1 DEF SendUnfit
  <2>5. CASE SendBoot
    <3> DEFINE f == [kind |-> "boot", event |-> resend]
    <3>1. f \in Frames /\ f.kind # "log" /\ Deliver(f)
      BY <2>5, ResendEvent DEF Frames, Boots, TypeOK, SendBoot
    <3> HIDE DEF f
    <3> QED BY <2>2, <3>1
  <2>6. CASE Tick \/ OtherRequest
    BY <2>1, <2>6 DEF Tick, OtherRequest
  <2> QED BY <1>1, <2>3, <2>4, <2>5, <2>6 DEF IocStep, Device
<1>2. CASE ServiceStep
  <2>1. ASSUME Take("service") PROVE q # <<>> /\ q' = Tail(q) /\ Front("service") = Head(q)
    BY <2>1 DEF Take, Front, TypeOK, DeviceTypeOK
  <2>2. CASE SvcMain \/ SvcReset \/ SvcReadNothing \/ SvcHandOver \/ SvcPing
    BY <2>2 DEF SvcMain, SvcReset, SvcReadNothing, SvcHandOver, SvcPing, timeVars
  <2>3. CASE SvcRead
    <3>1. \/ SvcDrop
          \/ \E e : SvcBootEvent(e)
          \/ \E f, p : f = Front("service") /\ f.kind = "log" /\ SvcSendLog(f, p)
      BY <2>3, Zenon DEF SvcRead
    <3>2. SvcDrop \/ (\E e : SvcBootEvent(e)) => Take("service") /\ stamped' = stamped
      BY DEF SvcDrop, SvcBootEvent, timeVars
    <3>3. \A f, p : SvcSendLog(f, p) => Take("service") /\ stamped' = f.at
      BY DEF SvcSendLog
    <3> QED BY <2>1, <3>1, <3>2, <3>3
  <2> QED BY <1>2, <2>2, <2>3 DEF ServiceStep, Service
<1>3. CASE Time \/ UNCHANGED vars
  BY <1>3 DEF Time, Second, vars, logVars, timeVars
<1>4. CASE ToolStep \/ ToolUser
  <2>1. q' = q
    BY <1>4 DEF ToolStep, ToolUser, Tool, ToolOptions, ToolOpen, ToolAskVersion, ToolAskBoot,
                ToolPoll, ToolPollFails, ToolReadVersion, ToolReadBoot, ToolReadNoMore,
                ToolClose, ToolAgain, Take, TypeOK, DeviceTypeOK
  <2> QED BY <1>4, <2>1 DEF ToolStep, ToolUser, logVars, timeVars
<1> QED BY <1>1, <1>2, <1>3, <1>4 DEF Next

LEMMA RecentStep == TypeOK /\ LateKnown /\ LogsRecent /\ [Next]_vars => LogsRecent'
<1> SUFFICES ASSUME TypeOK, LateKnown, LogsRecent, [Next]_vars PROVE LogsRecent'
  OBVIOUS
<1> DEFINE q == dlt["service"]
<1>1. /\ q \in Seq(Frames) /\ clock \in Moments /\ stamped \in Moments
      /\ Recent(q, stamped) /\ ~Before(clock, stamped)
      /\ \A i \in 1..Len(q) : q[i].kind = "log" => ~Before(clock, q[i].at)
  BY DEF TypeOK, DeviceTypeOK, SvcTypeOK, LogsRecent, LateKnown, Dated
<1>2. LogsRecent' = Recent(q', stamped')
  BY DEF LogsRecent
<1>3. \/ q' = q /\ stamped' = stamped
      \/ /\ q # <<>> /\ q' = Tail(q)
         /\ \/ stamped' = stamped
            \/ Head(q).kind = "log" /\ stamped' = Head(q).at
      \/ /\ stamped' = stamped
         /\ \E f \in Frames : /\ q' = Append(q, f)
                              /\ f.kind = "log" => Reaches(f.at, clock)
  BY FramesMove
<1> HIDE DEF q
<1>4. CASE q # <<>> /\ q' = Tail(q)
           /\ (stamped' = stamped \/ (Head(q).kind = "log" /\ stamped' = Head(q).at))
  BY <1>1, <1>2, <1>4, RecentTail
<1>5. ASSUME NEW f \in Frames, q' = Append(q, f), stamped' = stamped,
             f.kind = "log" => Reaches(f.at, clock)
      PROVE  LogsRecent'
  <2>1. Recent(Append(q, f), stamped)
    BY <1>1, <1>5, RecentAppend
  <2> QED BY <1>2, <1>5, <2>1
<1> QED BY <1>1, <1>2, <1>3, <1>4, <1>5

\* For a clock of any width, any logs, late or lost: the time of a log is never
\* ahead of the moment of its stamp by more than one wrap per late log, of which
\* there are no more than logs the IOC did not stamp on sending them; and it is
\* ahead by just that as long as no two logs in a row are a whole wrap apart.
THEOREM DriftIsKnown == Spec => []DriftKnown
<1> DEFINE Inv == TimeKnown /\ LateKnown /\ LogsRecent
<1>1. Init => Inv
  <2> SUFFICES ASSUME Init PROVE Inv
    OBVIOUS
  <2>1. /\ late = 0 /\ last_timestamp = [high |-> 0, low |-> 0]
        /\ stamped = [epoch |-> 0, phase |-> 0]
    BY Zenon DEF Init, LoggingInit
  <2>2. /\ lagged = 0 /\ dlt["service"] = <<>>
        /\ clock.epoch = 0 /\ clock.phase \in 0..(W - 1)
    BY DEF Init, DeviceInit
  <2>3. ~Before(clock, stamped)
    BY <2>1, <2>2, WAssumption DEF Before
  <2>4. Dated(dlt["service"], clock, stamped, late, lagged)
    BY <2>2 DEF Dated
  <2>5. LogsRecent
    BY <2>2 DEF LogsRecent, Recent
  <2> QED BY <2>1, <2>2, <2>3, <2>4, <2>5 DEF TimeKnown, LateKnown
<1>2. TypeOK /\ Inv /\ [Next]_vars => TimeKnown'
  <2> SUFFICES ASSUME TypeOK, Inv, [Next]_vars PROVE TimeKnown'
    OBVIOUS
  <2>1. CASE UNCHANGED timeVars
    BY <2>1 DEF timeVars, TimeKnown
  <2>2. CASE \E f \in Frames, garbage \in [1..NArgs -> SizeBytes] :
               /\ f = Front("service") /\ f.kind = "log"
               /\ SvcSendLog(f, Parse(f.args, garbage))
    <3>1. PICK f \in Frames : /\ f = Front("service") /\ f.kind = "log"
                              /\ \E p : SvcSendLog(f, p)
      BY <2>2, Zenon
    <3>2. PICK p : SvcSendLog(f, p)
      BY <3>1
    <3>3. Reaches(f.at, stamped)
      <4>1. /\ dlt["service"] \in Seq(Frames) /\ dlt["service"] # <<>>
            /\ f = Head(dlt["service"])
        BY <3>1, <3>2 DEF SvcSendLog, Take, Front, TypeOK, DeviceTypeOK
      <4> QED BY <3>1, <4>1, RecentTail DEF LogsRecent
    <3> QED BY <3>1, <3>2, <3>3, DriftStep
  <2> QED BY <2>1, <2>2, LogStep
<1>3. Inv => DriftKnown
  BY DEF TimeKnown, LateKnown, DriftKnown
<1> QED BY <1>1, <1>2, <1>3, LateStep, RecentStep, TypedInit, TypedStep, PTL DEF Spec

\* No step of any program makes the 64-bit time smaller.
THEOREM TimeIsMonotone == Spec => TimeNeverGoesBack
<1> DEFINE Forward == \/ last_timestamp.high < last_timestamp'.high
                      \/ /\ last_timestamp.high = last_timestamp'.high
                         /\ last_timestamp.low <= last_timestamp'.low
<1>1. TypeOK /\ [Next]_vars => [Forward]_last_timestamp
  <2> SUFFICES ASSUME TypeOK, [Next]_vars, last_timestamp' # last_timestamp
               PROVE  Forward
    OBVIOUS
  <2>1. PICK f \in Frames : f.kind = "log" /\ \E p : SvcSendLog(f, p)
    BY LogStep DEF timeVars
  <2>2. f.at \in Moments
    BY <2>1, FrameKinds
  <2>3. last_timestamp' = Extend(f.at.phase)
    BY <2>1 DEF SvcSendLog
  <2>4. last_timestamp \in [high : Nat, low : 0..(W - 1)]
    BY DEF TypeOK, SvcTypeOK
  <2> QED BY <2>2, <2>3, <2>4, WAssumption DEF Extend, Moments
<1> QED BY <1>1, TypedInit, TypedStep, PTL DEF Spec, TimeNeverGoesBack

\* An argument that is not a uint8 is read from where it was written to where
\* it ends, when it is read at the right place.
LEMMA ArgumentInPlace ==
    ASSUME NEW p \in [cursor : Int, place : Int, ok : BOOLEAN],
           NEW t \in ArgTypes, NEW g \in Int
    PROVE  /\ ParseArgument(p, t, g) \in [cursor : Int, place : Int, ok : BOOLEAN]
           /\ p.cursor = p.place /\ t # "uint8"
                => ParseArgument(p, t, g).cursor = ParseArgument(p, t, g).place
<1>1. Width(t) \in Int /\ Advance(t) \in Int /\ (t # "uint8" => Advance(t) = Width(t))
  BY DEF Width, Advance
<1>2. CASE ~p.ok \/ t = "float32"
  <2>1. ParseArgument(p, t, g) = [p EXCEPT !.ok = FALSE]
    BY <1>2 DEF ParseArgument
  <2> QED BY <2>1
<1>3. CASE p.ok /\ t = "none"
  BY <1>3 DEF ParseArgument
<1>4. CASE p.ok /\ t = "string"
  <2> DEFINE size == IF p.cursor = p.place THEN StringSize ELSE g
  <2>1. size \in Int /\ StringSize \in Int /\ (size <= MaxArg) \in BOOLEAN
    BY SizesAssumption
  <2>2. ParseArgument(p, t, g) = [cursor |-> p.cursor + 1 + size,
                                  place  |-> p.place + 1 + StringSize,
                                  ok     |-> size <= MaxArg]
    BY <1>4 DEF ParseArgument
  <2>3. p.cursor = p.place => size = StringSize
    OBVIOUS
  <2> HIDE DEF size
  <2> QED BY <2>1, <2>2, <2>3
<1>5. CASE p.ok /\ t \notin {"float32", "none", "string"}
  <2>1. ParseArgument(p, t, g) = [p EXCEPT !.cursor = p.cursor + Advance(t),
                                           !.place  = p.place + Width(t)]
    BY <1>5 DEF ParseArgument
  <2> DEFINE a == p.cursor + Advance(t)
             b == p.place + Width(t)
  <2>2. a \in Int /\ b \in Int
        /\ (p.cursor = p.place /\ t # "uint8" => a = b)
    BY <1>1
  <2> HIDE DEF a, b
  <2>3. ParseArgument(p, t, g) = [p EXCEPT !.cursor = a, !.place = b]
    BY <2>1 DEF a, b
  <2> QED BY <2>2, <2>3
<1> QED BY <1>2, <1>3, <1>4, <1>5

LEMMA ParseInPlace ==
    ASSUME NEW args \in [1..NArgs -> ArgTypes], NEW garbage \in [1..NArgs -> SizeBytes],
           NEW i \in 1..NArgs, \A j \in 1..(i - 1) : args[j] # "uint8"
    PROVE  Parse(args, garbage)[i].cursor = Parse(args, garbage)[i].place
<1> DEFINE p1 == [cursor |-> 0, place |-> 0, ok |-> TRUE]
           p2 == ParseArgument(p1, args[1], garbage[1])
           p3 == ParseArgument(p2, args[2], garbage[2])
           p4 == ParseArgument(p3, args[3], garbage[3])
           p5 == ParseArgument(p4, args[4], garbage[4])
           P  == [cursor : Int, place : Int, ok : BOOLEAN]
<1>1. /\ args[1] \in ArgTypes /\ args[2] \in ArgTypes /\ args[3] \in ArgTypes
      /\ garbage[1] \in Int /\ garbage[2] \in Int /\ garbage[3] \in Int
  <2>1. /\ garbage[1] \in SizeBytes /\ garbage[2] \in SizeBytes
        /\ garbage[3] \in SizeBytes
    OBVIOUS
  <2>2. SizeBytes \subseteq Int
    BY SizesAssumption
  <2>3. args[1] \in ArgTypes /\ args[2] \in ArgTypes /\ args[3] \in ArgTypes
    OBVIOUS
  <2> HIDE DEF p1, p2, p3, p4, p5
  <2> QED BY <2>1, <2>2, <2>3, Zenon
<1>2. Parse(args, garbage) = <<p1, p2, p3, p4, p5>>
  BY DEF Parse
<1>3. p1 \in P /\ p1.cursor = p1.place
  OBVIOUS
<1> HIDE DEF p1
<1>4. p2 \in P /\ (args[1] # "uint8" => p2.cursor = p2.place)
  BY <1>1, <1>3, ArgumentInPlace
<1> HIDE DEF p2
<1>5. p3 \in P /\ (p2.cursor = p2.place /\ args[2] # "uint8" => p3.cursor = p3.place)
  BY <1>1, <1>4, ArgumentInPlace
<1> HIDE DEF p3
<1>6. p4 \in P /\ (p3.cursor = p3.place /\ args[3] # "uint8" => p4.cursor = p4.place)
  BY <1>1, <1>5, ArgumentInPlace
<1> HIDE DEF p4, p5
<1>7. i = 1 \/ i = 2 \/ i = 3 \/ i = 4
  OBVIOUS
<1>8. CASE i = 1
  BY <1>2, <1>3, <1>8
<1>9. CASE i = 2
  BY <1>2, <1>4, <1>9
<1>10. CASE i = 3
  BY <1>2, <1>4, <1>5, <1>10
<1>11. CASE i = 4
  BY <1>2, <1>4, <1>5, <1>6, <1>11
<1> QED BY <1>7, <1>8, <1>9, <1>10, <1>11

\* For any argument lists and any bytes where the IOC wrote none: an argument is
\* read where it was written unless a uint8 comes before it, and is handed over
\* unless an unused one does.
THEOREM ArgumentsAreInPlace == Spec => []ArgumentsArrive
<1>1. Init => ArgumentsArrive
  <2> SUFFICES ASSUME Init PROVE svc.pc # "dlt"
    BY DEF ArgumentsArrive
  <2>1. PICK used : LoggingInit(used)
    BY Zenon DEF Init
  <2> QED BY <2>1 DEF LoggingInit
<1>2. TypeOK /\ ArgumentsArrive /\ [Next]_vars => ArgumentsArrive'
  <2> SUFFICES ASSUME TypeOK, ArgumentsArrive, [Next]_vars PROVE ArgumentsArrive'
    OBVIOUS
  <2>1. CASE svc'.pc = "dlt" => svc' = svc
    BY <2>1 DEF ArgumentsArrive
  <2>2. ASSUME NEW f \in Frames, NEW garbage \in [1..NArgs -> SizeBytes],
               f.kind = "log", SvcSendLog(f, Parse(f.args, garbage))
        PROVE  ArgumentsArrive'
    <3> DEFINE p == Parse(f.args, garbage)
               right == {i \in 1..NArgs : p[i].cursor = p[i].place}
    <3>1. f.args \in [1..NArgs -> ArgTypes]
      BY <2>2, FrameKinds, ArgListsAssumption
    <3>2. svc' = [svc EXCEPT !.pc = "dlt", !.args = f.args,
                             !.given = Logged(f.args), !.right = right]
      BY <2>2 DEF SvcSendLog
    <3>3. \A i \in 1..NArgs : (\A j \in 1..(i - 1) : f.args[j] # "uint8") => i \in right
      BY <3>1, ParseInPlace
    <3> HIDE DEF right, p
    <3>4. /\ svc'.args = f.args /\ svc'.given = Logged(f.args) /\ svc'.right = right
      BY <3>2 DEF TypeOK, SvcTypeOK
    <3> SUFFICES ASSUME NEW i \in 1..NArgs, f.args[i] # "none"
                 PROVE  LET before == {f.args[j] : j \in 1..(i - 1)}
                        IN  /\ i \in right \/ "uint8" \in before
                            /\ i \in Logged(f.args) \/ "none" \in before
      BY <3>4 DEF ArgumentsArrive
    <3>5. i \in right \/ "uint8" \in {f.args[j] : j \in 1..(i - 1)}
      BY <3>3
    <3>6. i \in Logged(f.args) \/ "none" \in {f.args[j] : j \in 1..(i - 1)}
      BY DEF Logged
    <3> QED BY <3>5, <3>6
  <2> QED BY <2>1, <2>2, LogStep
<1> QED BY <1>1, <1>2, TypedInit, TypedStep, PTL DEF Spec

----------------------------------------------------------------------------
(* The diagnostic tool *)

\* What of the requests has been sent, at each step of the tool.
Asking ==
    /\ tool.pc \in {"start", "open", "ask_version"} => tool.sent = {}
    /\ tool.pc = "ask_boot" => tool.sent = tool.want \cap {"version"}
    /\ \/ tool.pc \in {"poll", "version", "boot"}
       \/ tool.pc \in {"close", "done"} /\ tool.result = 0
       => tool.sent = tool.want /\ tool.want # {}

LEMMA AskingStep ==
    ASSUME TypeOK, Asking, Tool \/ ToolOptions \/ ToolAgain
    PROVE  Asking'
<1> DEFINE At(p) == tool' = [tool EXCEPT !.pc = p]
<1>1. /\ tool = [pc |-> tool.pc, want |-> tool.want, sent |-> tool.sent,
                 ready |-> tool.ready, result |-> tool.result]
      /\ tool.want \in SUBSET {"version", "boot"}
  BY DEF TypeOK, ToolTypeOK, Asked
<1>2. ASSUME NEW r, r # 0, tool' = Ended(tool, r) PROVE Asking'
  BY <1>1, <1>2 DEF Asking, Ended
<1>3. ASSUME tool.pc \in {"poll", "version", "boot"}, tool' = Ended(tool, 0)
      PROVE  Asking'
  BY <1>1, <1>3 DEF Asking, Ended
<1>4. CASE ToolOptions
  <2>1. tool.pc = "start"
        /\ \/ \E S : tool' = [tool EXCEPT !.pc = "open", !.want = S]
           \/ tool' = Ended(tool, -2)
    BY <1>4, Zenon DEF ToolOptions, ToolAt
  <2>2. ASSUME NEW S, tool' = [tool EXCEPT !.pc = "open", !.want = S] PROVE Asking'
    BY <1>1, <2>1, <2>2 DEF Asking
  <2>3. tool' = Ended(tool, -2) => Asking'
    BY <1>2
  <2> QED BY <2>1, <2>2, <2>3
<1>5. CASE ToolOpen
  <2>1. tool.pc = "open" /\ (At("ask_version") \/ tool' = Ended(tool, -1))
    BY <1>5, Zenon DEF ToolOpen, ToolAt
  <2>2. At("ask_version") => Asking'
    BY <1>1, <2>1 DEF Asking
  <2> QED BY <1>2, <2>1, <2>2
<1>6. CASE ToolAskVersion
  <2>1. /\ tool.pc = "ask_version"
        /\ \/ /\ "version" \in tool.want
              /\ tool' = [tool EXCEPT !.pc = "ask_boot", !.sent = {"version"}]
           \/ "version" \notin tool.want /\ At("ask_boot")
           \/ tool' = Ended(tool, -1)
    BY <1>6, Zenon DEF ToolAskVersion, ToolAt
  <2>2. CASE /\ "version" \in tool.want
             /\ tool' = [tool EXCEPT !.pc = "ask_boot", !.sent = {"version"}]
    BY <1>1, <2>2 DEF Asking
  <2>3. CASE "version" \notin tool.want /\ At("ask_boot")
    BY <1>1, <2>1, <2>3 DEF Asking
  <2> QED BY <1>2, <2>1, <2>2, <2>3
<1>7. CASE ToolAskBoot
  <2>1. /\ tool.pc = "ask_boot"
        /\ \/ /\ "boot" \in tool.want
              /\ tool' = [tool EXCEPT !.pc = "poll", !.sent = tool.want]
           \/ "boot" \notin tool.want /\ tool.sent # {} /\ At("poll")
           \/ tool' = Ended(tool, 255) \/ tool' = Ended(tool, -1)
    BY <1>7, Zenon DEF ToolAskBoot, ToolAt
  <2>2. CASE /\ "boot" \in tool.want
             /\ tool' = [tool EXCEPT !.pc = "poll", !.sent = tool.want]
    <3>1. tool'.pc = "poll" /\ tool'.sent = tool.want /\ tool'.want = tool.want
      BY <1>1, <2>2
    <3> QED BY <2>2, <3>1 DEF Asking
  <2>3. CASE "boot" \notin tool.want /\ tool.sent # {} /\ At("poll")
    <3>1. tool.sent = tool.want
      BY <1>1, <2>1, <2>3 DEF Asking
    <3>2. tool'.pc = "poll" /\ tool'.sent = tool.sent /\ tool'.want = tool.want
      BY <1>1, <2>3
    <3> QED BY <2>3, <3>1, <3>2 DEF Asking
  <2> QED BY <1>2, <2>1, <2>2, <2>3
<1>8. CASE ToolPoll
  <2>1. /\ tool.pc = "poll"
        /\ \/ tool' = Ended(tool, 0)
           \/ \E R : tool' = [tool EXCEPT !.pc = "version", !.ready = R]
    BY <1>8, Zenon DEF ToolPoll, ToolAt
  <2>2. ASSUME NEW R, tool' = [tool EXCEPT !.pc = "version", !.ready = R]
        PROVE  Asking'
    BY <1>1, <2>1, <2>2 DEF Asking
  <2> QED BY <1>3, <2>1, <2>2
<1>9. CASE ToolPollFails \/ ToolReadNoMore \/ ToolReadVersion
  <2>1. \/ tool' = Ended(tool, -1)
        \/ tool.pc \in {"version", "boot"} /\ tool' = Ended(tool, 0)
        \/ tool.pc = "version" /\ At("boot")
    BY <1>9, Zenon DEF ToolPollFails, ToolReadNoMore, ToolReadVersion, ToolAt
  <2>2. tool.pc = "version" /\ At("boot") => Asking'
    BY <1>1 DEF Asking
  <2> QED BY <1>2, <1>3, <2>1, <2>2
<1>10. CASE ToolReadBoot
  BY <1>10 DEF ToolReadBoot, Asking
<1>11. CASE ToolClose \/ ToolAgain
  BY <1>1, <1>11 DEF ToolClose, ToolAgain, NoTool, ToolAt, Asking
<1> QED BY <1>4, <1>5, <1>6, <1>7, <1>8, <1>9, <1>10, <1>11 DEF Tool

\* With any options and any failure: the tool ends with 0 only if all it was
\* asked for, and that is something, has been requested of the IOC.
THEOREM SuccessIsHonest == Spec => []SuccessMeansAsked
<1>1. Init => Asking
  BY DEF Init, ToolInit, NoTool, Asking
<1>2. TypeOK /\ Asking /\ [Next]_vars => Asking'
  <2> SUFFICES ASSUME TypeOK, Asking, [Next]_vars PROVE Asking'
    OBVIOUS
  <2>1. CASE UNCHANGED tool
    BY <2>1 DEF Asking
  <2>2. CASE ToolStep \/ ToolUser
    BY <2>2, AskingStep DEF ToolStep, ToolUser
  <2> QED BY <2>1, <2>2 DEF Next, IocStep, ServiceStep, Time, vars
<1>3. Asking => SuccessMeansAsked
  BY DEF Asking, SuccessMeansAsked, ToolAt
<1> QED BY <1>1, <1>2, <1>3, TypedInit, TypedStep, PTL DEF Spec

----------------------------------------------------------------------------
(* The boot events on their way: until they are asked for twice, those not   *)
(* read and those not sent are in the order they happened, and none of them  *)
(* is older than the start of the boot loader the service knows of.          *)

Ordered(q, next, start) ==
    /\ \A i \in 1..Len(q) : q[i].kind = "boot" =>
         start <= Events[q[i].event].at /\ (next # 0 => q[i].event < next)
    /\ \A i, j \in 1..Len(q) : i < j /\ q[i].kind = "boot" /\ q[j].kind = "boot"
         => q[i].event <= q[j].event
    /\ next # 0 => start <= Events[next].at

NoBoots(q) == \A i \in 1..Len(q) : q[i].kind # "boot"

EventsInOrder ==
    /\ requests = 0 => /\ resend = 0 /\ abl_start_timestamp = 0
                       /\ NoBoots(dlt["service"])
    /\ requests <= 1 => Ordered(dlt["service"], resend, abl_start_timestamp)

\* A later event does not have an earlier time.
LEMMA EventsSorted ==
    ASSUME NEW i \in DOMAIN Events, NEW j \in DOMAIN Events, i <= j
    PROVE  /\ i \in Nat /\ j \in Nat
           /\ Events[i].at \in Nat /\ Events[j].at \in Nat
           /\ Events[i].at <= Events[j].at
<1>1. DOMAIN Events = 1..Len(Events) /\ Len(Events) \in Nat
  BY EventsAssumption
<1>2. Events[i].at \in Nat /\ Events[j].at \in Nat
  BY EventTyped
<1>3. Events[i].at <= Events[j].at
  BY EventsAssumption, Zenon
<1> QED BY <1>1, <1>2, <1>3

LEMMA AppendOther ==
    ASSUME NEW q \in Seq(Frames), NEW f \in Frames, f.kind # "boot",
           NEW next, NEW start
    PROVE  /\ Ordered(q, next, start) => Ordered(Append(q, f), next, start)
           /\ NoBoots(q) => NoBoots(Append(q, f))
<1>1. \A i \in 1..Len(Append(q, f)) :
        \/ i = Len(q) + 1 /\ Append(q, f)[i] = f
        \/ i \in 1..Len(q) /\ Append(q, f)[i] = q[i]
  BY AppendedTyped
<1> DEFINE a == Append(q, f)
<1> HIDE DEF a
<1> QED BY <1>1, Zenon DEF Ordered, NoBoots, a

LEMMA AppendBoot ==
    ASSUME NEW q \in Seq(Frames), NEW r \in DOMAIN Events, NEW next, NEW start \in Nat,
           next = 0 \/ (next = r + 1 /\ next \in DOMAIN Events),
           Ordered(q, r, start)
    PROVE  /\ Ordered(q, next, start)
           /\ Ordered(Append(q, [kind |-> "boot", event |-> r]), next, start)
<1> DEFINE f == [kind |-> "boot", event |-> r]
           a == Append(q, f)
<1>1. f \in Frames /\ f.kind = "boot" /\ f.event = r
  BY DEF Frames, Boots
<1> HIDE DEF f
<1>2. \A i \in 1..Len(a) :
        \/ i = Len(q) + 1 /\ a[i] = f
        \/ i \in 1..Len(q) /\ a[i] = q[i]
  <2>1. /\ Len(q) \in Nat /\ Len(a) = Len(q) + 1 /\ a[Len(q) + 1] = f
        /\ \A i \in 1..Len(q) : a[i] = q[i]
    BY <1>1, AppendedTyped
  <2> HIDE DEF a
  <2> QED BY <2>1
<1> HIDE DEF a
<1>3. r \in Nat \ {0} /\ Len(q) \in Nat
  BY EventsAssumption, AppendedTyped, <1>1
<1>4. start <= Events[r].at
  BY <1>3 DEF Ordered
<1>5. \A i \in 1..Len(q) : q[i].kind = "boot" =>
          start <= Events[q[i].event].at /\ q[i].event < r /\ q[i].event \in Nat
  <2> SUFFICES ASSUME NEW i \in 1..Len(q), q[i].kind = "boot"
               PROVE  start <= Events[q[i].event].at /\ q[i].event < r
                      /\ q[i].event \in Nat
    OBVIOUS
  <2>1. q[i] \in Frames
    OBVIOUS
  <2>2. q[i].event \in DOMAIN Events
    BY <2>1, FrameKinds
  <2> QED BY <1>3, <2>2, EventsAssumption DEF Ordered
<1>6. next # 0 => start <= Events[next].at
  <2> SUFFICES ASSUME next # 0 PROVE start <= Events[next].at
    OBVIOUS
  <2>1. Events[r].at \in Nat /\ Events[next].at \in Nat
        /\ Events[r].at <= Events[next].at
    BY <1>3, EventsSorted
  <2> QED BY <1>4, <2>1
<1>7. next # 0 => next = r + 1
  OBVIOUS
<1>8. Ordered(q, next, start)
  BY <1>3, <1>5, <1>6, <1>7 DEF Ordered
<1>9. \A i \in 1..Len(a) : a[i].kind = "boot" =>
         start <= Events[a[i].event].at /\ (next # 0 => a[i].event < next)
  <2> SUFFICES ASSUME NEW i \in 1..Len(a), a[i].kind = "boot"
               PROVE  start <= Events[a[i].event].at /\ (next # 0 => a[i].event < next)
    OBVIOUS
  <2>1. CASE i = Len(q) + 1 /\ a[i] = f
    BY <1>1, <1>3, <1>4, <1>7, <2>1
  <2>2. CASE i \in 1..Len(q) /\ a[i] = q[i]
    BY <1>3, <1>5, <1>7, <2>2
  <2> QED BY <1>2, <2>1, <2>2
<1>10. \A i, j \in 1..Len(a) : i < j /\ a[i].kind = "boot" /\ a[j].kind = "boot"
         => a[i].event <= a[j].event
  <2> SUFFICES ASSUME NEW i \in 1..Len(a), NEW j \in 1..Len(a), i < j,
                      a[i].kind = "boot", a[j].kind = "boot"
               PROVE  a[i].event <= a[j].event
    OBVIOUS
  <2>1. CASE j = Len(q) + 1
    <3>1. i \in 1..Len(q) /\ a[i] = q[i] /\ a[j] = f
      BY <1>2, <1>3, <2>1
    <3> QED BY <1>1, <1>3, <1>5, <3>1
  <2>2. CASE j # Len(q) + 1
    <3>1. i \in 1..Len(q) /\ j \in 1..Len(q) /\ a[i] = q[i] /\ a[j] = q[j]
      BY <1>2, <1>3, <2>2
    <3> QED BY <3>1 DEF Ordered
  <2> QED BY <2>1, <2>2
<1> QED BY <1>6, <1>8, <1>9, <1>10 DEF Ordered, a, f

\* What is left when a frame is taken: the start may become the time of that frame.
LEMMA TailOrdered ==
    ASSUME NEW q \in Seq(Frames), q # <<>>, NEW next \in 0..Len(Events), NEW start
    PROVE  /\ Ordered(q, next, start) => Ordered(Tail(q), next, start)
           /\ Ordered(q, next, start) /\ Head(q).kind = "boot"
                => Ordered(Tail(q), next, Events[Head(q).event].at)
           /\ NoBoots(q) => NoBoots(Tail(q))
<1> DEFINE t == Tail(q)
<1>1. /\ Head(q) = q[1] /\ Len(q) \in Nat /\ Len(q) > 0 /\ Len(t) = Len(q) - 1
      /\ \A i \in 1..Len(t) : t[i] = q[i + 1]
  BY Popped
<1> HIDE DEF t
<1>2. \A i \in 1..Len(t) : t[i] = q[i + 1] /\ i + 1 \in 1..Len(q) /\ i + 1 > 1
  BY <1>1
<1>3. \A i, j \in 1..Len(t) : i < j => i + 1 < j + 1
  BY <1>1
<1>4. Ordered(q, next, start) => Ordered(t, next, start)
  BY <1>2, <1>3 DEF Ordered
<1>5. ASSUME Ordered(q, next, start), Head(q).kind = "boot"
      PROVE  Ordered(t, next, Events[Head(q).event].at)
  <2> DEFINE h == Head(q).event
  <2>1. \A i \in 1..Len(q) : q[i].kind = "boot" => q[i].event \in DOMAIN Events
    BY FrameKinds
  <2>2. 1 \in 1..Len(q) /\ h = q[1].event /\ q[1].kind = "boot" /\ h \in DOMAIN Events
    BY <1>1, <1>5, <2>1
  <2>3. \A i \in 1..Len(t) : t[i].kind = "boot" => Events[h].at <= Events[t[i].event].at
    <3> SUFFICES ASSUME NEW i \in 1..Len(t), t[i].kind = "boot"
                 PROVE  Events[h].at <= Events[t[i].event].at
      OBVIOUS
    <3>1. h <= t[i].event /\ t[i].event \in DOMAIN Events
      BY <1>2, <1>5, <2>1, <2>2 DEF Ordered
    <3> QED BY <2>2, <3>1, EventsSorted
  <2>4. next # 0 => Events[h].at <= Events[next].at
    <3> SUFFICES ASSUME next # 0 PROVE Events[h].at <= Events[next].at
      OBVIOUS
    <3>1. h < next
      BY <1>5, <2>2 DEF Ordered
    <3>2. next \in DOMAIN Events /\ h \in Nat /\ next \in Nat
      BY <2>2, EventsAssumption
    <3>3. h <= next
      BY <3>1, <3>2
    <3> QED BY <2>2, <3>2, <3>3, EventsSorted
  <2> HIDE DEF h
  <2>5. Ordered(t, next, Events[h].at)
    BY <1>2, <1>3, <1>5, <2>3, <2>4 DEF Ordered
  <2> QED BY <2>5 DEF h
<1>6. NoBoots(q) => NoBoots(t)
  BY <1>2 DEF NoBoots
<1> QED BY <1>4, <1>5, <1>6 DEF t

\* The first request; after the second one nothing is known of the order.
LEMMA InOrderRequest ==
    ASSUME DeviceTypeOK, EventsInOrder, Request,
           UNCHANGED <<dlt, abl_start_timestamp>>
    PROVE  EventsInOrder'
<1> DEFINE q == dlt["service"]
<1>1. requests \in 0..2 /\ requests' = IF requests = 2 THEN 2 ELSE requests + 1
  BY DEF DeviceTypeOK, Request
<1>2. ASSUME requests = 0 PROVE Ordered(q, resend', 0)
  <2>1. NoBoots(q)
    BY <1>2 DEF EventsInOrder
  <2>2. resend' = 0 \/ (resend' = 1 /\ 1 \in DOMAIN Events)
    <3>1. Len(Events) \in Nat /\ DOMAIN Events = 1..Len(Events)
          /\ (Events = <<>> \/ Len(Events) # 0)
      BY EventsAssumption, EmptySeq
    <3>2. resend' = 0 \/ (Events # <<>> /\ resend' = 1)
      BY DEF Request
    <3>3. Events # <<>> => 1 \in DOMAIN Events
      BY <3>1
    <3> QED BY <3>2, <3>3
  <2>3. resend' # 0 => 0 <= Events[resend'].at
    BY <2>2, EventTyped
  <2> HIDE DEF q
  <2> QED BY <2>1, <2>3, Zenon DEF NoBoots, Ordered
<1> QED BY <1>1, <1>2 DEF EventsInOrder

\* A step of the device itself.
LEMMA InOrderDevice ==
    ASSUME DeviceTypeOK, SvcTypeOK, EventsInOrder, Device,
           UNCHANGED abl_start_timestamp
    PROVE  EventsInOrder'
<1> DEFINE q == dlt["service"]
           start == abl_start_timestamp
<1>1. /\ q \in Seq(Frames) /\ start \in Nat /\ requests \in 0..2
      /\ resend \in 0..Len(Events)
  BY DEF DeviceTypeOK, SvcTypeOK
<1>2. ASSUME NEW f, Deliver(f) PROVE q' = q \/ q' = Append(q, f)
  <2>1. PICK R \in SUBSET {r \in files : Len(dlt[r]) < MaxQueue} :
          dlt' = [r \in Clients |-> IF r \in R THEN Append(dlt[r], View(r, f))
                                               ELSE dlt[r]]
    BY <1>2 DEF Deliver
  <2> QED BY <2>1 DEF View
<1>3. ASSUME NEW f \in Frames, f.kind # "boot", Deliver(f),
             resend' = resend, requests' = requests
      PROVE  EventsInOrder'
  <2>1. q' = q \/ q' = Append(q, f)
    BY <1>2, <1>3
  <2> HIDE DEF q
  <2>2. /\ Ordered(q, resend, start) => Ordered(q', resend, start)
        /\ NoBoots(q) => NoBoots(q')
    BY <1>1, <1>3, <2>1, AppendOther
  <2> QED BY <1>3, <2>2 DEF EventsInOrder, q
<1>4. CASE Tick
  BY <1>4 DEF Tick, EventsInOrder
<1>5. CASE SendLog
  <2>1. PICK args \in ArgLists, lag \in 0..MaxLag :
          Deliver(LogFrame(args, lag))
    BY <1>5, Zenon DEF SendLog, LogFrame
  <2>2. LogFrame(args, lag) \in Frames /\ LogFrame(args, lag).kind # "boot"
    BY LogFrameType DEF LogFrame
  <2>3. resend' = resend /\ requests' = requests
    BY <1>5 DEF SendLog
  <2> QED BY <1>3, <2>1, <2>2, <2>3
<1>6. CASE SendUnfit
  <2>1. Unfit \in Frames /\ Unfit.kind # "boot"
    BY DEF Frames, Unfit
  <2> QED BY <1>3, <1>6, <2>1 DEF SendUnfit, iocVars
<1>7. CASE SendBoot
  <2> DEFINE f == [kind |-> "boot", event |-> resend]
  <2>1. /\ resend \in DOMAIN Events /\ requests' = requests /\ requests # 0
        /\ q' = q \/ q' = Append(q, f)
    BY <1>1, <1>2, <1>7, ResendEvent DEF SendBoot, EventsInOrder
  <2>2. resend' = 0 \/ (resend' = resend + 1 /\ resend' \in DOMAIN Events)
    BY <1>7, <2>1, EventsAssumption DEF SendBoot
  <2> HIDE DEF q
  <2>3. Ordered(q, resend, start) => Ordered(q', resend', start)
    <3> DEFINE n == resend'
    <3>1. n = 0 \/ (n = resend + 1 /\ n \in DOMAIN Events)
      BY <2>2
    <3> HIDE DEF n
    <3>2. Ordered(q, resend, start) => /\ Ordered(q, n, start)
                                       /\ Ordered(Append(q, f), n, start)
      BY <1>1, <2>1, <3>1, AppendBoot
    <3> QED BY <2>1, <3>2 DEF n
  <2> QED BY <2>1, <2>3 DEF EventsInOrder, q
<1>8. CASE OtherRequest
  <2>1. Request /\ dlt' = dlt
    BY <1>8 DEF OtherRequest
  <2> QED BY <2>1, InOrderRequest
<1> QED BY <1>4, <1>5, <1>6, <1>7, <1>8 DEF Device

\* A step of the service: what it reports is not later than it was.
LEMMA InOrderService ==
    ASSUME DeviceTypeOK, SvcTypeOK, EventsInOrder, FirstAnswerSane, Service
    PROVE  EventsInOrder' /\ FirstAnswerSane'
<1> DEFINE q == dlt["service"]
<1>1. ASSUME UNCHANGED <<resend, requests, abl_start_timestamp>>, Take("service")
      PROVE  EventsInOrder'
  <2>1. q \in Seq(Frames) /\ q # <<>> /\ q' = Tail(q) /\ resend \in 0..Len(Events)
    BY <1>1 DEF Take, DeviceTypeOK
  <2>2. /\ Ordered(q, resend, abl_start_timestamp) =>
             Ordered(Tail(q), resend, abl_start_timestamp)
        /\ NoBoots(q) => NoBoots(Tail(q))
    BY <2>1, TailOrdered
  <2> QED BY <1>1, <2>1, <2>2 DEF EventsInOrder
<1>2. ASSUME svc'.told = svc.told \/ svc'.told = <<>>, UNCHANGED requests
      PROVE  FirstAnswerSane'
  BY <1>2 DEF FirstAnswerSane
<1>3. CASE SvcMain \/ SvcReadNothing \/ SvcHandOver \/ SvcPing
  <2>1. UNCHANGED <<dlt, resend, requests, abl_start_timestamp>>
    BY <1>3 DEF SvcMain, SvcReadNothing, SvcHandOver, SvcPing, iocVars
  <2>2. svc'.told = svc.told \/ svc'.told = <<>>
    BY <1>3 DEF SvcMain, SvcReadNothing, SvcHandOver, SvcPing, SvcExit, SvcTypeOK
  <2> QED BY <1>2, <2>1, <2>2 DEF EventsInOrder
<1>4. CASE SvcReset
  <2>1. (Request \/ UNCHANGED iocVars) /\ UNCHANGED <<dlt, abl_start_timestamp>>
    BY <1>4 DEF SvcReset
  <2>2. EventsInOrder'
    BY <2>1, InOrderRequest DEF iocVars, EventsInOrder
  <2>3. svc'.told = svc.told
    BY <1>4 DEF SvcReset, SvcExit, SvcTypeOK
  <2>4. requests' <= 1 => requests <= 1
    BY <2>1 DEF Request, iocVars, DeviceTypeOK
  <2> QED BY <2>2, <2>3, <2>4 DEF FirstAnswerSane
<1>5. CASE SvcDrop \/ \E f, p : SvcSendLog(f, p)
  <2>1. UNCHANGED <<resend, requests, abl_start_timestamp>> /\ Take("service")
    BY <1>5 DEF SvcDrop, SvcSendLog, iocVars
  <2>2. svc'.told = svc.told
    BY <1>5 DEF SvcDrop, SvcSendLog, SvcTypeOK
  <2> QED BY <1>1, <1>2, <2>1, <2>2
<1>6. ASSUME NEW f, f = Front("service"), f.kind = "boot", SvcBootEvent(Events[f.event])
      PROVE  EventsInOrder' /\ FirstAnswerSane'
  <2> DEFINE e == Events[f.event]
             start == abl_start_timestamp
  <2>1. /\ q \in Seq(Frames) /\ q # <<>> /\ q' = Tail(q) /\ resend \in 0..Len(Events)
        /\ f = Head(q) /\ UNCHANGED <<resend, requests>>
    BY <1>6 DEF SvcBootEvent, Take, Front, DeviceTypeOK, iocVars
  <2>2. f.event \in DOMAIN Events /\ f = q[1] /\ 1 \in 1..Len(q)
    BY <1>6, <2>1, Popped, FrameKinds
  <2>3. e.at \in Nat /\ e.at < W64
    BY <2>2, EventTyped
  <2>4. start' = e.at \/ start' = start
    BY <1>6 DEF SvcBootEvent
  <2>5. requests # 0
    BY <1>6, <2>2 DEF EventsInOrder, NoBoots
  <2>6. requests <= 1 => Ordered(q', resend, start')
    BY <1>6, <2>1, <2>4, TailOrdered DEF EventsInOrder
  <2>7. EventsInOrder'
    BY <2>1, <2>5, <2>6 DEF EventsInOrder
  <2>8. start \in Nat /\ start' \in Nat
    BY <2>3, <2>4 DEF SvcTypeOK
  <2>9. requests <= 1 => start' <= e.at
    BY <1>6, <2>2, <2>3, <2>4, <2>8 DEF EventsInOrder, Ordered
  <2>10. requests <= 1 => Age(e.at, start') <= e.at
    BY <2>3, <2>8, <2>9, AgeTyped
  <2>11. svc'.told = <<[at |-> e.at, age |-> Age(e.at, start')]>>
    <3> DEFINE told == <<[at |-> e.at, age |-> Age(e.at, start')]>>
    <3>1. svc' = [svc EXCEPT !.pc = "ping", !.told = told]
      BY <1>6 DEF SvcBootEvent
    <3> HIDE DEF told
    <3>2. svc'.told = told
      BY <3>1 DEF SvcTypeOK
    <3> QED BY <3>2 DEF told
  <2> HIDE DEF e
  <2>12. FirstAnswerSane'
    BY <2>1, <2>10, <2>11 DEF FirstAnswerSane
  <2> QED BY <2>7, <2>12
<1>7. CASE SvcRead
  <2>1. \/ SvcDrop
        \/ \E f : f = Front("service") /\ f.kind = "boot" /\ SvcBootEvent(Events[f.event])
        \/ \E f, p : SvcSendLog(f, p)
    BY <1>7, Zenon DEF SvcRead
  <2> QED BY <1>5, <1>6, <2>1
<1> QED BY <1>3, <1>4, <1>7 DEF Service

\* For any boot events in order, and any frames lost: until they are asked for a
\* second time none is reported as later than it was.
THEOREM FirstAnswerIsSane == Spec => []FirstAnswerSane
<1> DEFINE Inv == EventsInOrder /\ FirstAnswerSane
<1>1. Init => Inv
  <2> SUFFICES ASSUME Init PROVE Inv
    OBVIOUS
  <2>1. /\ requests = 0 /\ resend = 0 /\ abl_start_timestamp = 0 /\ svc.told = <<>>
        /\ dlt["service"] = <<>>
    <3>1. PICK used : LoggingInit(used)
      BY Zenon DEF Init
    <3> QED BY <3>1 DEF Init, DeviceInit, LoggingInit
  <2> QED BY <2>1 DEF EventsInOrder, NoBoots, Ordered, FirstAnswerSane
<1>2. TypeOK /\ Inv /\ [Next]_vars => Inv'
  <2> SUFFICES ASSUME TypeOK, Inv, [Next]_vars PROVE Inv'
    OBVIOUS
  <2>1. ASSUME UNCHANGED <<svc, requests, resend, abl_start_timestamp>>,
               dlt'["service"] = dlt["service"]
        PROVE  Inv'
    BY <2>1 DEF EventsInOrder, FirstAnswerSane
  <2>2. CASE IocStep
    <3>1. EventsInOrder'
      BY <2>2, InOrderDevice DEF TypeOK, IocStep, logVars
    <3>2. svc' = svc /\ (requests' <= 1 => requests <= 1)
      BY <2>2 DEF IocStep, logVars, Device, Tick, SendLog, SendUnfit, SendBoot,
                  OtherRequest, Request, iocVars, TypeOK, DeviceTypeOK
    <3> QED BY <3>1, <3>2 DEF FirstAnswerSane
  <2>3. CASE ServiceStep
    BY <2>3, InOrderService DEF ServiceStep, TypeOK
  <2>4. CASE Time
    BY <2>1, <2>4 DEF Time, Second, iocVars
  <2>5. CASE ToolStep \/ ToolUser
    <3>1. CASE ToolAskBoot
      <4>1. (Request \/ UNCHANGED iocVars) /\ UNCHANGED <<dlt, abl_start_timestamp, svc>>
        BY <2>5, <3>1, Zenon DEF ToolAskBoot, ToolStep, ToolUser, logVars
      <4>2. EventsInOrder'
        BY <4>1, InOrderRequest DEF iocVars, EventsInOrder, TypeOK
      <4>3. requests' <= 1 => requests <= 1
        BY <4>1 DEF Request, iocVars, TypeOK, DeviceTypeOK
      <4> QED BY <4>1, <4>2, <4>3 DEF FirstAnswerSane
    <3>2. CASE ToolOpen \/ ToolReadBoot
      <4>1. dlt'["service"] = dlt["service"] /\ UNCHANGED iocVars
        BY <3>2 DEF ToolOpen, ToolReadBoot, Take, TypeOK, DeviceTypeOK
      <4> QED BY <2>1, <2>5, <4>1 DEF ToolStep, ToolUser, logVars, iocVars
    <3>3. CASE UNCHANGED <<dlt, iocVars>>
      BY <2>1, <2>5, <3>3 DEF ToolStep, ToolUser, logVars, iocVars
    <3>4. ToolOptions \/ ToolAskVersion \/ ToolPoll \/ ToolPollFails
          \/ ToolReadVersion \/ ToolReadNoMore \/ ToolClose \/ ToolAgain
             => UNCHANGED <<dlt, iocVars>>
      BY DEF ToolOptions, ToolAskVersion, ToolPoll, ToolPollFails, ToolReadVersion,
             ToolReadNoMore, ToolClose, ToolAgain
    <3> QED BY <2>5, <3>1, <3>2, <3>3, <3>4 DEF ToolStep, ToolUser, Tool
  <2>6. CASE UNCHANGED vars
    BY <2>1, <2>6 DEF vars, logVars, iocVars
  <2> QED BY <2>2, <2>3, <2>4, <2>5, <2>6 DEF Next
<1> QED BY <1>1, <1>2, TypedInit, TypedStep, PTL DEF Spec
=============================================================================
