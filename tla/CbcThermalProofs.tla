------------------------- MODULE CbcThermalProofs -------------------------
(***************************************************************************)
(* For any number of FUSE threads, sensors and frames: the variables of the*)
(* thermal file system keep their types, the read thread never blocks in a *)
(* read, and stores at most one frame after auto_update is switched off;   *)
(* the fan is given no duty but those that users wrote, and full speed.    *)
(***************************************************************************)
EXTENDS CbcThermal, SequenceTheorems, TLAPS

\* A command keeps the queue of commands a sequence of bytes.
LEMMA CommandTyped ==
  ASSUME TypeOK, NEW d \in 0..255, Command(d)
  PROVE  cmds' \in Seq(0..255) /\ exited' \in BOOLEAN
<1>1. cmds \in Seq(0..255) /\ exited \in BOOLEAN
  BY DEF TypeOK
<1>2. CASE cmds' = Append(cmds, d) /\ exited' = exited
  BY <1>1, <1>2
<1>3. CASE exited' = TRUE /\ cmds' = cmds
  BY <1>1, <1>3
<1> QED
  BY <1>2, <1>3 DEF Command

\* The cast makes a byte of every integer.
LEMMA ByteTyped == \A n \in Int : Byte(n) \in 0..255
BY DEF Byte

\* Taking the first frame of a queue.
LEMMA PopTyped ==
  ASSUME NEW S, NEW q \in Seq(S), q # <<>>
  PROVE  Head(q) \in S /\ Tail(q) \in Seq(S)
OBVIOUS

\* Every step of the read thread keeps the types.
LEMMA ReadThreadTyped == TypeOK /\ ReadThread => TypeOK'
<1> SUFFICES ASSUME TypeOK, ReadThread PROVE TypeOK'
  OBVIOUS
<1> USE DEF TypeOK, Locals, Steps, At, thread, control, ioc
<1>1. CASE ReadStart
  <2>1. cmds' \in Seq(0..255) /\ exited' \in BOOLEAN
    BY <1>1, CommandTyped DEF ReadStart
  <2> QED
    BY <1>1, <2>1 DEF ReadStart
<1>2. CASE Select
  BY <1>2 DEF Select, Announced
<1>3. CASE Discard
  <2>1. signals' \in Seq(Frames \cup {Other})
    <3>1. signals \in Seq(Frames \cup {Other})
      OBVIOUS
    <3>2. signals' = signals \/ (signals # <<>> /\ signals' = Tail(signals))
      BY <1>3 DEF Discard
    <3> HIDE DEF TypeOK, Locals, Steps, At
    <3> QED
      BY <3>1, <3>2, PopTyped
  <2>2. rd' \in Locals
    <3>1. \/ rd' = [rd EXCEPT !.pc = "signals", !.rfd = rd.rfd \ {"signals"}]
          \/ rd' = [rd EXCEPT !.pc = "signals"]
      BY <1>3 DEF Discard
    <3>2. rd \in Locals
      OBVIOUS
    <3>3. rd.rfd \ {"signals"} \in SUBSET {"signals", "diagnosis"}
      BY <3>2
    <3> HIDE DEF TypeOK, At
    <3> QED
      BY <3>1, <3>2, <3>3
  <2> QED
    BY <1>3, <2>1, <2>2 DEF Discard
<1>4. CASE ReadSignals
  <2>1. Head(signals) \in Frames \cup {Other}
        /\ signals' \in Seq(Frames \cup {Other})
    BY <1>4, PopTyped DEF ReadSignals
  <2>2. rd' \in Locals
    BY <1>4, <2>1 DEF ReadSignals
  <2> QED
    BY <1>4, <2>1, <2>2 DEF ReadSignals
<1>5. CASE NoSignals
  BY <1>5 DEF NoSignals
<1>6. CASE Store
  <2>1. temp' \in [Sensors -> Readings \cup {Zero}]
    <3>1. ASSUME NEW s \in DOMAIN rd.frame.val PROVE rd.frame.val[s] \in Readings
      <4>1. CASE rd.frame = Other
        BY <3>1, <4>1 DEF Other
      <4>2. CASE rd.frame \in Frames
        BY <3>1, <4>2 DEF Frames, Shown
      <4> QED
        BY <4>1, <4>2
    <3> QED
      BY <1>6, <3>1 DEF Store
  <2>2. rd' \in Locals
    BY <1>6 DEF Store
  <2> QED
    BY <1>6, <2>1, <2>2 DEF Store
<1>7. CASE ReadDiagnosis
  <2>1. Head(diagnosis) \in 0..255 /\ diagnosis' \in Seq(0..255)
    BY <1>7, PopTyped DEF ReadDiagnosis
  <2>2. rd' \in Locals
    BY <1>7 DEF ReadDiagnosis
  <2> QED
    BY <1>7, <2>1, <2>2 DEF ReadDiagnosis
<1>8. CASE NoDiagnosis
  BY <1>8 DEF NoDiagnosis
<1>9. CASE Floor
  BY <1>9 DEF Floor, FloorDuty
<1>10. CASE Raise
  <2>1. cmds' \in Seq(0..255) /\ exited' \in BOOLEAN
    BY <1>10, CommandTyped DEF Raise
  <2>2. rd' \in Locals
    <3>1. PICK c \in 0..255 : rd' = [rd EXCEPT !.pc = "select", !.cmd = c]
      BY <1>10 DEF Raise
    <3>2. rd \in Locals
      OBVIOUS
    <3> HIDE DEF TypeOK, At
    <3> QED
      BY <3>1, <3>2
  <2> QED
    BY <1>10, <2>1, <2>2 DEF Raise
<1> QED
  BY <1>1, <1>2, <1>3, <1>4, <1>5, <1>6, <1>7, <1>8, <1>9, <1>10 DEF ReadThread

\* So does every operation of a FUSE thread.
LEMMA FuseTyped ==
  ASSUME TypeOK, NEW u \in Users, FuseThread(u)
  PROVE  TypeOK'
<1> USE DEF TypeOK, thread, control, ioc
<1>1. CASE WriteTemp(u)
  BY <1>1 DEF WriteTemp
<1>2. CASE WriteAuto(u)
  <2>1. auto_update' \in BOOLEAN
    BY <1>2 DEF WriteAuto
  <2>2. late' \in Nat /\ manual' \in SUBSET Sensors
    <3>1. CASE auto_update' = auto_update
      BY <1>2, <3>1 DEF WriteAuto
    <3>2. CASE auto_update' # auto_update
      BY <1>2, <3>2 DEF WriteAuto
    <3> QED
      BY <3>1, <3>2
  <2> QED
    BY <1>2, <2>1, <2>2 DEF WriteAuto
<1>3. CASE WriteFan(u)
  <2>1. PICK n \in Texts :
          /\ fan0_min_val' = Byte(n)
          /\ user' = [user EXCEPT ![u] = [pc |-> "send", cmd |-> Byte(n)]]
    BY <1>3 DEF WriteFan
  <2>2. Byte(n) \in 0..255
    BY ByteTyped, TextsAssumption
  <2>3. left' \in [writes : Nat, drops : Nat]
    <3>1. left' = [left EXCEPT !.writes = left.writes - 1] /\ left.writes > 0
      BY <1>3 DEF WriteFan
    <3>2. left \in [writes : Nat, drops : Nat]
      OBVIOUS
    <3> HIDE DEF TypeOK
    <3> QED
      BY <3>1, <3>2
  <2>4. user' \in [Users -> [pc : {"idle", "send"}, cmd : 0..255]]
    BY <2>1, <2>2
  <2>5. fan0_min_val' \in 0..255
    BY <2>1, <2>2
  <2>6. UNCHANGED <<thread, auto_update, manual, rd, signals, diagnosis, cmds,
                    exited, ioc_duty>>
    BY <1>3 DEF WriteFan
  <2> QED
    BY <2>3, <2>4, <2>5, <2>6
<1>4. CASE SendFan(u)
  <2>1. user[u].cmd \in 0..255
    OBVIOUS
  <2>2. cmds' \in Seq(0..255) /\ exited' \in BOOLEAN
    BY <1>4, <2>1, CommandTyped DEF SendFan
  <2> QED
    BY <1>4, <2>2 DEF SendFan
<1> QED
  BY <1>1, <1>2, <1>3, <1>4 DEF FuseThread

\* So does the IOC.
LEMMA IocTyped == TypeOK /\ Ioc => TypeOK'
<1> SUFFICES ASSUME TypeOK, Ioc PROVE TypeOK'
  OBVIOUS
<1> USE DEF TypeOK, thread, control, ioc
<1>1. CASE IocObeys
  BY <1>1, PopTyped DEF IocObeys
<1>2. CASE IocDecides
  <2>1. left' = [left EXCEPT !.drops = left.drops - 1] /\ left.drops > 0
    BY <1>2 DEF IocDecides
  <2>2. left \in [writes : Nat, drops : Nat]
    OBVIOUS
  <2>3. left.drops - 1 \in Nat
    BY <2>1, <2>2
  <2>4. left' \in [writes : Nat, drops : Nat]
    BY <2>1, <2>2, <2>3
  <2> QED
    BY <1>2, <2>4, DutiesAssumption DEF IocDecides
<1>3. CASE IocReportsDuty
  BY <1>3 DEF IocReportsDuty
<1>4. CASE IocReportsTemps
  <2>1. PICK f \in Frames : signals' = Append(signals, f)
    BY <1>4 DEF IocReportsTemps
  <2>2. signals' \in Seq(Frames \cup {Other})
    BY <2>1
  <2> QED
    BY <1>4, <2>2 DEF IocReportsTemps
<1>5. CASE IocSendsOther
  <2>1. signals' \in Seq(Frames \cup {Other})
    BY <1>5 DEF IocSendsOther
  <2> QED
    BY <1>5, <2>1 DEF IocSendsOther, ioc
<1> QED
  BY <1>1, <1>2, <1>3, <1>4, <1>5 DEF Ioc

LEMMA NextTyped == TypeOK /\ [Next]_vars => TypeOK'
<1> SUFFICES ASSUME TypeOK, [Next]_vars PROVE TypeOK'
  OBVIOUS
<1>1. CASE UNCHANGED vars
  BY <1>1 DEF vars, thread, control, ioc, TypeOK
<1>2. CASE Next
  BY <1>2, ReadThreadTyped, FuseTyped, IocTyped DEF Next
<1> QED
  BY <1>1, <1>2

LEMMA InitTyped == Init => TypeOK
<1> SUFFICES ASSUME Init PROVE TypeOK
  OBVIOUS
<1>1. rd \in Locals
  BY DEF Init, Locals, Steps
<1>2. left \in [writes : Nat, drops : Nat]
  BY BoundsAssumption DEF Init
<1>3. temp \in [Sensors -> Readings \cup {Zero}]
  BY DEF Init
<1>4. user \in [Users -> [pc : {"idle", "send"}, cmd : 0..255]]
  BY DEF Init
<1>5. /\ signals \in Seq(Frames \cup {Other})
      /\ diagnosis \in Seq(0..255) /\ cmds \in Seq(0..255)
  BY DEF Init
<1>6. ioc_duty \in 0..255
  BY DutiesAssumption DEF Init
<1>7. fan0_val \in 0..255 /\ fan0_min_val \in 0..255 /\ late \in Nat
  BY DEF Init
<1>8. auto_update \in BOOLEAN /\ exited \in BOOLEAN /\ manual \in SUBSET Sensors
  BY DEF Init
<1> QED
  BY <1>1, <1>2, <1>3, <1>4, <1>5, <1>6, <1>7, <1>8 DEF TypeOK

\* Every variable keeps its C type; each duty is a byte, whatever users write.
THEOREM TypeCorrect == Spec => []TypeOK
<1>1. Init => TypeOK
  BY InitTyped
<1>2. TypeOK /\ [Next]_vars => TypeOK'
  BY NextTyped
<1> QED
  BY <1>1, <1>2, PTL DEF Spec

----------------------------------------------------------------------------
(***************************************************************************)
(* ReadsDoNotBlock is inductive together with the types: only the read     *)
(* thread takes frames away, and it forgets the announcement when it does. *)
(***************************************************************************)
LEMMA ReadThreadDoesNotBlock ==
  TypeOK /\ ReadsDoNotBlock /\ ReadThread => ReadsDoNotBlock'
<1> SUFFICES ASSUME TypeOK, ReadsDoNotBlock, ReadThread PROVE ReadsDoNotBlock'
  OBVIOUS
<1>0. rd \in Locals
  BY DEF TypeOK
<1> USE <1>0 DEF ReadsDoNotBlock, At, Locals
<1>1. CASE ReadStart \/ Raise \/ Floor
  BY <1>1 DEF ReadStart, Raise, Floor
<1>2. CASE Select
  BY <1>2 DEF Select, Announced
<1>3. CASE Discard
  BY <1>3 DEF Discard
<1>4. CASE ReadSignals
  BY <1>4 DEF ReadSignals
<1>5. CASE NoSignals
  BY <1>5 DEF NoSignals
<1>6. CASE Store
  BY <1>6 DEF Store
<1>7. CASE ReadDiagnosis \/ NoDiagnosis
  BY <1>7 DEF ReadDiagnosis, NoDiagnosis
<1> QED
  BY <1>1, <1>2, <1>3, <1>4, <1>5, <1>6, <1>7 DEF ReadThread

\* The other threads and the IOC only add frames.
LEMMA OthersDoNotBlock ==
  ASSUME TypeOK, ReadsDoNotBlock, Ioc \/ \E u \in Users : FuseThread(u)
  PROVE  ReadsDoNotBlock'
<1>1. /\ rd' = rd
      /\ signals # <<>> => signals' # <<>>
      /\ diagnosis # <<>> => diagnosis' # <<>>
  <2>1. CASE \E u \in Users : FuseThread(u)
    BY <2>1 DEF FuseThread, WriteTemp, WriteAuto, WriteFan, SendFan
  <2>2. CASE IocObeys \/ IocDecides
    BY <2>2 DEF IocObeys, IocDecides
  <2>3. CASE IocReportsDuty
    BY <2>3 DEF IocReportsDuty, TypeOK
  <2>4. CASE IocReportsTemps \/ IocSendsOther
    BY <2>4 DEF IocReportsTemps, IocSendsOther, TypeOK
  <2> QED
    BY <2>1, <2>2, <2>3, <2>4 DEF Ioc
<1>2. exited => exited'
  BY DEF Ioc, FuseThread, WriteTemp, WriteAuto, WriteFan, SendFan, Idle
<1> QED
  BY <1>1, <1>2 DEF ReadsDoNotBlock, At, TypeOK

\* The read thread finds a frame wherever it reads.
THEOREM ReadsNeverBlock == Spec => []ReadsDoNotBlock
<1>1. Init => ReadsDoNotBlock
  BY DEF Init, ReadsDoNotBlock, At
<1>2. TypeOK /\ ReadsDoNotBlock /\ [Next]_vars => ReadsDoNotBlock'
  <2>1. CASE Next
    BY <2>1, ReadThreadDoesNotBlock, OthersDoNotBlock DEF Next
  <2>2. CASE UNCHANGED vars
    BY <2>2 DEF vars, ReadsDoNotBlock, At
  <2> QED
    BY <2>1, <2>2
<1> QED
  BY <1>1, <1>2, TypeCorrect, PTL DEF Spec

----------------------------------------------------------------------------
(***************************************************************************)
(* OneLateFrame is not inductive: it holds because the read thread, once   *)
(* it has stored a late frame, cannot hold another one that passed the     *)
(* test of auto_update (Holding).                                          *)
(***************************************************************************)
Holding == rd.pc = "store" \/ (rd.pc = "signals" /\ "signals" \in rd.rfd)

LateInv == /\ auto_update => late = 0
           /\ ~auto_update => late = 0 \/ (late = 1 /\ ~Holding)

LEMMA ReadThreadLate == TypeOK /\ LateInv /\ ReadThread => LateInv'
<1> SUFFICES ASSUME TypeOK, LateInv, ReadThread PROVE LateInv'
  OBVIOUS
<1>0. rd \in Locals
  BY DEF TypeOK
<1> USE <1>0 DEF LateInv, Holding, At, Locals, thread, control
<1>1. CASE ReadStart \/ Select \/ NoSignals \/ NoDiagnosis \/ Floor \/ Raise
  <2>1. auto_update' = auto_update /\ late' = late
    BY <1>1 DEF ReadStart, Select, NoSignals, NoDiagnosis, Floor, Raise
  <2>2. rd'.pc \in {"select", "discard", "diagnosis", "raise"}
    BY <1>1 DEF ReadStart, Select, NoSignals, NoDiagnosis, Floor, Raise
  <2> QED
    BY <2>1, <2>2
<1>2. CASE Discard
  BY <1>2 DEF Discard
<1>3. CASE ReadSignals
  BY <1>3 DEF ReadSignals
<1>4. CASE Store
  BY <1>4 DEF Store
<1>5. CASE ReadDiagnosis
  BY <1>5 DEF ReadDiagnosis
<1> QED
  BY <1>1, <1>2, <1>3, <1>4, <1>5 DEF ReadThread

LEMMA OthersLate ==
  ASSUME TypeOK, LateInv, Ioc \/ \E u \in Users : FuseThread(u)
  PROVE  LateInv'
<1> USE DEF LateInv, Holding, thread, control
<1>1. CASE Ioc
  BY <1>1 DEF Ioc, IocObeys, IocDecides, IocReportsDuty, IocReportsTemps,
             IocSendsOther
<1>2. CASE \E u \in Users : FuseThread(u)
  <2>1. PICK u \in Users : FuseThread(u)
    BY <1>2
  <2>2. CASE WriteAuto(u)
    BY <2>2 DEF WriteAuto, TypeOK
  <2>3. CASE WriteTemp(u) \/ WriteFan(u) \/ SendFan(u)
    BY <2>3 DEF WriteTemp, WriteFan, SendFan
  <2> QED
    BY <2>1, <2>2, <2>3 DEF FuseThread
<1> QED
  BY <1>1, <1>2

LEMMA LateInvariant == Spec => []LateInv
<1>1. Init => LateInv
  BY DEF Init, LateInv
<1>2. TypeOK /\ LateInv /\ [Next]_vars => LateInv'
  <2>1. CASE Next
    BY <2>1, ReadThreadLate, OthersLate DEF Next
  <2>2. CASE UNCHANGED vars
    BY <2>2 DEF vars, thread, control, LateInv, Holding
  <2> QED
    BY <2>1, <2>2
<1> QED
  BY <1>1, <1>2, TypeCorrect, PTL DEF Spec

\* Switching auto_update off takes effect within one frame.
THEOREM AtMostOneLateFrame == Spec => []OneLateFrame
<1>1. LateInv => OneLateFrame
  BY DEF LateInv, OneLateFrame
<1> QED
  BY <1>1, LateInvariant, PTL

\* What holds in the place of ManualValueStays: once the one late frame has been
\* stored, the temperatures change only when a user writes them, until auto_update is
\* switched on again.
UsersChangeOnly == [][late > 0 /\ temp' # temp => ~auto_update /\ UNCHANGED rd]_vars

THEOREM ManualValuesStayAfterLate == Spec => UsersChangeOnly
<1>1. LateInv /\ [Next]_vars => [late > 0 /\ temp' # temp => ~auto_update /\ UNCHANGED rd]_vars
  <2> SUFFICES ASSUME LateInv, Next, late > 0, temp' # temp
               PROVE  ~auto_update /\ UNCHANGED rd
    OBVIOUS
  <2>1. ~auto_update /\ rd.pc # "store"
    BY DEF LateInv, Holding
  <2>2. ~ReadThread
    BY <2>1 DEF ReadThread, ReadStart, Select, Discard, ReadSignals, NoSignals, Store, At,
                ReadDiagnosis, NoDiagnosis, Floor, Raise, thread
  <2>3. ~Ioc
    BY DEF Ioc, IocObeys, IocDecides, IocReportsDuty, IocReportsTemps, IocSendsOther, thread
  <2>4. \E u \in Users : WriteTemp(u)
    BY <2>2, <2>3 DEF Next, FuseThread, WriteAuto, WriteFan, SendFan, thread
  <2> QED
    BY <2>1, <2>4 DEF WriteTemp
<1> QED
  BY <1>1, LateInvariant, PTL DEF Spec, UsersChangeOnly

----------------------------------------------------------------------------
(* Where the commands of the fan come from.  The floor is 0 until a user   *)
(* writes it, and no duty reported is below 0: so the read thread never    *)
(* commands a floor that nobody has set.                                   *)

Written == {Byte(n) : n \in Texts}

Asked == \A k \in DOMAIN cmds : cmds[k] \in Written \cup {100}

AskedInv ==
    /\ fan0_min_val \in Written \cup {0}
    /\ rd.pc = "floor" => fan0_min_val \in Written
    /\ rd.pc = "raise" => rd.cmd \in Written
    /\ \A u \in Users : user[u].pc = "send" => user[u].cmd \in Written
    /\ Asked

\* A command added, and one taken by the IOC.
LEMMA CommandAsked ==
  ASSUME TypeOK, Asked, NEW duty \in Written \cup {100}, Command(duty)
  PROVE  Asked'
<1>1. CASE cmds' = cmds
  BY <1>1 DEF Asked
<1>2. CASE cmds' = Append(cmds, duty)
  <2>1. cmds \in Seq(0..255)
    BY DEF TypeOK
  <2>2. \A k \in DOMAIN cmds' : cmds'[k] = duty \/ (k \in DOMAIN cmds /\ cmds'[k] = cmds[k])
    BY <1>2, <2>1, AppendProperties
  <2> QED
    BY <2>2 DEF Asked
<1> QED
  BY <1>1, <1>2 DEF Command

LEMMA ObeyAsked ==
  ASSUME TypeOK, Asked, cmds # <<>>, cmds' = Tail(cmds)
  PROVE  Asked'
<1>1. cmds \in Seq(0..255)
  BY DEF TypeOK
<1>2. \A k \in DOMAIN cmds' : k + 1 \in DOMAIN cmds /\ cmds'[k] = cmds[k + 1]
  BY <1>1, HeadTailProperties
<1> QED
  BY <1>2 DEF Asked

LEMMA ReadThreadAsked == TypeOK /\ AskedInv /\ ReadThread => AskedInv'
<1> SUFFICES ASSUME TypeOK, AskedInv, ReadThread PROVE AskedInv'
  OBVIOUS
<1>0. rd \in Locals /\ fan0_min_val \in 0..255
  BY DEF TypeOK
<1>1. fan0_min_val' = fan0_min_val /\ user' = user
  BY DEF ReadThread, ReadStart, Select, Discard, ReadSignals, NoSignals, Store,
         ReadDiagnosis, NoDiagnosis, Floor, Raise, control
<1>2. CASE ReadStart
  <2>1. Asked' /\ rd'.pc = "select"
    BY <1>0, <1>2, CommandAsked DEF ReadStart, AskedInv, Locals
  <2> QED
    BY <1>1, <2>1 DEF AskedInv
<1>3. CASE Select \/ Discard \/ ReadSignals \/ NoSignals \/ Store \/ NoDiagnosis
  <2>1. rd'.pc \notin {"floor", "raise"} /\ cmds' = cmds
    BY <1>0, <1>3 DEF Select, Discard, ReadSignals, NoSignals, Store, NoDiagnosis, Locals
  <2> QED
    BY <1>1, <2>1 DEF AskedInv, Asked
<1>4. CASE ReadDiagnosis
  <2>1. /\ cmds' = cmds /\ rd'.pc \in {"floor", "select"}
        /\ rd'.pc = "floor" => Head(diagnosis) < fan0_min_val
    BY <1>0, <1>4 DEF ReadDiagnosis, Locals
  <2>2. Head(diagnosis) \in 0..255
    BY <1>4, HeadTailProperties DEF ReadDiagnosis, TypeOK
  <2>3. rd'.pc = "floor" => fan0_min_val \in Written
    BY <1>0, <2>1, <2>2 DEF AskedInv
  <2> QED
    BY <1>1, <2>1, <2>3 DEF AskedInv, Asked
<1>5. CASE Floor
  <2>1. rd.pc = "floor" /\ rd'.pc = "raise" /\ rd'.cmd = fan0_min_val /\ cmds' = cmds
    BY <1>0, <1>5 DEF Floor, At, FloorDuty, Locals
  <2> QED
    BY <1>1, <2>1 DEF AskedInv, Asked
<1>6. CASE Raise
  <2>1. rd.cmd \in Written /\ rd'.pc = "select"
    BY <1>0, <1>6 DEF Raise, At, AskedInv, Locals
  <2>2. Asked'
    BY <1>6, <2>1, CommandAsked DEF Raise, AskedInv
  <2> QED
    BY <1>1, <2>1, <2>2 DEF AskedInv
<1> QED
  BY <1>2, <1>3, <1>4, <1>5, <1>6 DEF ReadThread

LEMMA FuseAsked ==
  ASSUME TypeOK, AskedInv, NEW u \in Users, FuseThread(u)
  PROVE  AskedInv'
<1>0. user \in [Users -> [pc : {"idle", "send"}, cmd : 0..255]]
  BY DEF TypeOK
<1>1. CASE WriteTemp(u) \/ WriteAuto(u)
  BY <1>1 DEF WriteTemp, WriteAuto, AskedInv, Asked
<1>2. CASE WriteFan(u)
  <2>1. PICK n \in Texts : /\ fan0_min_val' = Byte(n)
                           /\ user' = [user EXCEPT ![u] = [pc |-> "send", cmd |-> Byte(n)]]
    BY <1>2 DEF WriteFan
  <2>2. Byte(n) \in Written /\ rd' = rd /\ cmds' = cmds
    BY <1>2 DEF WriteFan, Written
  <2> HIDE DEF Byte
  <2>3. \A v \in Users : user'[v].pc = "send" => user'[v].cmd \in Written
    BY <1>0, <2>1, <2>2 DEF AskedInv
  <2> QED
    BY <2>1, <2>2, <2>3 DEF AskedInv, Asked
<1>3. CASE SendFan(u)
  <2>1. /\ user[u].cmd \in Written /\ rd' = rd /\ fan0_min_val' = fan0_min_val
        /\ \A v \in Users : user'[v].pc = "send" => user'[v] = user[v]
    BY <1>0, <1>3 DEF SendFan, AskedInv, control
  <2>2. Asked'
    BY <1>3, <2>1, CommandAsked DEF SendFan, AskedInv
  <2> QED
    BY <2>1, <2>2 DEF AskedInv
<1> QED
  BY <1>1, <1>2, <1>3 DEF FuseThread

LEMMA IocAsked == TypeOK /\ AskedInv /\ Ioc => AskedInv'
<1> SUFFICES ASSUME TypeOK, AskedInv, Ioc PROVE AskedInv'
  OBVIOUS
<1>1. rd' = rd /\ user' = user /\ fan0_min_val' = fan0_min_val
  BY DEF Ioc, IocObeys, IocDecides, IocReportsDuty, IocReportsTemps, IocSendsOther, control
<1>2. Asked'
  <2>1. CASE IocObeys
    BY <2>1, ObeyAsked DEF IocObeys, AskedInv
  <2>2. CASE IocDecides \/ IocReportsDuty \/ IocReportsTemps \/ IocSendsOther
    BY <2>2 DEF IocDecides, IocReportsDuty, IocReportsTemps, IocSendsOther, AskedInv, Asked
  <2> QED
    BY <2>1, <2>2 DEF Ioc
<1> QED
  BY <1>1, <1>2 DEF AskedInv

\* Whatever the IOC reports and however users and the read thread overtake each other,
\* the IOC is given no duty but full speed, the command of the start, and those a user
\* wrote: the fan is never stopped, or slowed down, by the service itself.
THEOREM DutiesAreAsked == Spec => []Asked
<1>1. Init => AskedInv
  BY DEF Init, AskedInv, Asked
<1>2. TypeOK /\ AskedInv /\ [Next]_vars => AskedInv'
  <2>1. CASE UNCHANGED vars
    BY <2>1 DEF vars, control, AskedInv, Asked
  <2> QED
    BY <2>1, ReadThreadAsked, FuseAsked, IocAsked DEF Next
<1>3. AskedInv => Asked
  BY DEF AskedInv
<1> QED
  BY <1>1, <1>2, <1>3, TypeCorrect, PTL DEF Spec
=============================================================================
