-------------------------- MODULE CbcAttachProofs --------------------------
(***************************************************************************)
(* For any number of instances and ttys, any options, match file and retry *)
(* time: one instance at a time is past the lock file, it owns at most one *)
(* open file, the line of an instance that waits has the discipline of the *)
(* IOC, and as many attempts are made as fit in the retry time; the lock   *)
(* dies with its holder, and so does the discipline of a tty nobody shares.*)
(***************************************************************************)
EXTENDS CbcAttach, TLAPS

----------------------------------------------------------------------------
(* Files and their owner: what each step of main may assume of its          *)
(* descriptor, and that an instance past the lock file holds it.            *)

Held == \A i \in Instances : Inside(i) => lock = i

FilesOf(i) ==
    /\ pc[i] \in {"gone", "flock", "options", "open", "sleep", "unlock"} => opens[i] = 0
    /\ pc[i] \in {"terminal", "disc", "off", "close"} => loc[i].fd /\ opens[i] = 1
    /\ pc[i] = "pause" => opens[i] = 1
    /\ opens[i] <= 1

Files == \A i \in Instances : FilesOf(i)

LineCbc == \A i \in Instances : pc[i] = "pause" => ldisc[loc[i].dev] = "cbc"

Inv == TypeOK /\ Held /\ Files /\ LineCbc

----------------------------------------------------------------------------
(* The options and the match file give values of their types.               *)

LEMMA ElementTyped ==
  ASSUME NEW S, NEW s \in Seq(S), NEW k \in DOMAIN s
  PROVE  s[k] \in S /\ k # 0
<1>1. s \in [1..Len(s) -> S] /\ Len(s) \in Nat
  OBVIOUS
<1>2. k \in 1..Len(s)
  BY <1>1
<1> QED
  BY <1>1, <1>2

LEMMA BaudRateTyped == \A args \in Args : BaudRate(args) \in Int
<1> SUFFICES ASSUME NEW args \in Args PROVE BaudRate(args) \in Int
  OBVIOUS
<1>1. args \in Seq([opt : STRING, n : Int])
  BY ArgsAssumption
<1>2. CASE \E k \in DOMAIN args : LastRate(args, k)
  <2> DEFINE last == CHOOSE k \in DOMAIN args : LastRate(args, k)
  <2>1. last \in DOMAIN args
    BY <1>2, Zenon
  <2> HIDE DEF last
  <2>2. args[last] \in [opt : STRING, n : Int]
    BY <1>1, <2>1, ElementTyped
  <2>3. BaudRate(args) = args[last].n
    BY <1>2, Zenon DEF BaudRate, last
  <2> QED
    BY <2>2, <2>3
<1>3. CASE ~\E k \in DOMAIN args : LastRate(args, k)
  BY <1>3 DEF BaudRate, DefaultRate
<1> QED
  BY <1>2, <1>3

LEMMA DeviceTyped ==
  ASSUME TypeOK, NEW given \in Devices
  PROVE  match_deviceName(given) \in Devices
<1>1. rows \in Seq([cols : 0..3, present : BOOLEAN, tty : Devices])
  BY MatchFilesAssumption DEF TypeOK
<1>2. CASE \E k \in DOMAIN rows : Matches(2, k)
  <2> DEFINE line == CHOOSE k \in DOMAIN rows : Matches(2, k)
  <2>1. line \in DOMAIN rows /\ MatchedLine(2) = line
    BY <1>2, Zenon DEF MatchedLine
  <2> HIDE DEF line
  <2>2. rows[line] \in [cols : 0..3, present : BOOLEAN, tty : Devices] /\ line # 0
    BY <1>1, <2>1, ElementTyped
  <2> QED
    BY <2>1, <2>2 DEF match_deviceName
<1>3. CASE ~\E k \in DOMAIN rows : Matches(2, k)
  BY <1>3 DEF MatchedLine, match_deviceName
<1> QED
  BY <1>2, <1>3

----------------------------------------------------------------------------
(* Each step of an instance preserves the invariant.                        *)

Local == [fd : BOOLEAN, rate : Int, dev : Devices, retry_time : Int]

LEMMA LocalsTyped == Locals0 \in Local
BY DevicesAssumption, RetryAssumption DEF Locals0, Local, DefaultRate

LEMMA TypeStep ==
  ASSUME Inv, NEW i \in Instances, Start(i) \/ main(i) \/ Signal(i) \/ Teardown(i)
  PROVE  TypeOK'
<1> USE DEF Goto, Local
<1>0. TypeOK /\ FilesOf(i) /\ Locals0 \in Local
  BY LocalsTyped DEF Inv, Files
<1>1. CASE Start(i) \/ Signal(i)
  BY <1>0, <1>1 DEF Start, Signal, TypeOK, Steps
<1>2. CASE TryLock(i) \/ Unlock(i) \/ Reaped(i)
  BY <1>0, <1>2 DEF TryLock, Unlock, Reaped, End, TypeOK, Steps
<1>3. CASE Options(i)
  <2>1. CASE UNCHANGED loc /\ Goto(i, "unlock")
    BY <1>0, <1>3, <2>1 DEF Options, TypeOK, Steps
  <2>2. CASE \E args \in Args, given \in Devices :
               loc' = [loc EXCEPT ![i].rate = BaudRate(args),
                                  ![i].dev  = match_deviceName(given)]
    <3>1. PICK r \in Int, d \in Devices :
            loc' = [loc EXCEPT ![i].rate = r, ![i].dev = d]
      <4>1. PICK args \in Args, given \in Devices :
              loc' = [loc EXCEPT ![i].rate = BaudRate(args),
                                 ![i].dev  = match_deviceName(given)]
        BY <2>2
      <4>2. BaudRate(args) \in Int /\ match_deviceName(given) \in Devices
        BY <1>0, BaudRateTyped, DeviceTyped
      <4> QED
        BY <4>1, <4>2, Zenon
    <3>2. loc' \in [Instances -> Local]
      BY <1>0, <3>1 DEF TypeOK
    <3>3. pc' \in [Instances -> Steps \cup {"gone", "dying"}]
      BY <1>0, <1>3 DEF Options, TypeOK, Steps
    <3> QED
      BY <1>0, <1>3, <3>2, <3>3 DEF Options, TypeOK
  <2>3. PICK args \in Args, given \in Devices :
          IF \E k \in DOMAIN args : Fatal(args[k])
          THEN Goto(i, "unlock") /\ UNCHANGED loc
          ELSE /\ Goto(i, "open")
               /\ loc' = [loc EXCEPT ![i].rate = BaudRate(args),
                                     ![i].dev  = match_deviceName(given)]
    BY <1>3, Zenon DEF Options
  <2>4. CASE \E k \in DOMAIN args : Fatal(args[k])
    BY <2>1, <2>3, <2>4, Zenon
  <2>5. CASE ~\E k \in DOMAIN args : Fatal(args[k])
    BY <2>2, <2>3, <2>5, Zenon
  <2> QED
    BY <2>4, <2>5
<1>4. CASE OpenDevice(i)
  <2>1. attempts' \in [Instances -> Nat]
    BY <1>0, <1>4 DEF OpenDevice, Attempt, TypeOK
  <2>2. opens' \in [Instances -> Nat] /\ loc' \in [Instances -> Local]
    <3>1. \E b \in BOOLEAN : loc' = [loc EXCEPT ![i].fd = b]
      BY <1>4 DEF OpenDevice
    <3>2. opens' = [opens EXCEPT ![i] = opens[i] + 1] \/ opens' = opens
      BY <1>4 DEF OpenDevice
    <3>3. loc \in [Instances -> Local] /\ opens \in [Instances -> Nat]
      BY <1>0 DEF TypeOK
    <3> QED
      BY <3>1, <3>2, <3>3
  <2>3. pc' \in [Instances -> Steps \cup {"gone", "dying"}]
    BY <1>0, <1>4 DEF OpenDevice, InitFails, TypeOK, Steps
  <2> QED
    BY <1>0, <1>4, <2>1, <2>2, <2>3 DEF OpenDevice, TypeOK
<1>5. CASE InitTerminal(i)
  BY <1>0, <1>5 DEF InitTerminal, InitFails, TypeOK, Steps
<1>6. CASE SetDisc(i)
  BY <1>0, <1>6 DEF SetDisc, InitFails, TypeOK, Steps
<1>7. CASE ShutdownDisc(i)
  BY <1>0, <1>7 DEF ShutdownDisc, TypeOK, Steps
<1>8. CASE ShutdownClose(i)
  <2>1. opens' \in [Instances -> Nat]
    BY <1>0, <1>8 DEF ShutdownClose, FilesOf, TypeOK
  <2>2. ldisc' \in [Devices -> {"tty", "cbc"}]
    BY <1>0, <1>8 DEF ShutdownClose, LastClose, TypeOK
  <2>3. loc' \in [Instances -> Local]
    BY <1>0, <1>8 DEF ShutdownClose, TypeOK
  <2> QED
    BY <1>0, <1>8, <2>1, <2>2, <2>3 DEF ShutdownClose, TypeOK, Steps
<1>9. CASE Sleep(i)
  <2>1. loc[i].retry_time - RetryUnit \in Int
    BY <1>0, RetryAssumption DEF TypeOK
  <2>2. loc' \in [Instances -> Local]
    BY <1>0, <1>9, <2>1 DEF Sleep, Spent, TypeOK
  <2> QED
    BY <1>0, <1>9, <2>2 DEF Sleep, TypeOK, Steps
<1>10. CASE CloseLine(i)
  <2>1. opens' \in [Instances -> Nat]
    BY <1>0, <1>10 DEF CloseLine, TypeOK
  <2>2. ldisc' \in [Devices -> {"tty", "cbc"}]
    BY <1>0, <1>10 DEF CloseLine, LastClose, TypeOK
  <2> QED
    BY <1>0, <1>10, <2>1, <2>2 DEF CloseLine, TypeOK
<1>11. CASE CloseLock(i)
  BY <1>0, <1>11 DEF CloseLock, TypeOK
<1> QED
  BY <1>1, <1>2, <1>3, <1>4, <1>5, <1>6, <1>7, <1>8, <1>9, <1>10, <1>11
     DEF main, Teardown

\* Only an instance past the lock file moves on past it, and only the holder
\* gives the lock up.
LEMMA HeldStep ==
  ASSUME Inv, NEW i \in Instances, Start(i) \/ main(i) \/ Signal(i) \/ Teardown(i)
  PROVE  Held'
<1> USE DEF Goto, Held, Inside, Steps
<1>0. TypeOK /\ Held
  BY DEF Inv
<1>1. CASE TryLock(i)
  BY <1>0, <1>1, NobodyAssumption DEF TryLock, End, TypeOK
<1>2. CASE Unlock(i)
  BY <1>0, <1>2 DEF Unlock, End, TypeOK
<1>3. CASE Start(i) \/ Signal(i) \/ CloseLine(i) \/ Reaped(i)
  BY <1>0, <1>3 DEF Start, Signal, CloseLine, Reaped, End, TypeOK
<1>4. CASE CloseLock(i)
  BY <1>0, <1>4 DEF CloseLock, TypeOK
<1>5. CASE Options(i)
  BY <1>0, <1>5 DEF Options, TypeOK
<1>6. CASE OpenDevice(i) \/ InitTerminal(i) \/ SetDisc(i)
  BY <1>0, <1>6 DEF OpenDevice, InitTerminal, SetDisc, InitFails, TypeOK
<1>7. CASE ShutdownDisc(i) \/ ShutdownClose(i) \/ Sleep(i)
  BY <1>0, <1>7 DEF ShutdownDisc, ShutdownClose, Sleep, TypeOK
<1> QED
  BY <1>1, <1>2, <1>3, <1>4, <1>5, <1>6, <1>7 DEF main, Teardown

\* Each step leaves its instance with the files its next step expects.
LEMMA FilesStep ==
  ASSUME Inv, NEW i \in Instances, Start(i) \/ main(i) \/ Signal(i) \/ Teardown(i)
  PROVE  Files'
<1>0. TypeOK /\ Files /\ FilesOf(i)
  BY DEF Inv, Files
<1>1. \A j \in Instances \ {i} :
        pc'[j] = pc[j] /\ loc'[j] = loc[j] /\ opens'[j] = opens[j]
  <2> USE DEF Goto, End
  <2>1. CASE Start(i) \/ Signal(i) \/ Teardown(i)
    BY <1>0, <2>1
       DEF Start, Signal, Teardown, CloseLine, CloseLock, Reaped, TypeOK
  <2>2. CASE TryLock(i) \/ Options(i) \/ Unlock(i)
    BY <1>0, <2>2 DEF TryLock, Options, Unlock, TypeOK
  <2>3. CASE OpenDevice(i) \/ InitTerminal(i) \/ SetDisc(i)
    BY <1>0, <2>3 DEF OpenDevice, InitTerminal, SetDisc, InitFails, TypeOK
  <2>4. CASE ShutdownDisc(i) \/ ShutdownClose(i) \/ Sleep(i)
    BY <1>0, <2>4 DEF ShutdownDisc, ShutdownClose, Sleep, TypeOK
  <2> QED
    BY <2>1, <2>2, <2>3, <2>4 DEF main
<1>2. FilesOf(i)'
  <2> USE <1>0 DEF FilesOf, TypeOK, Goto, End
  <2>1. CASE Start(i) \/ Signal(i)
    BY <2>1 DEF Start, Signal, Steps
  <2>2. CASE Teardown(i)
    BY <2>2 DEF Teardown, CloseLine, CloseLock, Reaped
  <2>3. CASE TryLock(i) \/ Options(i) \/ Unlock(i)
    BY <2>3 DEF TryLock, Options, Unlock
  <2>4. CASE OpenDevice(i)
    BY <2>4 DEF OpenDevice, InitFails
  <2>5. CASE InitTerminal(i) \/ SetDisc(i)
    BY <2>5 DEF InitTerminal, SetDisc, InitFails
  <2>6. CASE ShutdownDisc(i)
    BY <2>6 DEF ShutdownDisc
  <2>7. CASE ShutdownClose(i) \/ Sleep(i)
    BY <2>7 DEF ShutdownClose, Sleep
  <2> QED
    BY <2>1, <2>2, <2>3, <2>4, <2>5, <2>6, <2>7 DEF main
<1>3. \A j \in Instances \ {i} : FilesOf(j)'
  BY <1>0, <1>1 DEF Files, FilesOf
<1> QED
  BY <1>2, <1>3 DEF Files

\* No step changes the line of another instance that waits: the discipline is
\* set by the holder of the lock, and reset by the kernel with the last file.
LEMMA LineStep ==
  ASSUME Inv, NEW i \in Instances, Start(i) \/ main(i) \/ Signal(i) \/ Teardown(i)
  PROVE  LineCbc'
<1> USE DEF LineCbc, Goto, End
<1>0. TypeOK /\ Held /\ Files /\ LineCbc
  BY DEF Inv
<1>1. CASE UNCHANGED ldisc /\ (Start(i) \/ Signal(i) \/ CloseLock(i) \/ Reaped(i))
  BY <1>0, <1>1 DEF Start, Signal, CloseLock, Reaped, TypeOK
<1>2. CASE TryLock(i) \/ Options(i) \/ Unlock(i)
  BY <1>0, <1>2 DEF TryLock, Options, Unlock, TypeOK
<1>3. CASE OpenDevice(i) \/ InitTerminal(i)
  BY <1>0, <1>3 DEF OpenDevice, InitTerminal, InitFails, TypeOK
<1>4. CASE SetDisc(i)
  BY <1>0, <1>4 DEF SetDisc, InitFails, TypeOK
<1>5. CASE ShutdownDisc(i)
  <2>1. \A j \in Instances : pc[j] # "pause"
    BY <1>0, <1>5 DEF ShutdownDisc, Held, Inside, Steps, TypeOK
  <2> QED
    BY <1>0, <1>5, <2>1 DEF ShutdownDisc, TypeOK
<1>6. CASE ShutdownClose(i)
  <2>1. \A j \in Instances : pc[j] # "pause"
    BY <1>0, <1>6 DEF ShutdownClose, Held, Inside, Steps, TypeOK
  <2> QED
    BY <1>0, <1>6, <2>1 DEF ShutdownClose, TypeOK
<1>7. CASE Sleep(i)
  BY <1>0, <1>7 DEF Sleep, TypeOK
<1>8. CASE CloseLine(i)
  <2> SUFFICES ASSUME NEW j \in Instances, pc'[j] = "pause"
               PROVE  ldisc'[loc'[j].dev] = "cbc"
    OBVIOUS
  <2>1. /\ j # i /\ pc[j] = "pause" /\ opens[j] > 0 /\ loc' = loc
        /\ ldisc[loc[j].dev] = "cbc"
    BY <1>0, <1>8 DEF CloseLine, Files, FilesOf
  <2>2. CASE loc[j].dev = loc[i].dev
    BY <1>8, <2>1, <2>2 DEF CloseLine, LastClose
  <2>3. CASE loc[j].dev # loc[i].dev
    BY <1>0, <1>8, <2>1, <2>3 DEF CloseLine, LastClose, TypeOK
  <2> QED
    BY <2>2, <2>3
<1> QED
  BY <1>1, <1>2, <1>3, <1>4, <1>5, <1>6, <1>7, <1>8
     DEF main, Teardown, Start, Signal, CloseLock, Reaped

----------------------------------------------------------------------------
LEMMA InitInv == Init => Inv
<1> SUFFICES ASSUME Init PROVE Inv
  OBVIOUS
<1>1. TypeOK
  BY LocalsTyped DEF Init, TypeOK, Local
<1>2. Held /\ Files /\ LineCbc
  BY DEF Init, Held, Inside, Files, FilesOf, LineCbc, Steps
<1> QED
  BY <1>1, <1>2 DEF Inv

LEMMA NextInv == Inv /\ [Next]_vars => Inv'
<1> SUFFICES ASSUME Inv, [Next]_vars PROVE Inv'
  OBVIOUS
<1>1. CASE Next
  BY <1>1, TypeStep, HeldStep, FilesStep, LineStep DEF Next, Inv
<1>2. CASE UNCHANGED vars
  BY <1>2 DEF vars, Inv, TypeOK, Held, Inside, Files, FilesOf, LineCbc
<1> QED
  BY <1>1, <1>2

\* Every variable keeps its type; no descriptor is closed that is not open.
THEOREM TypeCorrect == Spec => []TypeOK
<1>1. Inv => TypeOK
  BY DEF Inv
<1> QED
  BY <1>1, InitInv, NextInv, PTL DEF Spec

\* Two instances are never past the lock file.
THEOREM AtMostOneInstance == Spec => []OneInstance
<1>1. Inv => OneInstance
  BY DEF Inv, Held, OneInstance
<1> QED
  BY <1>1, InitInv, NextInv, PTL DEF Spec

\* An instance that waits has its line, with the discipline of the IOC.
THEOREM AttachedLineKept == Spec => []AttachedLineIsCbc
<1>1. Inv => AttachedLineIsCbc
  BY DEF Inv, Files, FilesOf, LineCbc, AttachedLineIsCbc
<1> QED
  BY <1>1, InitInv, NextInv, PTL DEF Spec

\* Over all retries at most one file is open, and none while the instance sleeps.
THEOREM DescriptorsOwned == Spec => []DescriptorOwned
<1>1. Inv => DescriptorOwned
  BY DEF Inv, Files, FilesOf, DescriptorOwned
<1> QED
  BY <1>1, InitInv, NextInv, PTL DEF Spec

----------------------------------------------------------------------------
(* The attempts.  The code counts the time that is left, not the attempts:  *)
(* at each step the two are tied by the calls of init made so far, and the  *)
(* last of them leaves no time.                                             *)

Left(i) == RetryTime - attempts[i] * RetryUnit

CountOf(i) ==
    /\ pc[i] \in {"gone", "flock", "options"} => attempts[i] = 0
    /\ pc[i] \in {"gone", "flock", "options", "open"} =>
         loc[i].retry_time = Left(i) /\ Left(i) > 0
    /\ pc[i] \in {"terminal", "disc", "pause", "off", "close", "sleep"} =>
         loc[i].retry_time = Left(i) + RetryUnit /\ Left(i) + RetryUnit > 0
    /\ pc[i] = "unlock" =>
         attempts[i] = 0 \/ (Left(i) <= 0 /\ Left(i) + RetryUnit > 0)
    /\ Left(i) + RetryUnit > 0

Counts == \A i \in Instances : CountOf(i)

\* The numbers of attempts that fit, without a division.
LEMMA RoundsFit ==
  ASSUME NEW n \in Nat, RetryTime - n * RetryUnit + RetryUnit > 0
  PROVE  /\ n <= Rounds
         /\ RetryTime - n * RetryUnit <= 0 => n = Rounds
<1> DEFINE t == RetryTime + RetryUnit - 1
           r == t % RetryUnit
<1>1. RetryTime \in Nat /\ RetryUnit \in Nat /\ RetryUnit > 0 /\ RetryTime > 0
  BY RetryAssumption
<1>2. /\ Rounds \in Int /\ r \in Nat /\ r < RetryUnit
      /\ t = Rounds * RetryUnit + r
  BY <1>1, Z3 DEF Rounds
<1> HIDE DEF r
<1>3. n * RetryUnit <= Rounds * RetryUnit + r
  BY <1>1, <1>2
<1>4. n <= Rounds
  <2> SUFFICES ASSUME n > Rounds PROVE FALSE
    BY <1>2
  <2>1. (n - Rounds - 1) * RetryUnit >= 0
    BY <1>1, <1>2
  <2> QED
    BY <1>1, <1>2, <1>3, <2>1
<1>5. RetryTime - n * RetryUnit <= 0 => n = Rounds
  <2> SUFFICES ASSUME RetryTime - n * RetryUnit <= 0, n < Rounds PROVE FALSE
    BY <1>2, <1>4
  <2>1. (Rounds - n - 1) * RetryUnit >= 0
    BY <1>1, <1>2
  <2> QED
    BY <1>1, <1>2, <2>1
<1> QED
  BY <1>4, <1>5

\* Each step of an instance keeps the count.
LEMMA CountStep ==
  ASSUME Inv, Counts, NEW i \in Instances,
         Start(i) \/ main(i) \/ Signal(i) \/ Teardown(i)
  PROVE  Counts'
<1>0. TypeOK /\ FilesOf(i) /\ CountOf(i) /\ Counts
  BY DEF Inv, Files, Counts
<1>1. \A j \in Instances \ {i} :
        /\ pc'[j] = pc[j] /\ loc'[j] = loc[j]
        /\ attempts'[j] = attempts[j]
  <2> USE DEF Goto, End
  <2>1. CASE Start(i) \/ Signal(i) \/ Teardown(i)
    BY <1>0, <2>1
       DEF Start, Signal, Teardown, CloseLine, CloseLock, Reaped, TypeOK
  <2>2. CASE TryLock(i) \/ Options(i) \/ Unlock(i)
    BY <1>0, <2>2 DEF TryLock, Options, Unlock, TypeOK
  <2>3. CASE OpenDevice(i) \/ InitTerminal(i) \/ SetDisc(i)
    BY <1>0, <2>3 DEF OpenDevice, InitTerminal, SetDisc, InitFails, Attempt, TypeOK
  <2>4. CASE ShutdownDisc(i) \/ ShutdownClose(i) \/ Sleep(i)
    BY <1>0, <2>4 DEF ShutdownDisc, ShutdownClose, Sleep, TypeOK
  <2> QED
    BY <2>1, <2>2, <2>3, <2>4 DEF main
<1>2. /\ attempts[i] \in Nat /\ RetryTime \in Nat /\ RetryUnit \in Nat
      /\ RetryTime > 0 /\ RetryUnit > 0
      /\ Left(i) \in Int
  BY <1>0, RetryAssumption DEF TypeOK, Left
<1>3. Locals0.retry_time = RetryTime /\ 0 * RetryUnit = 0
  BY <1>2 DEF Locals0
<1>4. CountOf(i)'
  <2> USE <1>0, <1>2 DEF TypeOK, Goto
  <2>1. CASE \/ TryLock(i) /\ Goto(i, "options")
             \/ Start(i) \/ Signal(i) \/ CloseLine(i) \/ CloseLock(i)
             \/ InitTerminal(i) \/ SetDisc(i) \/ ShutdownDisc(i) \/ ShutdownClose(i)
    <3>1. /\ attempts' = attempts /\ loc'[i].retry_time = loc[i].retry_time
          /\ Left(i)' = Left(i)
      BY <2>1 DEF TryLock, Start, Signal, CloseLine, CloseLock, InitTerminal, SetDisc,
                  ShutdownDisc, ShutdownClose, End, Left
    <3>2. \/ pc[i] = "gone" /\ pc'[i] = "flock"
          \/ pc[i] = "flock" /\ pc'[i] = "options"
          \/ pc'[i] = "dying"
          \/ /\ pc[i] \in {"terminal", "disc", "off", "close"}
             /\ pc'[i] \in {"disc", "pause", "off", "close", "sleep"}
      BY <2>1 DEF TryLock, Start, Signal, CloseLine, CloseLock, InitTerminal, SetDisc,
                  InitFails, ShutdownDisc, ShutdownClose, Steps
    <3> QED
      BY <3>1, <3>2 DEF CountOf
  <2>2. CASE End(i)
    <3>1. /\ pc'[i] = "gone" /\ attempts'[i] = 0
          /\ loc'[i].retry_time = RetryTime /\ Left(i)' = RetryTime
      BY <2>2, <1>3 DEF End, Left
    <3> QED
      BY <3>1 DEF CountOf
  <2>3. CASE Options(i)
    <3>1. /\ attempts' = attempts /\ loc'[i].retry_time = loc[i].retry_time
          /\ Left(i)' = Left(i)
      BY <2>3 DEF Options, Left
    <3>2. pc[i] = "options" /\ pc'[i] \in {"unlock", "open"}
      BY <2>3 DEF Options
    <3> QED
      BY <3>1, <3>2 DEF CountOf
  <2>4. CASE OpenDevice(i)
    <3>1. attempts[i] <= Rounds
      BY RoundsFit DEF CountOf, Left
    <3>2. /\ attempts'[i] = attempts[i] + 1
          /\ loc'[i].retry_time = loc[i].retry_time
          /\ pc[i] = "open" /\ pc'[i] \in {"terminal", "off", "sleep"}
      BY <2>4, <3>1 DEF OpenDevice, Attempt, InitFails
    <3>3. Left(i)' = Left(i) - RetryUnit
      BY <3>2 DEF Left
    <3> QED
      BY <3>2, <3>3 DEF CountOf
  <2>5. CASE Sleep(i)
    <3>1. /\ attempts' = attempts /\ Left(i)' = Left(i)
          /\ loc'[i].retry_time = loc[i].retry_time - RetryUnit
          /\ pc[i] = "sleep"
          /\ pc'[i] = IF loc'[i].retry_time > 0 THEN "open" ELSE "unlock"
      BY <2>5 DEF Sleep, Spent, Again, Left
    <3> QED
      BY <3>1 DEF CountOf
  <2> QED
    BY <2>1, <2>2, <2>3, <2>4, <2>5 DEF main, Teardown, TryLock, Unlock, Reaped
<1>5. \A j \in Instances \ {i} : CountOf(j)'
  BY <1>0, <1>1 DEF Counts, CountOf, Left
<1> QED
  BY <1>4, <1>5 DEF Counts

LEMMA CountInvariant == Spec => [](Inv /\ Counts)
<1>1. Init => Counts
  <2> SUFFICES ASSUME Init, NEW i \in Instances PROVE CountOf(i)
    BY DEF Counts
  <2>1. pc[i] = "gone" /\ attempts[i] = 0 /\ loc[i].retry_time = RetryTime
    BY DEF Init, Locals0
  <2> QED
    BY <2>1, RetryAssumption DEF CountOf, Left
<1>2. Inv /\ Counts /\ [Next]_vars => Counts'
  <2>1. ASSUME Inv, Counts, Next PROVE Counts'
    BY <2>1, CountStep DEF Next
  <2>2. ASSUME Counts, UNCHANGED vars PROVE Counts'
    BY <2>2 DEF vars, Counts, CountOf, Left
  <2> QED
    BY <2>1, <2>2
<1> QED
  BY <1>1, <1>2, InitInv, NextInv, PTL DEF Spec

\* An instance makes as many attempts as fit in the retry time, not one more, and
\* gives up only after all of them.
THEOREM AttemptsAreExact == Spec => []AttemptsExact
<1>1. ASSUME Inv, Counts, NEW i \in Instances
      PROVE  /\ attempts[i] <= Rounds
             /\ pc[i] = "unlock" /\ attempts[i] > 0 => attempts[i] = Rounds
  <2>1. CountOf(i) /\ attempts[i] \in Nat
    BY <1>1 DEF Inv, TypeOK, Counts
  <2>2. /\ attempts[i] <= Rounds
        /\ RetryTime - attempts[i] * RetryUnit <= 0 => attempts[i] = Rounds
    BY <2>1, RoundsFit DEF CountOf, Left
  <2>3. pc[i] = "unlock" => attempts[i] = 0 \/ Left(i) <= 0
    BY <2>1 DEF CountOf
  <2> QED
    BY <2>1, <2>2, <2>3 DEF Left
<1>2. Inv /\ Counts => AttemptsExact
  BY <1>1 DEF AttemptsExact
<1> QED
  BY <1>2, CountInvariant, PTL

LEMMA LinesNumbered ==
  ASSUME TypeOK
  PROVE  /\ DOMAIN rows = 1..Len(rows) /\ Len(rows) \in Nat
         /\ \A k \in DOMAIN rows : k \in Nat /\ k # 0 /\ rows[k].cols \in Int
<1>1. rows \in Seq([cols : 0..3, present : BOOLEAN, tty : Devices])
  BY MatchFilesAssumption DEF TypeOK
<1>2. \A k \in DOMAIN rows :
        rows[k] \in [cols : 0..3, present : BOOLEAN, tty : Devices] /\ k # 0
  BY <1>1, ElementTyped
<1>3. DOMAIN rows = 1..Len(rows) /\ Len(rows) \in Nat
  BY <1>1
<1> QED
  BY <1>2, <1>3

\* Two readers of one file agree on the line, or a line only one of them takes for
\* whole has parted them, for every file.
THEOREM SameLineIsRead == Spec => []SameLine
<1>1. ASSUME TypeOK, AcrnLine # 0, NEW d \in Devices
      PROVE  match_deviceName(d) = rows[AcrnLine].tty
  <2>0. \A k \in DOMAIN rows : k \in Int /\ k # 0 /\ rows[k].cols \in Int
    BY <1>1, LinesNumbered
  <2>1. AcrnLine \in DOMAIN rows /\ Matches(3, AcrnLine)
    BY <1>1, Zenon DEF AcrnLine, MatchedLine
  <2>2. \A k \in DOMAIN rows : Matches(2, k) <=> k = AcrnLine
    BY <2>0, <2>1 DEF Matches, Stops
  <2>3. MatchedLine(2) = AcrnLine
    BY <2>1, <2>2, Zenon DEF MatchedLine
  <2> QED
    BY <1>1, <2>3 DEF match_deviceName
<1>2. ASSUME TypeOK, AcrnLine = 0, MatchedLine(2) # 0
      PROVE  \E k \in 1..MatchedLine(2) : rows[k].cols = 2
  <2> DEFINE m == MatchedLine(2)
  <2>1. m \in DOMAIN rows /\ Matches(2, m)
    BY <1>2, Zenon DEF MatchedLine
  <2>2. ~Matches(3, m)
    <3>1. SUFFICES ASSUME Matches(3, m) PROVE FALSE
      OBVIOUS
    <3>2. AcrnLine \in DOMAIN rows
      BY <2>1, <3>1, Zenon DEF AcrnLine, MatchedLine
    <3> QED
      BY <1>2, <3>2, LinesNumbered
  <2> HIDE DEF m
  <2>3. /\ DOMAIN rows = 1..Len(rows) /\ Len(rows) \in Nat /\ m \in Nat
        /\ \A k \in DOMAIN rows : rows[k].cols \in Int
    BY <1>2, <2>1, LinesNumbered
  <2>4. \E k \in 1..m : rows[k].cols = 2
    BY <2>1, <2>2, <2>3 DEF Matches, Stops
  <2> QED
    BY <2>4 DEF m
<1>3. ASSUME AcrnLine = 0, MatchedLine(2) = 0, NEW d \in Devices
      PROVE  match_deviceName(d) = d
  BY <1>3 DEF match_deviceName
<1>4. Inv => SameLine
  BY <1>1, <1>2, <1>3 DEF Inv, SameLine
<1> QED
  BY <1>4, InitInv, NextInv, PTL DEF Spec

----------------------------------------------------------------------------
(* The discipline of the IOC goes with the last file.  ("On exit it        *)
(* switches the line discipline to n_tty" does not hold: the program is    *)
(* killed where it waits, and only the kernel resets the line.)            *)

\* Where no other program has the tty open, some instance has.
LineOwned == \A d \in Devices \ Shared :
                 ldisc[d] = "cbc" => \E i \in Instances : opens[i] > 0 /\ loc[i].dev = d

\* When no instance is left, no tty has the discipline of the IOC that other
\* programs do not keep open.
ExitRestoresOwnLine ==
    (\A i \in Instances : pc[i] = "gone") => \A d \in Devices \ Shared : ldisc[d] = "tty"

\* A step that gives no file up, leaves the tty of a file as it is and sets the
\* discipline at most on the tty of an open file keeps the line owned.
LEMMA KeepsOwned ==
  ASSUME LineOwned,
         \A d \in Devices : ldisc'[d] = "cbc" =>
           ldisc[d] = "cbc" \/ \E i \in Instances : opens'[i] > 0 /\ loc'[i].dev = d,
         \A i \in Instances : opens[i] > 0 => opens'[i] > 0 /\ loc'[i].dev = loc[i].dev
  PROVE  LineOwned'
BY DEF LineOwned

\* The last close resets the line, any other leaves an owner.
LEMMA CloseKeepsOwned ==
  ASSUME TypeOK, LineOwned, NEW i \in Instances, LastClose(i), opens[i] = 1,
         opens' = [opens EXCEPT ![i] = opens[i] - 1],
         \A j \in Instances : loc'[j].dev = loc[j].dev
  PROVE  LineOwned'
<1> SUFFICES ASSUME NEW d \in Devices \ Shared, ldisc'[d] = "cbc"
             PROVE  \E j \in Instances : opens'[j] > 0 /\ loc'[j].dev = d
  BY DEF LineOwned
<1>0. loc[i].dev \in Devices /\ opens \in [Instances -> Nat]
      /\ ldisc \in [Devices -> {"tty", "cbc"}]
  BY DEF TypeOK
<1>1. ldisc[d] = "cbc"
  BY <1>0 DEF LastClose
<1>2. CASE loc[i].dev = d
  <2>1. \E j \in Instances \ {i} : opens[j] > 0 /\ loc[j].dev = d
    BY <1>0, <1>2 DEF LastClose
  <2> QED
    BY <1>0, <2>1
<1>3. CASE loc[i].dev # d
  <2>1. \E j \in Instances \ {i} : opens[j] > 0 /\ loc[j].dev = d
    BY <1>1, <1>3 DEF LineOwned
  <2> QED
    BY <1>0, <2>1
<1> QED
  BY <1>2, <1>3

LEMMA OwnedStep ==
  ASSUME Inv, LineOwned, NEW i \in Instances,
         Start(i) \/ main(i) \/ Signal(i) \/ Teardown(i)
  PROVE  LineOwned'
<1>0. TypeOK /\ Files /\ FilesOf(i)
  BY DEF Inv, Files
<1>1. CASE Start(i) \/ Signal(i) \/ CloseLock(i) \/ InitTerminal(i)
  BY <1>1, KeepsOwned DEF Start, Signal, CloseLock, InitTerminal
<1>2. CASE TryLock(i) \/ Unlock(i) \/ Reaped(i) \/ Options(i)
  <2>1. opens[i] = 0 /\ opens' = opens /\ ldisc' = ldisc
    BY <1>0, <1>2 DEF TryLock, Unlock, Reaped, Options, FilesOf
  <2>2. \A j \in Instances \ {i} : loc'[j] = loc[j]
    BY <1>0, <1>2 DEF TryLock, Unlock, Reaped, Options, End, TypeOK
  <2> QED
    BY <2>1, <2>2, KeepsOwned
<1>3. CASE OpenDevice(i)
  <2>1. ldisc' = ldisc /\ \A j \in Instances : loc'[j].dev = loc[j].dev
    BY <1>0, <1>3 DEF OpenDevice, TypeOK
  <2>2. \A j \in Instances : opens[j] > 0 => opens'[j] > 0
    BY <1>0, <1>3 DEF OpenDevice, TypeOK
  <2> QED
    BY <2>1, <2>2, KeepsOwned
<1>4. CASE SetDisc(i)
  <2>1. opens[i] > 0 /\ opens' = opens /\ loc' = loc
    BY <1>0, <1>4 DEF SetDisc, FilesOf
  <2>2. ldisc' = [ldisc EXCEPT ![loc[i].dev] = "cbc"] \/ ldisc' = ldisc
    BY <1>4 DEF SetDisc
  <2> QED
    BY <1>0, <2>1, <2>2, KeepsOwned DEF TypeOK
<1>5. CASE ShutdownDisc(i)
  <2>1. opens' = opens /\ loc' = loc
    BY <1>5 DEF ShutdownDisc
  <2>2. ldisc' = [ldisc EXCEPT ![loc[i].dev] = "tty"] \/ ldisc' = ldisc
    BY <1>5 DEF ShutdownDisc
  <2> QED
    BY <1>0, <2>1, <2>2, KeepsOwned DEF TypeOK
<1>6. CASE ShutdownClose(i)
  <2>1. opens[i] = 1 /\ \A j \in Instances : loc'[j].dev = loc[j].dev
    BY <1>0, <1>6 DEF ShutdownClose, FilesOf, TypeOK
  <2> QED
    BY <1>0, <1>6, <2>1, CloseKeepsOwned DEF ShutdownClose
<1>7. CASE CloseLine(i)
  <2>1. opens[i] = 1 /\ loc' = loc
    BY <1>0, <1>7 DEF CloseLine, FilesOf, TypeOK
  <2> QED
    BY <1>0, <1>7, <2>1, CloseKeepsOwned DEF CloseLine
<1>8. CASE Sleep(i)
  <2>1. opens' = opens /\ ldisc' = ldisc /\ \A j \in Instances : loc'[j].dev = loc[j].dev
    BY <1>0, <1>8 DEF Sleep, TypeOK
  <2> QED
    BY <2>1, KeepsOwned
<1> QED
  BY <1>1, <1>2, <1>3, <1>4, <1>5, <1>6, <1>7, <1>8 DEF main, Teardown

\* However instances are started, fail and are killed, a tty that no other program has
\* open does not keep the discipline of the IOC when the last of them is gone.
THEOREM OwnLineIsRestored == Spec => []ExitRestoresOwnLine
<1>1. Init => LineOwned
  BY DEF Init, LineOwned
<1>2. Inv /\ LineOwned /\ [Next]_vars => LineOwned'
  <2> SUFFICES ASSUME Inv, LineOwned, [Next]_vars PROVE LineOwned'
    OBVIOUS
  <2>1. CASE UNCHANGED vars
    BY <2>1 DEF vars, LineOwned
  <2> QED
    BY <2>1, OwnedStep DEF Next
<1>3. Inv /\ LineOwned => ExitRestoresOwnLine
  <2> SUFFICES ASSUME Inv, LineOwned, \A i \in Instances : pc[i] = "gone",
                      NEW d \in Devices \ Shared
               PROVE  ldisc[d] = "tty"
    BY DEF ExitRestoresOwnLine
  <2>1. \A i \in Instances : opens[i] = 0
    BY DEF Inv, Files, FilesOf
  <2>2. ldisc[d] \in {"tty", "cbc"}
    BY DEF Inv, TypeOK
  <2> QED
    BY <2>1, <2>2 DEF LineOwned
<1> QED
  BY <1>1, <1>2, <1>3, InitInv, NextInv, PTL DEF Spec

----------------------------------------------------------------------------
(* The lock file outlives its instances; the lock does not.                 *)

LockIsAlive == lock # Nobody => pc[lock] \notin {"gone", "flock"}

LEMMA LockStep ==
  ASSUME TypeOK, LockIsAlive, NEW i \in Instances,
         Start(i) \/ main(i) \/ Signal(i) \/ Teardown(i)
  PROVE  LockIsAlive'
<1> USE NobodyAssumption DEF LockIsAlive, TypeOK, Goto, End
<1>1. CASE Start(i) \/ Signal(i)
  BY <1>1 DEF Start, Signal
<1>2. CASE TryLock(i)
  BY <1>2 DEF TryLock
<1>3. CASE Unlock(i) \/ Reaped(i)
  BY <1>3 DEF Unlock, Reaped
<1>4. CASE CloseLine(i) \/ CloseLock(i)
  BY <1>4 DEF CloseLine, CloseLock
<1>5. CASE Options(i)
  BY <1>5 DEF Options
<1>6. CASE OpenDevice(i) \/ InitTerminal(i) \/ SetDisc(i)
  BY <1>6 DEF OpenDevice, InitTerminal, SetDisc, InitFails
<1>7. CASE ShutdownDisc(i) \/ ShutdownClose(i) \/ Sleep(i)
  BY <1>7 DEF ShutdownDisc, ShutdownClose, Sleep
<1> QED
  BY <1>1, <1>2, <1>3, <1>4, <1>5, <1>6, <1>7 DEF main, Teardown

\* Whichever way an instance ends, it is not gone while it holds the lock: the file left
\* in /var/run never keeps the next one from starting.
THEOREM LockDiesWithHolder == Spec => []LockIsAlive
<1>1. Init => LockIsAlive
  BY DEF Init, LockIsAlive
<1>2. TypeOK /\ LockIsAlive /\ [Next]_vars => LockIsAlive'
  <2>1. CASE UNCHANGED vars
    BY <2>1 DEF vars, LockIsAlive
  <2> QED
    BY <2>1, LockStep DEF Next
<1> QED
  BY <1>1, <1>2, TypeCorrect, PTL DEF Spec
=============================================================================
