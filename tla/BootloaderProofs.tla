-------------------------- MODULE BootloaderProofs --------------------------
(***************************************************************************)
(* The safety properties of Bootloader for every set of images, every      *)
(* flash size and every number of faults and power losses.                 *)
(***************************************************************************)
EXTENDS Bootloader, TLAPS

\* What the local steps of an update know: the file read in pass 1 was the
\* announced one, and the size and CRC that VERIFY compares are that file's.
UpdateInv ==
  /\ state \in {"RECEIVE", "PROGRAM"} => firmware = announced
  /\ state \in {"ERASE", "FLASH", "VERIFY", "COMPLETE"} =>
        src \in Images /\ Accepts(announced, src)
  /\ state = "FLASH" => offset <= Len[src]
  /\ state \in {"VERIFY", "COMPLETE"} => firmware = InfoOf(src)
  /\ state = "COMPLETE" => Holds(flash, src)
  /\ state # "HALT" => retry_count < 3

\* Why no partial image is started: flash that is neither whole nor blank at
\* its vector table is covered by the flag, or the board is exposed.
FlashInv ==
  /\ Bootable(flash) \/ flash[1] = Erased \/ FlagSet \/ exposed
  /\ state \in {"FLASH", "VERIFY", "COMPLETE"} => FlagSet \/ exposed
  /\ state \in {"JUMP_APP", "APP"} => Bootable(flash) \/ exposed

IInv == TypeOK /\ UpdateInv /\ FlashInv

-----------------------------------------------------------------------------
\* An announcement and the size and CRC of an image are firmware information.
LEMMA FirmwareTypes ==
  /\ Nothing \in Firmware
  /\ \A i \in Images : InfoOf(i) \in Firmware
  /\ Announcements \subseteq Firmware
  /\ \A fw \in Firmware, p \in BOOLEAN : [firmware |-> fw, path |-> p] \in Flags
<1>1. Nothing \in Firmware
  BY ImagesAssumption DEF Nothing, Firmware
<1>2. \A i \in Images : InfoOf(i) \in Firmware
  BY ImagesAssumption DEF InfoOf, Firmware
<1>3. Announcements \subseteq Firmware
  BY <1>1, <1>2 DEF Announcements
<1>4. \A fw \in Firmware, p \in BOOLEAN : [firmware |-> fw, path |-> p] \in Flags
  BY DEF Flags
<1> QED
  BY <1>1, <1>2, <1>3, <1>4

\* Erased is a chunk no image has.
LEMMA ChunkTypes ==
  /\ Erased \in Chunks /\ Garbage \in Chunks
  /\ \A i \in Images, k \in 1..MaxLen : <<i, k>> \in Chunks /\ <<i, k>> # Erased
  /\ Garbage # Erased
BY ImagesAssumption DEF Erased, Garbage, Chunks

\* Erasing chunks of flash leaves flash.
LEMMA EraseType ==
  ASSUME NEW f \in [1..MaxLen -> Chunks], NEW S
  PROVE  EraseChunks(f, S) \in [1..MaxLen -> Chunks]
BY ChunkTypes DEF EraseChunks

\* The board leaves the factory blank or with a whole image.
LEMMA InitIInv == Init => IInv
<1> SUFFICES ASSUME Init PROVE IInv
  OBVIOUS
<1>1. /\ flash \in [1..MaxLen -> Chunks]
      /\ Bootable(flash) \/ flash[1] = Erased
  <2>1. CASE flash = [k \in 1..MaxLen |-> Erased]
    BY <2>1, ChunkTypes, ImagesAssumption
  <2>2. CASE \E i \in {j \in GoodVector : Len[j] > 0} :
               flash = [k \in 1..MaxLen |-> IF k <= Len[i] THEN <<i, k>> ELSE Erased]
    <3>1. PICK i \in {j \in GoodVector : Len[j] > 0} :
               flash = [k \in 1..MaxLen |-> IF k <= Len[i] THEN <<i, k>> ELSE Erased]
      BY <2>2
    <3>2. i \in Images /\ Len[i] \in 0..MaxLen /\ Len[i] > 0 /\ MaxLen \in Nat
      BY ImagesAssumption
    <3>3. flash \in [1..MaxLen -> Chunks]
      BY <3>1, <3>2, ChunkTypes
    <3>4. Holds(flash, i)
      BY <3>1, <3>2 DEF Holds
    <3> QED
      BY <3>2, <3>3, <3>4 DEF Bootable
  <2> QED
    BY <2>1, <2>2 DEF Init
<1>2. TypeOK
  <2>1. retry_count \in 0..3 /\ offset \in 0..MaxLen /\ faults \in 0..MaxFaults
          /\ losses \in 0..MaxLosses
    BY ImagesAssumption DEF Init
  <2> QED
    BY <1>1, <2>1, FirmwareTypes, ZenonT(30) DEF Init, TypeOK
<1>3. UpdateInv
  BY DEF Init, UpdateInv
<1>4. FlashInv
  BY <1>1 DEF Init, FlashInv
<1> QED
  BY <1>2, <1>3, <1>4 DEF IInv

\* A step that leaves flash, flag and exposure alone keeps what FlashInv says
\* of flash.
LEMMA FlashKept ==
  ASSUME FlashInv, UNCHANGED <<flash, update_flag, exposed>>,
         state' \in {"FLASH", "VERIFY", "COMPLETE"} => state \in {"FLASH", "VERIFY", "COMPLETE"},
         state' \in {"JUMP_APP", "APP"} => state \in {"JUMP_APP", "APP"}
  PROVE  FlashInv'
BY DEF FlashInv, FlagSet, Bootable, Holds


\* A fault counts against its bound.
LEMMA FaultType ==
  ASSUME TypeOK, Fault \/ NoFault
  PROVE  faults' \in 0..MaxFaults
BY ImagesAssumption DEF TypeOK, Fault, NoFault

\* CHECK_MODE jumps only when there is no flag to repair flash, or a flag it
\* could not read.
LEMMA CheckModeKeeps ==
  ASSUME IInv, CheckMode
  PROVE  IInv'
<1>1. TypeOK'
  <2>1. faults' \in 0..MaxFaults
    BY FaultType, ZenonT(30) DEF IInv, CheckMode, FlagRead, FlagNotRead
  <2>2. /\ firmware' \in Firmware /\ firmware_path' \in BOOLEAN
        /\ announced' \in Firmware /\ exposed' \in BOOLEAN
    BY ZenonT(30) DEF IInv, TypeOK, CheckMode, FlagRead, FlagNotRead, FlagSet, Flags
  <2>3. state' \in {"PROGRAM", "WAIT_CMD", "JUMP_APP"}
    BY ZenonT(30) DEF CheckMode, EntryState
  <2> QED
    BY <2>1, <2>2, <2>3 DEF IInv, TypeOK, CheckMode, disk
<1>2. UpdateInv'
  BY FirmwareTypes, ImagesAssumption, ZenonT(30) DEF IInv, UpdateInv, TypeOK, CheckMode,
    FlagRead, FlagNotRead, EntryState, Fault, NoFault, ram, disk, bounds,
    history, Holds
<1>3. FlashInv'
  <2> USE DEF IInv, TypeOK, FlashInv
  <2>1. /\ UNCHANGED <<flash, update_flag>>
        /\ exposed' \in BOOLEAN /\ (exposed => exposed')
    BY ZenonT(30) DEF CheckMode, FlagRead, FlagNotRead, disk
  <2>2. Bootable(flash)' <=> Bootable(flash)
    BY <2>1 DEF Bootable, Holds
  <2>3. FlagSet' <=> FlagSet
    BY <2>1 DEF FlagSet
  <2>4. state' \in {"PROGRAM", "WAIT_CMD", "JUMP_APP"}
    BY ZenonT(30) DEF CheckMode, EntryState
  <2>5. ASSUME state' = "JUMP_APP" PROVE Bootable(flash) \/ exposed'
    <3>1. FlagNotRead /\ TRUE \in is_firmware_valid
      BY <2>5, ZenonT(30) DEF CheckMode, EntryState
    <3>2. CASE FlagSet
      BY <3>1, <3>2, ZenonT(30) DEF FlagNotRead
    <3>3. CASE ~FlagSet
      <4>1. flash[1] # Erased
        BY <3>1, ChunkTypes, ZenonT(30) DEF is_firmware_valid
      <4> QED
        BY <4>1, <3>3, <2>1
    <3> QED
      BY <3>2, <3>3
  <2> QED
    BY <2>1, <2>2, <2>3, <2>4, <2>5
<1> QED
  BY <1>1, <1>2, <1>3 DEF IInv

\* An error in CHECK_MODE enters update mode or halts, and touches nothing.
LEMMA CheckModeErrorKeeps ==
  ASSUME IInv, CheckModeError
  PROVE  IInv'
<1>1. TypeOK'
  <2>1. faults' \in 0..MaxFaults
    BY FaultType DEF IInv, CheckModeError
  <2> QED
    BY <2>1, ZenonT(30) DEF IInv, TypeOK, CheckModeError, ram, disk, bounds, history
<1>2. UpdateInv'
  BY FirmwareTypes, ImagesAssumption, ZenonT(30) DEF IInv, UpdateInv, TypeOK,
    CheckModeError, Fault, ram, disk, bounds, history, Holds
<1>3. FlashInv'
  BY FlashKept, ImagesAssumption, ZenonT(30) DEF IInv, UpdateInv, FlashInv, TypeOK,
    FlagSet, Bootable, Holds, CheckModeError, Fault, ram, disk, bounds, history
<1> QED
  BY <1>1, <1>2, <1>3 DEF IInv

\* jump_to_firmware starts what CHECK_MODE or VERIFY approved.
LEMMA JumpKeeps ==
  ASSUME IInv, Jump
  PROVE  IInv'
<1>1. TypeOK'
  <2>1. faults' \in 0..MaxFaults
    BY FaultType DEF IInv, Jump
  <2>2. retry_count' \in 0..3 /\ offset' \in 0..MaxLen
    BY ImagesAssumption DEF Jump, ContextLost
  <2> QED
    BY <2>1, <2>2, FirmwareTypes, ZenonT(30) DEF IInv, TypeOK, Jump, ContextLost, ram,
      disk, bounds, history
<1>2. UpdateInv'
  BY FirmwareTypes, ImagesAssumption DEF IInv, UpdateInv, TypeOK, Jump, Fault,
    NoFault, ContextLost, ram, disk, bounds, history, Holds
<1>3. FlashInv'
  BY FlashKept, ImagesAssumption, ZenonT(30) DEF IInv, UpdateInv, FlashInv, TypeOK,
    FlagSet, Bootable, Holds, Jump, Fault, NoFault, ContextLost, ram, disk,
    bounds, history
<1> QED
  BY <1>1, <1>2, <1>3 DEF IInv

\* Pass 1 lets only the announced image through.
LEMMA ProgramPassOneKeeps ==
  ASSUME IInv, ProgramPassOne
  PROVE  IInv'
<1>1. TypeOK'
  BY FirmwareTypes, ChunkTypes, EraseType, ImagesAssumption DEF IInv,
    UpdateInv, TypeOK, ProgramPassOne, SourceAccepted, Source, Fault, NoFault,
    ram, disk, bounds, history
<1>2. UpdateInv'
  BY FirmwareTypes, ImagesAssumption DEF IInv, UpdateInv, TypeOK,
    ProgramPassOne, SourceAccepted, Source, Fault, NoFault, ram, disk, bounds,
    history, Holds
<1>3. FlashInv'
  BY FlashKept, ImagesAssumption, SMTT(30) DEF IInv, UpdateInv, FlashInv, TypeOK,
    FlagSet, Bootable, Holds, ProgramPassOne, SourceAccepted, Source, Fault,
    NoFault, ram, disk, bounds, history
<1> QED
  BY <1>1, <1>2, <1>3 DEF IInv

\* From the erase on the board depends on its flag.
LEMMA EraseKeeps ==
  ASSUME IInv, Erase
  PROVE  IInv'
<1>1. TypeOK'
  BY FirmwareTypes, ChunkTypes, EraseType, ImagesAssumption, SMTT(30) DEF IInv,
    UpdateInv, TypeOK, Erase, Fault, NoFault, ram, disk, bounds, history
<1>2. UpdateInv'
  BY FirmwareTypes, ImagesAssumption, SMTT(30) DEF IInv, UpdateInv, TypeOK, Erase, Fault,
    NoFault, ram, disk, bounds, history, Holds
<1>3. FlashInv'
  BY FlashKept, ImagesAssumption, ZenonT(30) DEF IInv, UpdateInv, FlashInv, TypeOK,
    FlagSet, Bootable, Holds, Erase, Fault, NoFault, ram, disk, bounds, history
<1> QED
  BY <1>1, <1>2, <1>3 DEF IInv

\* Pass 2 changes flash under the same flag.
LEMMA WriteChunkKeeps ==
  ASSUME IInv, WriteChunk
  PROVE  IInv'
<1>1. TypeOK'
  <2>1. faults' \in 0..MaxFaults
    BY FaultType DEF IInv, WriteChunk
  <2>2. src \in Images /\ Len[src] \in 0..MaxLen /\ offset \in 0..MaxLen
    BY ImagesAssumption DEF IInv, TypeOK, UpdateInv, WriteChunk
  <2>3. offset + 1 \in 1..MaxLen
    BY <2>2, ImagesAssumption DEF WriteChunk
  <2>4. flash' \in [1..MaxLen -> Chunks]
    BY <2>2, <2>3, ChunkTypes DEF IInv, TypeOK, WriteChunk
  <2>5. offset' \in 0..MaxLen /\ firmware' \in Firmware
    BY <2>2, <2>3, FirmwareTypes DEF IInv, TypeOK, WriteChunk
  <2>6. state' \in {"FLASH", "ERROR", "VERIFY"}
    BY DEF WriteChunk
  <2> QED
    BY <2>1, <2>4, <2>5, <2>6 DEF IInv, TypeOK, WriteChunk, ram, disk, bounds,
      history
<1>2. UpdateInv'
  BY FirmwareTypes, ImagesAssumption, SMTT(30) DEF IInv, UpdateInv, TypeOK, WriteChunk,
    Fault, NoFault, ram, disk, bounds, history, Holds
<1>3. FlashInv'
  BY FlashKept, ImagesAssumption, SMTT(30) DEF IInv, UpdateInv, FlashInv, TypeOK,
    FlagSet, Bootable, Holds, WriteChunk, Fault, NoFault, ram, disk, bounds,
    history
<1> QED
  BY <1>1, <1>2, <1>3 DEF IInv

\* The end of pass 2 hands the size and CRC of pass 1 to VERIFY.
LEMMA WriteDoneKeeps ==
  ASSUME IInv, WriteDone
  PROVE  IInv'
<1>1. TypeOK'
  BY FirmwareTypes, ChunkTypes, EraseType, ImagesAssumption DEF IInv,
    UpdateInv, TypeOK, WriteDone, ram, disk, bounds, history
<1>2. UpdateInv'
  BY FirmwareTypes, ImagesAssumption DEF IInv, UpdateInv, TypeOK, WriteDone,
    ram, disk, bounds, history, Holds
<1>3. FlashInv'
  BY FlashKept, ImagesAssumption, SMTT(30) DEF IInv, UpdateInv, FlashInv, TypeOK,
    FlagSet, Bootable, Holds, WriteDone, ram, disk, bounds, history
<1> QED
  BY <1>1, <1>2, <1>3 DEF IInv

\* VERIFY lets only the image of pass 1 through.
LEMMA VerifyFlashKeeps ==
  ASSUME IInv, VerifyFlash
  PROVE  IInv'
<1>1. TypeOK'
  BY FirmwareTypes, ChunkTypes, EraseType, ImagesAssumption, SMTT(30) DEF IInv,
    UpdateInv, TypeOK, VerifyFlash, Fault, NoFault, ram, disk, bounds, history
<1>2. UpdateInv'
  <2>1. CASE FlashMatches(firmware) /\ state' = "COMPLETE"
    <3>1. src \in Images /\ firmware = InfoOf(src) /\ Len[src] \in Nat
      BY ImagesAssumption DEF IInv, UpdateInv, VerifyFlash
    <3>2. Holds(flash, src)
      BY <2>1, <3>1 DEF FlashMatches, InfoOf, Holds
    <3> QED
      BY <2>1, <3>2 DEF IInv, UpdateInv, VerifyFlash, ram, disk, bounds,
        history, Holds
  <2>2. CASE state' = "ERROR"
    BY <2>2, SMTT(30) DEF IInv, UpdateInv, VerifyFlash, ram, disk, bounds, history
  <2> QED
    BY <2>1, <2>2 DEF VerifyFlash
<1>3. FlashInv'
  BY FlashKept, ImagesAssumption, SMTT(30) DEF IInv, UpdateInv, FlashInv, TypeOK,
    FlagSet, Bootable, Holds, VerifyFlash, Fault, NoFault, ram, disk, bounds,
    history
<1> QED
  BY <1>1, <1>2, <1>3 DEF IInv

\* Deleting the flag is safe once flash holds the image.
LEMMA CompleteKeeps ==
  ASSUME IInv, Complete
  PROVE  IInv'
<1>1. TypeOK'
  BY FirmwareTypes, ChunkTypes, EraseType, ImagesAssumption, SMTT(30) DEF IInv,
    UpdateInv, TypeOK, Complete, Fault, NoFault, ram, disk, bounds, history
<1>2. UpdateInv'
  BY FirmwareTypes, ImagesAssumption DEF IInv, UpdateInv, TypeOK, Complete,
    Fault, NoFault, ram, disk, bounds, history, Holds
<1>3. FlashInv'
  <2>1. /\ src \in Images /\ Len[src] \in Nat /\ Holds(flash, src)
        /\ FlagSet \/ exposed
    BY ImagesAssumption DEF IInv, UpdateInv, FlashInv, Complete
  <2>2. state' = "JUMP_APP" /\ flash' = flash
    BY DEF Complete
  <2>3. CASE Len[src] = 0
    BY <2>1, <2>2, <2>3, ZenonT(30) DEF FlashInv, Complete
  <2>4. CASE Len[src] # 0
    <3>1. Bootable(flash)
      BY <2>1, <2>4 DEF Bootable
    <3>2. Bootable(flash)'
      BY <2>2, <3>1 DEF Bootable, Holds
    <3> QED
      BY <2>2, <3>2 DEF FlashInv
  <2> QED
    BY <2>3, <2>4
<1> QED
  BY <1>1, <1>2, <1>3 DEF IInv

\* An error keeps the flag, or gives up and exposes the board.
LEMMA ErrorKeeps ==
  ASSUME IInv, Error
  PROVE  IInv'
<1>1. TypeOK'
  <2>1. faults' \in 0..MaxFaults
    BY FaultType DEF IInv, Error
  <2>2. retry_count' \in 0..3 /\ offset' \in 0..MaxLen
    BY ImagesAssumption DEF IInv, TypeOK, UpdateInv, Error
  <2>3. exposed' \in BOOLEAN
    BY ZenonT(30) DEF IInv, TypeOK, Error
  <2>4. update_flag' \in {update_flag, NoFile} /\ state' \in {"HALT", "WAIT_CMD"}
    BY DEF Error
  <2> QED
    BY <2>1, <2>2, <2>3, <2>4 DEF IInv, TypeOK, Error
<1>2. UpdateInv'
  BY FirmwareTypes, ImagesAssumption DEF IInv, UpdateInv, TypeOK, Error,
    GiveUp, Fault, NoFault, ram, disk, bounds, history, Holds
<1>3. FlashInv'
  BY FlashKept, ImagesAssumption, ZenonT(30) DEF IInv, UpdateInv, FlashInv, TypeOK,
    FlagSet, Bootable, Holds, Error, GiveUp, Fault, NoFault, ram, disk, bounds,
    history
<1> QED
  BY <1>1, <1>2, <1>3 DEF IInv

\* The running application may lose the flag: flash is whole or exposed.
LEMMA AppFlagWriteFailsKeeps ==
  ASSUME IInv, AppFlagWriteFails
  PROVE  IInv'
<1>1. TypeOK'
  BY FirmwareTypes, ChunkTypes, EraseType, ImagesAssumption DEF IInv,
    UpdateInv, TypeOK, AppFlagWriteFails, Fault, NoFault, ram, disk, bounds,
    history
<1>2. UpdateInv'
  BY FirmwareTypes, ImagesAssumption DEF IInv, UpdateInv, TypeOK,
    AppFlagWriteFails, Fault, NoFault, ram, disk, bounds, history, Holds
<1>3. FlashInv'
  BY FlashKept, ImagesAssumption, ZenonT(30) DEF IInv, UpdateInv, FlashInv, TypeOK,
    FlagSet, Bootable, Holds, AppFlagWriteFails, Fault, NoFault, ram, disk,
    bounds, history
<1> QED
  BY <1>1, <1>2, <1>3 DEF IInv

\* A power loss damages flash only under a flag or on an exposed board.
LEMMA PowerLossKeeps ==
  ASSUME IInv, PowerLoss
  PROVE  IInv'
<1>1. TypeOK'
  <2>1. losses' \in 0..MaxLosses /\ retry_count' \in 0..3 /\ offset' \in 0..MaxLen
    BY ImagesAssumption DEF IInv, TypeOK, PowerLoss, ContextLost
  <2>2. exposed' \in BOOLEAN
    BY ZenonT(30) DEF IInv, TypeOK, PowerLoss
  <2>3. flash' \in [1..MaxLen -> Chunks]
    BY EraseType, ChunkTypes DEF IInv, TypeOK, PowerLoss
  <2> QED
    BY <2>1, <2>2, <2>3, FirmwareTypes, ZenonT(30) DEF IInv, TypeOK, PowerLoss,
      ContextLost, disk
<1>2. UpdateInv'
  BY FirmwareTypes, ImagesAssumption DEF IInv, UpdateInv, TypeOK, PowerLoss,
    ContextLost, ram, disk, bounds, history, Holds
<1>3. FlashInv'
  BY FlashKept, ImagesAssumption, ZenonT(30) DEF IInv, UpdateInv, FlashInv, TypeOK,
    FlagSet, Bootable, Holds, PowerLoss, ContextLost, ram, disk, bounds, history
<1> QED
  BY <1>1, <1>2, <1>3 DEF IInv


\* A server command replaces size and CRC in WAIT_CMD only.
LEMMA CheckServerCmdKeeps ==
  ASSUME IInv, NEW fw \in Announcements, CheckServerCmd(fw)
  PROVE  IInv'
<1>1. TypeOK'
  BY FirmwareTypes DEF IInv, TypeOK, CheckServerCmd, disk, bounds
<1>2. UpdateInv'
  BY DEF IInv, UpdateInv, CheckServerCmd
<1>3. FlashInv'
  BY FlashKept DEF IInv, CheckServerCmd, disk
<1> QED
  BY <1>1, <1>2, <1>3 DEF IInv

\* A transfer changes nothing but the backup file.
LEMMA ReceiveFirmwareKeeps ==
  ASSUME IInv, NEW file \in Images \cup {backup}, ReceiveFirmware(file)
  PROVE  IInv'
<1>1. TypeOK'
  BY DEF IInv, TypeOK, ReceiveFirmware, ram, bounds
<1>2. UpdateInv'
  BY DEF IInv, UpdateInv, ReceiveFirmware, ram
<1>3. FlashInv'
  BY FlashKept DEF IInv, ReceiveFirmware
<1> QED
  BY <1>1, <1>2, <1>3 DEF IInv

\* The application asks for an update with flash whole or the board exposed.
LEMMA AppRequestUpdateKeeps ==
  ASSUME IInv, NEW file \in Images, NEW fw \in Announcements,
         NEW path \in BOOLEAN, AppRequestUpdate(file, fw, path)
  PROVE  IInv'
<1>1. TypeOK'
  BY FirmwareTypes DEF IInv, TypeOK, AppRequestUpdate, ram, bounds, history
<1>2. UpdateInv'
  BY DEF IInv, UpdateInv, AppRequestUpdate, ram, history
<1>3. FlashInv'
  BY FirmwareTypes DEF IInv, FlashInv, AppRequestUpdate, history, FlagSet
<1> QED
  BY <1>1, <1>2, <1>3 DEF IInv

\* Every step of the board keeps the invariant.
LEMMA NextIInv == IInv /\ [Next]_vars => IInv'
<1> SUFFICES ASSUME IInv, [Next]_vars PROVE IInv'
  OBVIOUS
<1>1. CASE BootloaderStep
  BY <1>1, CheckModeKeeps, CheckModeErrorKeeps, JumpKeeps, ProgramPassOneKeeps,
     EraseKeeps, WriteChunkKeeps, WriteDoneKeeps, VerifyFlashKeeps,
     CompleteKeeps, ErrorKeeps DEF BootloaderStep
<1>2. CASE \E fw \in Announcements : CheckServerCmd(fw)
  BY <1>2, CheckServerCmdKeeps
<1>3. CASE \E file \in Images \cup {backup} : ReceiveFirmware(file)
  BY <1>3, ReceiveFirmwareKeeps
<1>4. CASE \E file \in Images, fw \in Announcements, path \in BOOLEAN :
              AppRequestUpdate(file, fw, path)
  BY <1>4, AppRequestUpdateKeeps
<1>5. CASE AppFlagWriteFails
  BY <1>5, AppFlagWriteFailsKeeps
<1>6. CASE PowerLoss
  BY <1>6, PowerLossKeeps, SMTT(30)
<1>7. CASE UNCHANGED vars
  BY <1>7 DEF vars, ram, disk, bounds, history, IInv, TypeOK, UpdateInv, FlashInv,
     FlagSet, Bootable, Holds
<1> QED
  BY <1>1, <1>2, <1>3, <1>4, <1>5, <1>6, <1>7 DEF Next

\* IInv is an invariant of the board.
LEMMA IInvAlways == Spec => []IInv
BY InitIInv, NextIInv, PTL DEF Spec

-----------------------------------------------------------------------------
\* The bootloader's state keeps its types, retry_count stays within three.
THEOREM TypeCorrect == Spec => []TypeOK
<1>1. IInv => TypeOK
  BY DEF IInv
<1> QED
  BY <1>1, IInvAlways, PTL

\* Whatever power losses, failed reads and failed writes went before, COMPLETE
\* finds in flash exactly the announced image.
THEOREM CompleteIsExactAlways == Spec => []CompleteIsExact
<1>1. IInv => CompleteIsExact
  BY DEF IInv, UpdateInv, CompleteIsExact
<1> QED
  BY <1>1, IInvAlways, PTL

\* No partial image is ever started unless the board is exposed.
THEOREM NoPartialRunAlways == Spec => []NoPartialRun
<1>1. IInv => NoPartialRun
  BY DEF IInv, FlashInv, NoPartialRun
<1> QED
  BY <1>1, IInvAlways, PTL

\* Only COMPLETE, the third error and the application remove the update flag.
THEOREM FlagIsCommitPointAlways == Spec => FlagIsCommitPoint
<1>1. IInv /\ [Next]_vars => [FlagCommit]_vars
  <2> SUFFICES ASSUME IInv, [Next]_vars, FlagSet, ~FlagSet', state # "APP"
               PROVE  (src \in Images /\ Holds(flash, src)) \/ retry_count' = 3
    BY DEF FlagCommit
  <2>1. update_flag' # update_flag
    BY DEF FlagSet
  <2>2. CASE Complete
    BY <2>2, SMTT(30) DEF IInv, UpdateInv, Complete
  <2>3. CASE Error
    BY <2>1, <2>3 DEF IInv, TypeOK, UpdateInv, Error, GiveUp
  <2> QED
    BY <2>1, <2>2, <2>3, ZenonT(30) DEF Next, vars, disk, BootloaderStep, CheckMode,
       CheckModeError, Jump, ProgramPassOne, Erase, WriteChunk, WriteDone,
       VerifyFlash, CheckServerCmd, ReceiveFirmware, AppRequestUpdate,
       AppFlagWriteFails, PowerLoss
<1> QED
  BY <1>1, IInvAlways, PTL DEF Spec, FlagIsCommitPoint
=============================================================================
