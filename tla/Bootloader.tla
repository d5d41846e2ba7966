----------------------------- MODULE Bootloader -----------------------------
(***************************************************************************)
(* The firmware update of drivers/kinetis/bootloader.c as it runs on the   *)
(* board: bootloader_flow with the functions it calls, the application     *)
(* that stages an image and writes the update flag, the server that        *)
(* announces and sends one, and power loss between any two steps.          *)
(*                                                                         *)
(* Data: an image is a model value with a length in flash chunks (4096     *)
(* bytes).  Chunk k of image i is <<i, k>>.  A CRC-32 is the image itself: *)
(* two different images have different CRCs and only the empty one has     *)
(* CRC 0, which the code reads as "do not check".  A file holds an image;  *)
(* a truncated or corrupted file is an image nobody announces.             *)
(***************************************************************************)
EXTENDS Integers

CONSTANTS
  Images,       \* contents a firmware file may have
  Len,          \* Len[i]: length of image i in chunks, 0 for an empty file
  MaxLen,       \* chunks of the firmware flash region
  GoodVector,   \* images whose first words pass is_firmware_valid
  NoFile,       \* there is no such file
  EmptyFile,    \* the file is there and has no content
  Unchecked,    \* a CRC announced as 0
  MaxFaults,    \* bound: storage, flash and allocation errors
  MaxLosses     \* bound: power losses

VARIABLES
  \* RAM: struct bootloader_context and the locals of write_firmware_to_chip
  state,            \* "OFF" between reset and bootloader_flow, "APP" once jumped
  retry_count,
  firmware,         \* firmware_size and firmware_crc32
  firmware_path,    \* TRUE: the path of the staged file was read from the flag
  src,              \* the content pass 1 read
  offset,           \* chunks written by pass 2
  \* what survives a reset
  update_flag,      \* BL_UPDATE_FLAG_PATH
  staged,           \* the file the application received
  backup,           \* BL_BACKUP_PATH/firmware_filename
  flash,
  \* bounds
  faults,
  losses,
  \* history
  announced,        \* size and CRC last taken from the flag or the server
  received,         \* result of the last ZMODEM transfer of this power cycle
  exposed           \* flash was or may be dirty without a flag that repairs it

ram == <<retry_count, firmware, firmware_path, src, offset>>
disk == <<update_flag, staged, backup>>
bounds == <<faults, losses>>
history == <<announced, received, exposed>>
vars == <<state, ram, disk, flash, bounds, history>>

-----------------------------------------------------------------------------
Erased == <<NoFile, 0>>
Garbage == <<NoFile, 1>>
Chunks == (Images \X (1..MaxLen)) \cup {Erased, Garbage}

\* Size and CRC of an announcement; either may be 0 ("do not check").
Firmware == [size : 0..MaxLen, crc : Images \cup {Unchecked}]
Nothing == [size |-> 0, crc |-> Unchecked]
\* The CRC of no bytes is 0.
InfoOf(i) == [size |-> Len[i], crc |-> IF Len[i] = 0 THEN Unchecked ELSE i]

\* What a client announces: size and CRC of the image it means, or zeros.
Announcements == {Nothing} \cup {InfoOf(i) : i \in Images}

\* struct bootloader_update_flag.
Flags == [firmware : Firmware, path : BOOLEAN]

ASSUME ImagesAssumption ==
  /\ MaxLen \in Nat \ {0}
  /\ Len \in [Images -> 0..MaxLen]
  /\ GoodVector \subseteq Images
  /\ NoFile \notin Images \cup Flags
  /\ EmptyFile \notin Flags \cup {NoFile}
  /\ Unchecked \notin Images
  /\ MaxFaults \in Nat
  /\ MaxLosses \in Nat

FlagSet == update_flag \in Flags

\* Flash holds the whole of image i.
Holds(f, i) == \A k \in 1..Len[i] : f[k] = <<i, k>>
Bootable(f) == \E i \in Images : Len[i] > 0 /\ Holds(f, i)

\* The size and CRC checks of pass 1.
Accepts(fw, i) ==
  /\ fw.size # 0 => fw.size = Len[i]
  /\ fw.crc # Unchecked => fw.crc = i

-----------------------------------------------------------------------------
(***************************************************************************)
(* Errors of the file system, of flash and of kmalloc.                     *)
(***************************************************************************)
Fault ==
  /\ faults < MaxFaults
  /\ faults' = faults + 1
NoFault == UNCHANGED faults

\* The context does not survive a reset or the jump; bootloader_init zeroes it.
ContextLost ==
  /\ retry_count' = 0
  /\ firmware' = Nothing
  /\ firmware_path' = FALSE
  /\ src' = NoFile
  /\ offset' = 0
  /\ announced' = Nothing
  /\ received' = "none"

\* bootloader_init: every field of the context is zero.
Init ==
  /\ state = "OFF"
  /\ retry_count = 0
  /\ firmware = Nothing
  /\ firmware_path = FALSE
  /\ src = NoFile
  /\ offset = 0
  /\ update_flag = NoFile
  /\ staged = NoFile
  /\ backup = NoFile
  /\ flash \in {[k \in 1..MaxLen |-> Erased]} \cup
               {[k \in 1..MaxLen |-> IF k <= Len[i] THEN <<i, k>> ELSE Erased] :
                  i \in {j \in GoodVector : Len[j] > 0}}
  /\ faults = 0
  /\ losses = 0
  /\ announced = Nothing
  /\ received = "none"
  /\ exposed = FALSE

\* The words is_firmware_valid reads are those of chunk 1; what half-written
\* words look like is anybody's guess.
is_firmware_valid ==
  IF flash[1] = Garbage THEN BOOLEAN
  ELSE {flash[1] # Erased /\ flash[1][1] \in GoodVector}

\* read_update_flag: the context takes size, CRC and path from the flag.  A
\* file that is missing, short or unreadable is no flag.
FlagRead ==
  /\ FlagSet
  /\ NoFault
  /\ firmware' = update_flag.firmware
  /\ firmware_path' = update_flag.path
  /\ announced' = update_flag.firmware
  /\ UNCHANGED exposed

FlagNotRead ==
  /\ \/ ~FlagSet /\ NoFault
     \/ FlagSet /\ Fault
  /\ exposed' = (exposed \/ FlagSet)
  /\ UNCHANGED <<firmware, firmware_path, announced>>

\* Where update mode starts: with a staged file there is nothing to wait for.
EntryState_AlwaysWait(path) == "WAIT_CMD"
EntryState(path) == IF path THEN "PROGRAM" ELSE "WAIT_CMD"

\* The head of bootloader_flow, CHECK_MODE.
CheckMode_VectorFirst ==
  /\ state = "OFF"
  /\ \/ FlagRead /\ FALSE \in is_firmware_valid
          /\ state' = EntryState(update_flag.path)
     \/ FlagRead /\ TRUE \in is_firmware_valid /\ state' = "JUMP_APP"
     \/ FlagNotRead /\ TRUE \in is_firmware_valid /\ state' = "JUMP_APP"
     \/ FlagNotRead /\ FALSE \in is_firmware_valid /\ state' = "WAIT_CMD"
  /\ UNCHANGED <<retry_count, src, offset, disk, flash, losses, received>>
CheckMode ==
  /\ state = "OFF"
  /\ \/ FlagRead /\ state' = EntryState(update_flag.path)
     \/ FlagNotRead /\ TRUE \in is_firmware_valid /\ state' = "JUMP_APP"
     \/ FlagNotRead /\ FALSE \in is_firmware_valid /\ state' = "WAIT_CMD"
  /\ UNCHANGED <<retry_count, src, offset, disk, flash, losses, received>>

\* CHECK_MODE when flash cannot be read (a firmware that cannot be read is not
\* valid) or when the directories cannot be created (the flow returns).
CheckModeError ==
  /\ state = "OFF"
  /\ Fault
  /\ \/ ~FlagSet /\ state' = "WAIT_CMD"
     \/ (FlagSet \/ FALSE \in is_firmware_valid) /\ state' = "HALT"
  /\ UNCHANGED <<ram, disk, flash, losses, history>>

\* jump_to_firmware; it halts when it cannot read the vector table.
Jump ==
  /\ state = "JUMP_APP"
  /\ \/ NoFault /\ state' = "APP"
     \/ Fault /\ state' = "HALT"
  /\ ContextLost
  /\ UNCHANGED <<disk, flash, losses, exposed>>

\* check_server_cmd: size, CRC and name come from the message; the path read
\* from the flag stays.
CheckServerCmd(fw) ==
  /\ state = "WAIT_CMD"
  /\ firmware' = fw
  /\ announced' = fw
  /\ received' = "none"
  /\ state' = "RECEIVE"
  /\ UNCHANGED <<retry_count, firmware_path, src, offset, disk, flash, bounds,
                 exposed>>

\* receive_firmware: lrzsz_rz writes files into the backup directory and
\* returns the bytes received, 0, or a negative error.  A file sent under
\* another name leaves the announced one as it was.
ReceiveFirmware(file) ==
  /\ state = "RECEIVE"
  /\ \/ received' = "bytes" /\ backup' = file /\ state' = "PROGRAM"
     \/ received' = "zero" /\ UNCHANGED backup /\ state' = "PROGRAM"
     \/ received' = "error" /\ backup' = file /\ state' = "ERROR"
  /\ UNCHANGED <<ram, update_flag, staged, flash, bounds, announced, exposed>>

Source == IF firmware_path THEN staged ELSE backup
SourceAccepted_SizeOnly ==
  Source # NoFile /\ (firmware.size # 0 => firmware.size = Len[Source])
SourceAccepted == Source # NoFile /\ Accepts(firmware, Source)

\* write_firmware_to_chip up to the second f_open: pass 1, the checks, and the
\* copy into the firmware directory.
ProgramPassOne ==
  /\ state = "PROGRAM"
  /\ \/ /\ NoFault
        /\ SourceAccepted
        /\ src' = Source
        /\ state' = "ERASE"
     \/ /\ NoFault
        /\ ~SourceAccepted
        /\ state' = "ERROR"
        /\ UNCHANGED src
     \/ /\ Fault
        /\ state' = "ERROR"
        /\ UNCHANGED src
  /\ UNCHANGED <<retry_count, firmware, firmware_path, offset, disk, flash,
                 losses, history>>

EraseChunks(f, S) == [k \in 1..MaxLen |-> IF k \in S THEN Erased ELSE f[k]]

\* flash->erase of total_size bytes.  An erase that fails stops anywhere.
Erase ==
  /\ state = "ERASE"
  /\ \/ NoFault /\ flash' = EraseChunks(flash, 1..Len[src]) /\ state' = "FLASH"
     \/ Fault /\ state' = "ERROR"
          /\ \E S \in SUBSET (1..Len[src]) : flash' = EraseChunks(flash, S)
  /\ offset' = 0
  /\ exposed' = (exposed \/ ~FlagSet)
  /\ UNCHANGED <<retry_count, firmware, firmware_path, src, disk, losses,
                 announced, received>>

\* One round of pass 2: read a chunk and write it.  A failed write is an
\* error; a write may also fail silently; a failed read ends the loop as the
\* end of the file does.
WriteChunk ==
  /\ state = "FLASH"
  /\ offset < Len[src]
  /\ \/ /\ NoFault
        /\ flash' = [flash EXCEPT ![offset + 1] = <<src, offset + 1>>]
        /\ offset' = offset + 1
        /\ UNCHANGED <<state, firmware>>
     \/ /\ Fault
        /\ flash' = [flash EXCEPT ![offset + 1] = Garbage]
        /\ \/ offset' = offset + 1 /\ UNCHANGED state
           \/ state' = "ERROR" /\ UNCHANGED offset
        /\ UNCHANGED firmware
     \/ /\ Fault
        /\ state' = "VERIFY"
        /\ firmware' = InfoOf(src)
        /\ UNCHANGED <<flash, offset>>
  /\ UNCHANGED <<retry_count, firmware_path, src, disk, losses, history>>

\* End of file: size and CRC of pass 1 replace the announced ones.
WriteDone ==
  /\ state = "FLASH"
  /\ offset = Len[src]
  /\ firmware' = InfoOf(src)
  /\ state' = "VERIFY"
  /\ UNCHANGED <<retry_count, firmware_path, src, offset, disk, flash, bounds,
                 history>>

\* verify_flash_crc reads firmware_size bytes back and compares the CRC.
FlashMatches(fw) == \A k \in 1..fw.size : flash[k] = <<fw.crc, k>>
VerifyFlash ==
  /\ state = "VERIFY"
  /\ \/ NoFault /\ FlashMatches(firmware) /\ state' = "COMPLETE"
     \/ NoFault /\ ~FlashMatches(firmware) /\ state' = "ERROR"
     \/ Fault /\ state' = "ERROR"
  /\ UNCHANGED <<ram, disk, flash, losses, history>>

\* COMPLETE: the flag is deleted (whether that worked is not looked at), then
\* jump_to_firmware without another look at the vector table.
Complete ==
  /\ state = "COMPLETE"
  /\ state' = "JUMP_APP"
  /\ \/ NoFault /\ update_flag' = NoFile
     \/ Fault /\ UNCHANGED update_flag
  /\ exposed' = (Len[src] = 0 /\ (exposed \/ FlagSet))
  /\ UNCHANGED <<ram, staged, backup, flash, losses, announced, received>>

\* ERROR: three errors of one power cycle end the update.  src and offset are
\* locals of write_firmware_to_chip.
GiveUp_Early(n) == n >= 2
GiveUp_Never(n) == FALSE
GiveUp(n) == n >= 3
Error ==
  /\ state = "ERROR"
  /\ retry_count' = retry_count + 1
  /\ IF GiveUp(retry_count')
     THEN /\ state' = "HALT"
          /\ \/ NoFault /\ update_flag' = NoFile
             \/ Fault /\ UNCHANGED update_flag
          /\ exposed' = (exposed \/ FlagSet)
     ELSE /\ state' = "WAIT_CMD"
          /\ NoFault
          /\ UNCHANGED <<update_flag, exposed>>
  /\ src' = NoFile
  /\ offset' = 0
  /\ UNCHANGED <<firmware, firmware_path, staged, backup, flash, losses,
                 announced, received>>

-----------------------------------------------------------------------------
(***************************************************************************)
(* The application (rotor.c and stator.c) and power.                       *)
(***************************************************************************)
\* The rotor stages a file and names its path in the flag, the stator writes a
\* flag without one; both reset.
AppRequestUpdate(file, fw, path) ==
  /\ state = "APP"
  /\ staged' = (IF path THEN file ELSE staged)
  /\ update_flag' = [firmware |-> fw, path |-> path]
  /\ state' = "OFF"
  /\ UNCHANGED <<ram, backup, flash, bounds, history>>

\* bootloader_write_update_flag fails, or power fails in it, once
\* FA_CREATE_ALWAYS has truncated the file.
AppFlagWriteFails ==
  /\ state = "APP"
  /\ update_flag' = EmptyFile
  /\ \/ Fault /\ UNCHANGED <<state, losses>>
     \/ /\ losses < MaxLosses
        /\ losses' = losses + 1
        /\ state' = "OFF"
        /\ NoFault
  /\ UNCHANGED <<ram, staged, backup, flash, history>>

\* RAM is lost.  An erase is cut short anywhere, a chunk being written is torn.
PowerLoss ==
  /\ state # "OFF"
  /\ losses < MaxLosses
  /\ losses' = losses + 1
  /\ state' = "OFF"
  /\ IF state = "ERASE"
     THEN /\ \E S \in SUBSET (1..Len[src]) : flash' = EraseChunks(flash, S)
          /\ exposed' = (exposed \/ ~FlagSet)
     ELSE /\ \/ UNCHANGED flash
             \/ /\ state = "FLASH"
                /\ offset < Len[src]
                /\ flash' = [flash EXCEPT ![offset + 1] = Garbage]
          /\ UNCHANGED exposed
  /\ ContextLost
  /\ UNCHANGED <<disk, faults>>

\* The steps the bootloader takes by itself.
BootloaderStep ==
  \/ CheckMode
  \/ CheckModeError
  \/ Jump
  \/ ProgramPassOne
  \/ Erase
  \/ WriteChunk
  \/ WriteDone
  \/ VerifyFlash
  \/ Complete
  \/ Error

Next ==
  \/ BootloaderStep
  \/ \E fw \in Announcements : CheckServerCmd(fw)
  \/ \E file \in Images \cup {backup} : ReceiveFirmware(file)
  \/ \E file \in Images, fw \in Announcements, path \in BOOLEAN :
        AppRequestUpdate(file, fw, path)
  \/ AppFlagWriteFails
  \/ PowerLoss

Spec == Init /\ [][Next]_vars

\* While it has power the processor runs the bootloader.
FairSpec == Spec /\ WF_vars(BootloaderStep)

-----------------------------------------------------------------------------
\* The state of the board has the types of struct bootloader_context,
\* struct bootloader_update_flag and the flash region; an update is tried at
\* most three times.
TypeOK ==
  /\ state \in {"OFF", "JUMP_APP", "APP", "WAIT_CMD", "RECEIVE", "PROGRAM",
                "ERASE", "FLASH", "VERIFY", "COMPLETE", "ERROR", "HALT"}
  /\ retry_count \in 0..3
  /\ firmware \in Firmware
  /\ firmware_path \in BOOLEAN
  /\ src \in Images \cup {NoFile}
  /\ offset \in 0..MaxLen
  /\ update_flag \in Flags \cup {NoFile, EmptyFile}
  /\ staged \in Images \cup {NoFile}
  /\ backup \in Images \cup {NoFile}
  /\ flash \in [1..MaxLen -> Chunks]
  /\ faults \in 0..MaxFaults
  /\ losses \in 0..MaxLosses
  /\ announced \in Firmware
  /\ received \in {"none", "bytes", "zero", "error"}
  /\ exposed \in BOOLEAN

\* bootloader_flow reaches COMPLETE only when flash holds, chunk by chunk, the
\* file that pass 1 read, and that file is the one the flag or the server
\* announced, whatever power losses, failed reads and failed writes went before.
CompleteIsExact ==
  state = "COMPLETE" => src \in Images /\ Holds(flash, src) /\ Accepts(announced, src)

\* jump_to_firmware runs only a whole image: a partly erased or written one is
\* never started, unless flash was touched without a flag on disk, the flag was
\* given up after three errors or could not be read, or an empty image was
\* "programmed" over it.
NoPartialRun ==
  state = "APP" => Bootable(flash) \/ exposed

FlagCommit ==
  FlagSet /\ ~FlagSet' => \/ src \in Images /\ Holds(flash, src)
                          \/ retry_count' = 3
                          \/ state = "APP"

\* The update flag disappears only when flash holds the new image, when the
\* third error gives the update up, or when the running application replaces it.
FlagIsCommitPoint == [][FlagCommit]_vars

\* A staged update survives power loss: once faults have ceased, a board that
\* is off with a flag naming a good staged file (complete, and with a vector
\* table is_firmware_valid accepts) runs that image in the end.
StagedUpdateCompletes ==
  \A i \in GoodVector :
    Len[i] > 0 =>
      (/\ state = "OFF"
       /\ faults = MaxFaults
       /\ update_flag = [firmware |-> InfoOf(i), path |-> TRUE]
       /\ staged = i) ~> (state = "APP" /\ Holds(flash, i))

-----------------------------------------------------------------------------
\* The comment in receive_firmware says that lrzsz_rz "Returns number of bytes
\* received, or 0 on error": a transfer that returned 0 is not programmed.
FailedReceiveNotProgrammed ==
  state = "PROGRAM" => received # "zero"

\* The comment in write_firmware_to_chip says the firmware info in the context
\* is "populated by flag file or MAVLink": when the server announced an image
\* and its transfer delivered exactly that image, the image is accepted.
ServerImageAccepted ==
  [][(state = "PROGRAM" /\ received = "bytes"
        /\ backup # NoFile /\ announced = InfoOf(backup)
        /\ faults' = faults /\ losses' = losses)
      => state' # "ERROR"]_vars
=============================================================================
