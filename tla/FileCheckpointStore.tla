------------------------- MODULE FileCheckpointStore -------------------------
(***************************************************************************)
(* FileCheckpointStore of connectforge-infra (checkpoint.rs): the file of  *)
(* one (connector, topic, partition) key and its temporary file.           *)
(*                                                                         *)
(* A save is three file operations: open with truncation, write, rename.   *)
(* All savers of a key share one temporary file name.  A saver keeps the   *)
(* file it opened even when another saver renames it: `at` tells which     *)
(* name that file has now.  A file holds the digits of a number.           *)
(***************************************************************************)
EXTENDS Integers, Sequences

CONSTANTS
    Savers,   \* tasks that may save this key
    Radix     \* base of the digits in the file: 10 in the code, bound Radix^2 offsets

ASSUME RadixAssumption == Radix \in Nat \ {0, 1}

VARIABLES
    file,     \* <key>.json
    tmp,      \* <key>.json.tmp
    saver     \* the save each task is in

fvars == <<file, tmp, saver>>

NoFile == [exists |-> FALSE, digits |-> <<>>]
NotSaving == [pc |-> "idle", value |-> 0, at |-> "gone"]

InitFiles ==
    /\ file = NoFile
    /\ tmp = NoFile
    /\ saver = [s \in Savers |-> NotSaving]

-----------------------------------------------------------------------------
(* serde_json of a u64                                                     *)

Encode(n) == IF n < Radix THEN <<n>> ELSE <<n \div Radix, n % Radix>>

\* Empty input and a leading zero are not JSON numbers.
Decodes(digits) == digits # <<>> /\ (Len(digits) > 1 => digits[1] # 0)

Decode(digits) == IF Len(digits) = 1 THEN digits[1] ELSE digits[1] * Radix + digits[2]

\* A write at the start of a file that already holds `old`.
Overwrite(old, new) ==
    [i \in 1 .. (IF Len(old) > Len(new) THEN Len(old) ELSE Len(new)) |->
        IF i <= Len(new) THEN new[i] ELSE old[i]]

\* load: no file means no checkpoint; a file that does not decode is an error.
Readable == file.exists => Decodes(file.digits)
Loaded == IF file.exists /\ Readable THEN Decode(file.digits) ELSE 0

-----------------------------------------------------------------------------
(* save                                                                    *)

\* Deviation: the checkpoint file itself is opened for writing.
OpenTmp_InPlace(s, value) ==
    /\ saver[s].pc = "idle"
    /\ file' = [exists |-> TRUE, digits |-> <<>>]
    /\ tmp' = [exists |-> TRUE, digits |-> <<>>]
    /\ saver' = [saver EXCEPT ![s] = [pc |-> "write", value |-> value, at |-> "tmp"]]

OpenTmp(s, value) ==
    /\ saver[s].pc = "idle"
    /\ tmp' = [exists |-> TRUE, digits |-> <<>>]
    /\ saver' = [saver EXCEPT ![s] = [pc |-> "write", value |-> value, at |-> "tmp"]]
    /\ UNCHANGED file

WriteTmp(s) ==
    LET bytes == Encode(saver[s].value)
    IN
    /\ saver[s].pc = "write"
    /\ tmp' = IF saver[s].at = "tmp" THEN [tmp EXCEPT !.digits = Overwrite(@, bytes)] ELSE tmp
    /\ file' = IF saver[s].at = "file" THEN [file EXCEPT !.digits = Overwrite(@, bytes)] ELSE file
    /\ saver' = [saver EXCEPT ![s].pc = "rename"]

\* Where an open file is once the temporary file has been renamed.
AfterRename(at) == IF at = "tmp" THEN "file" ELSE "gone"

Rename(s) ==
    /\ file' = tmp
    /\ tmp' = NoFile
    /\ saver' = [r \in Savers |-> IF r = s THEN NotSaving
                                           ELSE [saver[r] EXCEPT !.at = AfterRename(@)]]

\* Deviation: a failed save deletes the checkpoint along with the temporary file.
SaveError_Cleanup(s) ==
    /\ saver' = [saver EXCEPT ![s] = NotSaving]
    /\ tmp' = NoFile
    /\ file' = IF saver[s].pc = "rename" THEN NoFile ELSE file

\* A file operation fails: what was done stays on disk.
SaveError(s) ==
    /\ saver' = [saver EXCEPT ![s] = NotSaving]
    /\ UNCHANGED <<file, tmp>>

\* The process ends; the files stay.
LoseSavers ==
    /\ saver' = [s \in Savers |-> NotSaving]
    /\ UNCHANGED <<file, tmp>>

=============================================================================
