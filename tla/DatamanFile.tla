---------------------------- MODULE DatamanFile ----------------------------
(***************************************************************************)
(* The dataman file (src/modules/dataman/dataman.c): one sector per item   *)
(* instance, addressed by (item, index) through a table of key offsets.    *)
(* Each operation of the worker on the file is an operator giving the set  *)
(* of its outcomes <<file afterwards, value for the caller>>: more than    *)
(* one only when the file system may return an error (IoErrors).           *)
(*                                                                         *)
(* A sector is Empty (length byte 0) or holds a value and its persistence  *)
(* byte.  `boot' is a history field: the start of the worker under which   *)
(* the sector was written.  `end' is the file size in sectors and          *)
(* `ragged' tells that the last one is shorter than k_sector_size, which   *)
(* every record of the firmware is (they are all below DM_MAX_DATA_SIZE).  *)
(***************************************************************************)
EXTENDS Integers

CONSTANTS NumKeys,      \* DM_KEY_NUM_KEYS
          MaxIndex,     \* g_per_item_max_index, by key
          Values,       \* records a caller may store (their nonzero byte count stands for them)
          SeekExtends,  \* lseek() past the end grows the file (NuttX FAT: yes, POSIX: no)
          IoErrors      \* lseek/read/write may fail

Keys == 0 .. NumKeys - 1

ASSUME KeysAssumption ==
    /\ NumKeys \in Nat \ {0}
    /\ MaxIndex \in [Keys -> Nat \ {0}]
    /\ Values \subseteq Nat \ {0}
ASSUME PlatformAssumption == SeekExtends \in BOOLEAN /\ IoErrors \in BOOLEAN

POWER_ON == 0       \* DM_INIT_REASON_POWER_ON, DM_PERSIST_POWER_ON_RESET
IN_FLIGHT == 1      \* DM_INIT_REASON_IN_FLIGHT, DM_PERSIST_IN_FLIGHT_RESET
VOLATILE == 2       \* DM_PERSIST_VOLATILE
UNKNOWN == 3        \* SYS_RESTART_TYPE unset or something else
Persistence == {POWER_ON, IN_FLIGHT, VOLATILE}

Err == -1
Torn == -2          \* what a sector holds when its write was cut short
Empty == [len |-> 0, pers |-> POWER_ON, val |-> Torn, boot |-> 0]

\* g_key_offsets, in sectors
KeyOffset[k \in 0 .. NumKeys] ==
    IF k = 0 THEN 0 ELSE KeyOffset[k-1] + MaxIndex[k-1]
NumSectors == KeyOffset[NumKeys]
Sectors == 0 .. NumSectors - 1

\* Mutant of calculate_offset: the index may equal the number of instances
calculate_offset_off_by_one(item, index) ==
    IF item \in Keys /\ index <= MaxIndex[item] THEN KeyOffset[item] + index ELSE Err

\* Err is the -1 of the code: no such item instance
calculate_offset(item, index) ==
    IF item \in Keys /\ index < MaxIndex[item] THEN KeyOffset[item] + index ELSE Err

NewFile == [sec |-> [s \in Sectors |-> Empty], end |-> 0, ragged |-> FALSE]

Entry(v, p, b) == [len |-> 1, pers |-> p, val |-> v, boot |-> b]

\* write() of a whole record at a sector
Put(f, s, e) == [sec    |-> [f.sec EXCEPT ![s] = e],
                 end    |-> IF s >= f.end THEN s + 1 ELSE f.end,
                 ragged |-> f.ragged \/ s >= f.end]

\* The sectors of S get a zero length byte
Blank(f, S) == [f EXCEPT !.sec = [s \in Sectors |-> IF s \in S THEN Empty ELSE f.sec[s]]]

_write(f, item, index, pers, v, boot) ==
    LET s == calculate_offset(item, index)
    IN  IF s = Err THEN {<<f, Err>>}
        ELSE {<<Put(f, s, Entry(v, pers, boot)), v>>}
             \cup (IF IoErrors
                   THEN {<<f, Err>>, <<Put(f, s, Entry(Torn, pers, boot)), Err>>}
                   ELSE {})

\* A sector past the end of the file, or with length 0, reads as nothing (0 bytes)
_read(f, item, index) ==
    LET s == calculate_offset(item, index)
    IN  IF s = Err THEN {<<f, Err>>}
        ELSE {<<f, IF f.sec[s].len = 0 THEN 0 ELSE f.sec[s].val>>}
             \cup (IF IoErrors THEN {<<f, Err>>} ELSE {})

KeySectors(item) == KeyOffset[item] .. KeyOffset[item] + MaxIndex[item] - 1

\* A failed seek or write stops the scan with -1, a failed read() stops it
\* with 0 (it is taken for the end of the file); n sectors were done by then.
_clear(f, item) ==
    IF calculate_offset(item, 0) = Err THEN {<<f, Err>>}
    ELSE {<<Blank(f, KeySectors(item)), 0>>}
         \cup (IF IoErrors
               THEN {<<Blank(f, {s \in KeySectors(item) : s < KeyOffset[item] + n}), r>> :
                        n \in 0 .. MaxIndex[item] - 1, r \in {0, Err}}
               ELSE {})

\* Mutants of clear_entry: >= for >, and a power-on taken for an in-flight reset
clear_entry_too_much(p, reason) ==
    IF reason = POWER_ON THEN p >= POWER_ON ELSE p > IN_FLIGHT
clear_entry_in_flight_only(p, reason) == p > IN_FLIGHT

\* Does data of persistence p go at a restart for this reason?
clear_entry(p, reason) ==
    IF reason = POWER_ON THEN p > POWER_ON ELSE p > IN_FLIGHT

_restart(f, reason) ==
    LET gone == {s \in Sectors : f.sec[s].len > 0 /\ clear_entry(f.sec[s].pers, reason)}
    IN  {<<Blank(f, gone), 0>>}
        \cup (IF IoErrors
              THEN {<<Blank(f, {s \in gone : s < n}), r>> : n \in Sectors, r \in {0, Err}}
              ELSE {})

\* task_main: a file that is not a multiple of the sector size is unlinked;
\* the seek to max_offset then grows the file where lseek() does that.
Opened(f) ==
    LET g == IF f.ragged THEN NewFile ELSE f
    IN  IF SeekExtends THEN [g EXCEPT !.end = NumSectors, !.ragged = FALSE] ELSE g

\* task_main: what the reason of the reset does to the file
BootRestart(f, reason) ==
    IF reason \in {POWER_ON, IN_FLIGHT} THEN {out[1] : out \in _restart(f, reason)} ELSE {f}
=============================================================================
