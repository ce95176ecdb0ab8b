------------------------------ MODULE TeeiBoot ------------------------------
(***************************************************************************)
(* The start of teei_daemon (common/400/teei_daemon/main.c): main collects *)
(* the drivers to load and announces INIT_START, then three threads run:   *)
(* init_soter_fn initialises the TEE and announces INIT_OK, load_tee_fn    *)
(* waits for the data partition and unlocks the keymaster, and the third   *)
(* sets properties (TeeiProperty).  The daemon may die at any time and is  *)
(* started again by init with the same arguments; what it told the driver  *)
(* and the property service remains.                                       *)
(***************************************************************************)
EXTENDS Integers, Sequences, FiniteSets

CONSTANTS
  MaxDrvUuids,  \* MAX_DRV_UUIDS
  Setup         \* builds and argument lists: argv, a sequence over Option;
                \* drivers: MTK_DRM_SUPPORT, MTK_CAM_SUPPORT or MTK_SDSP_SUPPORT;
                \* minmem: MIN_MEM_SUPPORT

Option == {"r", "t", "odd", "h"}  \* odd: a UUID of another length

\* The built-in uuid in the place behind the table: two of its characters fall
\* into the padding, the next eight, "feff" and "ccd8" read as little-endian
\* numbers, on uuid_count and flag, and the others run past init_param.  Of the
\* variables that may lie there only unlock_state is not set up afterwards, and
\* no character of the uuid leaves it 0 or 1.
CountOverwritten  == 1717986662
FlagOverwritten   == {0, 1, 5, 6, 8, 9, 13, 14, 18, 21, 22, 27, 28, 29}
UnlockOverwritten == 2

\* Assumed of the constants: the table is shorter than an overwritten count says.
TeeiBootAssumption ==
  /\ MaxDrvUuids \in 1 .. CountOverwritten
  /\ Setup \subseteq [argv : Seq(Option), drivers : BOOLEAN, minmem : BOOLEAN]

VARIABLES
  setup,                    \* the build and its arguments
  mainPc, optind,           \* main
  uuids, uuid_count, flag,  \* init_param; the bits of flag as a set
  soterPc,                  \* init_soter_fn
  loadPc, value,            \* load_tee_fn, and the property value it read last
  unlock_state,
  \* outside the process
  init,                     \* vendor.soter.teei.init
  soter,                    \* the driver's TEE: whether it runs, with which table and flag
  unlocked,                 \* the driver's boot_decrypt_lock is released
  crypto                    \* ro.crypto.state and type, vold.decrypt, and
                            \* vendor.soter.teei.crypto.state

param    == <<uuids, uuid_count, flag>>
process  == <<mainPc, optind, param, soterPc, loadPc, value, unlock_state>>
outside  == <<init, soter, unlocked, crypto>>
bootVars == <<setup, process, outside>>

Unset == ""   \* the value property_get has for a property that is not set

CryptoInit == [state |-> Unset, type |-> Unset, decrypt |-> Unset, vendor |-> Unset]

BootInit ==
  /\ setup \in Setup
  /\ mainPc = "start" /\ optind = 1
  /\ uuids = <<>> /\ uuid_count = 0 /\ flag = {}
  /\ soterPc = "none" /\ loadPc = "none" /\ value = Unset /\ unlock_state = 0
  /\ init = "none" /\ soter = [on |-> FALSE, table |-> <<>>, flag |-> {}] /\ unlocked = FALSE
  /\ crypto = CryptoInit

-----------------------------------------------------------------------------
(***************************************************************************)
(* main.                                                                   *)
(***************************************************************************)
Start ==
  /\ mainPc = "start" /\ init' = "INIT_START" /\ mainPc' = "options"
  /\ UNCHANGED <<setup, optind, param, soterPc, loadPc, value, unlock_state,
                 soter, unlocked, crypto>>

\* Mutant of ParseOption: the flag is changed also for an option that is dropped.
ParseOption_flag_first ==
  /\ mainPc = "options" /\ optind <= Len(setup.argv)
  /\ optind' = optind + 1
  /\ LET o == setup.argv[optind]
     IN  /\ o \in {"r", "t"} /\ setup.drivers
         /\ flag' = IF o = "t" THEN flag \cup {uuid_count} ELSE flag \ {uuid_count}
         /\ IF uuid_count >= MaxDrvUuids THEN UNCHANGED <<uuids, uuid_count>>
            ELSE uuids' = Append(uuids, o) /\ uuid_count' = uuid_count + 1
  /\ UNCHANGED <<setup, mainPc, soterPc, loadPc, value, unlock_state, outside>>

\* One option: ignored in a build without drivers, a reason to exit, dropped
\* when the table is full, or entered with its bit of the flag.
ParseOption ==
  /\ mainPc = "options" /\ optind <= Len(setup.argv)
  /\ optind' = optind + 1
  /\ LET o == setup.argv[optind]
     IN  \/ o \in {"r", "t", "odd"} /\ ~setup.drivers /\ UNCHANGED <<mainPc, param>>
         \/ /\ o = "h" \/ (o = "odd" /\ setup.drivers)
            /\ mainPc' = "exited" /\ UNCHANGED param
         \/ /\ o \in {"r", "t"} /\ setup.drivers /\ uuid_count >= MaxDrvUuids
            /\ UNCHANGED <<mainPc, param>>
         \/ /\ o \in {"r", "t"} /\ setup.drivers /\ uuid_count < MaxDrvUuids
            /\ uuids' = Append(uuids, o)
            /\ flag' = IF o = "t" THEN flag \cup {uuid_count} ELSE flag \ {uuid_count}
            /\ uuid_count' = uuid_count + 1
            /\ UNCHANGED mainPc
  /\ UNCHANGED <<setup, soterPc, loadPc, value, unlock_state, outside>>

\* The driver that is built in, unless memory is short.  Its place in the table
\* is not checked.
AddBuiltIn ==
  /\ mainPc = "options" /\ optind > Len(setup.argv)
  /\ \/ setup.minmem /\ UNCHANGED <<param, unlock_state>>
     \/ /\ ~setup.minmem /\ uuid_count < MaxDrvUuids
        /\ uuids' = Append(uuids, "built_in") /\ uuid_count' = uuid_count + 1
        /\ UNCHANGED <<flag, unlock_state>>
     \/ /\ ~setup.minmem /\ uuid_count >= MaxDrvUuids
        /\ uuid_count' = CountOverwritten + 1 /\ flag' = FlagOverwritten
        /\ unlock_state' \in {unlock_state, UnlockOverwritten}
        /\ UNCHANGED uuids
  /\ mainPc' = "vfs"
  /\ UNCHANGED <<setup, optind, soterPc, loadPc, value, outside>>

\* open of the vfs node, tried until it succeeds; then the threads start.
OpenVfs ==
  /\ mainPc = "vfs" /\ mainPc' = "serving"
  /\ soterPc' = "open" /\ loadPc' = "state"
  /\ UNCHANGED <<setup, optind, param, value, unlock_state, outside>>

\* The process ends, or is killed, and init starts it again.
BootRestart ==
  /\ mainPc # "start"
  /\ mainPc' = "start" /\ optind' = 1
  /\ uuids' = <<>> /\ uuid_count' = 0 /\ flag' = {}
  /\ soterPc' = "none" /\ loadPc' = "none" /\ value' = Unset /\ unlock_state' = 0
  /\ UNCHANGED <<setup, outside>>

-----------------------------------------------------------------------------
(***************************************************************************)
(* init_soter_fn.                                                          *)
(***************************************************************************)
\* The device cannot be opened; or the uuids are logged, up to uuid_count, and
\* the process dies of it where that is far beyond the table; or the ioctl
\* fails; or the TEE takes the table, unless it has one already.
InitTeei ==
  /\ soterPc = "open"
  /\ \/ soterPc' = "done" /\ UNCHANGED <<mainPc, loadPc, soter>>
     \/ /\ uuid_count > MaxDrvUuids
        /\ mainPc' = "exited" /\ soterPc' = "none" /\ loadPc' = "none" /\ UNCHANGED soter
     \/ /\ uuid_count <= MaxDrvUuids /\ soterPc' = "announce"
        /\ soter' = IF soter.on THEN soter ELSE [on |-> TRUE, table |-> uuids, flag |-> flag]
        /\ UNCHANGED <<mainPc, loadPc>>
  /\ UNCHANGED <<setup, optind, param, value, unlock_state, init, unlocked, crypto>>

AnnounceInit ==
  /\ soterPc = "announce" /\ soterPc' = "done" /\ init' = "INIT_OK"
  /\ UNCHANGED <<setup, mainPc, optind, param, loadPc, value, unlock_state,
                 soter, unlocked, crypto>>

init_soter_fn == InitTeei \/ AnnounceInit

-----------------------------------------------------------------------------
(***************************************************************************)
(* load_tee_fn: one step per property it reads.                            *)
(***************************************************************************)
\* Mutant of Plain: a state that is not known yet counts as unencrypted.
Plain_if_unknown(s) == s # "encrypted"

Plain(s) == s \in {"unencrypted", "unsupported"}

\* Mutant of Poll: a late file based encryption is not looked for.
Poll_no_fbe ==
  \/ /\ loadPc = "state"   /\ value' = crypto.state
     /\ loadPc' = IF Plain(crypto.state) THEN "unlock" ELSE "type"
  \/ /\ loadPc = "type"    /\ value' = crypto.type
     /\ loadPc' = IF crypto.type = "file" THEN "unlock" ELSE "decrypt"
  \/ /\ loadPc = "decrypt" /\ value' = crypto.decrypt
     /\ loadPc' = IF crypto.decrypt = "trigger_restart_framework" THEN "unlock" ELSE "vendor"
  \/ /\ loadPc = "vendor"  /\ value' = crypto.vendor
     /\ loadPc' = IF crypto.vendor = "unencrypted" THEN "unlock" ELSE "late_state"
  \/ /\ loadPc = "late_state" /\ value' = crypto.state
     /\ loadPc' = IF Plain(crypto.state) THEN "unlock" ELSE "decrypt"

Poll ==
  \/ /\ loadPc = "state"   /\ value' = crypto.state
     /\ loadPc' = IF Plain(crypto.state) THEN "unlock" ELSE "type"
  \/ /\ loadPc = "type"    /\ value' = crypto.type
     /\ loadPc' = IF crypto.type = "file" THEN "unlock" ELSE "decrypt"
  \/ /\ loadPc = "decrypt" /\ value' = crypto.decrypt
     /\ loadPc' = IF crypto.decrypt = "trigger_restart_framework" THEN "unlock" ELSE "vendor"
  \/ /\ loadPc = "vendor"  /\ value' = crypto.vendor
     /\ loadPc' = IF crypto.vendor = "unencrypted" THEN "unlock" ELSE "late_state"
  \/ /\ loadPc = "late_state" /\ value' = crypto.state
     /\ loadPc' = IF Plain(crypto.state) THEN "unlock" ELSE "late_type"
  \/ /\ loadPc = "late_type"  /\ value' = crypto.type
     /\ loadPc' = IF crypto.type = "file" THEN "unlock" ELSE "decrypt"

\* keymaster_unlock, whose failure is only logged, and the end of the thread.
keymaster_unlock(ok) ==
  /\ loadPc = "unlock" /\ loadPc' = "done"
  /\ unlocked' = (ok \/ unlocked)
  /\ unlock_state' = 1
  /\ UNCHANGED value

load_tee_fn ==
  \/ /\ Poll
     /\ UNCHANGED <<setup, mainPc, optind, param, soterPc, unlock_state, outside>>
  \/ /\ \E ok \in BOOLEAN : keymaster_unlock(ok)
     /\ UNCHANGED <<setup, mainPc, optind, param, soterPc, init, soter, crypto>>

-----------------------------------------------------------------------------
\* The data can be read, as far as the properties tell.
Ready(c) == \/ c.state \in {"unencrypted", "unsupported"} \/ c.type = "file"
            \/ c.decrypt = "trigger_restart_framework" \/ c.vendor = "unencrypted"

\* vold and init set their properties, the read-only ones once.
Vold ==
  /\ crypto' \in
       {[crypto EXCEPT !.state = s] :
          s \in IF crypto.state = Unset THEN {"encrypted", "unencrypted", "unsupported"} ELSE {}}
       \cup {[crypto EXCEPT !.type = t] : t \in IF crypto.type = Unset THEN {"file", "block"} ELSE {}}
       \cup {[crypto EXCEPT !.decrypt = d] :
               d \in IF crypto.decrypt = Unset THEN {"trigger_reset_main"}
                     ELSE {"trigger_restart_framework"} \ {crypto.decrypt}}
       \cup {[crypto EXCEPT !.vendor = v] : v \in {"unencrypted"} \ {crypto.vendor}}
  /\ UNCHANGED <<setup, process, init, soter, unlocked>>

main == Start \/ ParseOption \/ AddBuiltIn \/ OpenVfs

BootNext == main \/ init_soter_fn \/ load_tee_fn \/ Vold \/ BootRestart

\* The threads run, and a process that ended is started again; nothing else
\* is owed, neither the death of a running one nor an answer of vold.
BootSpec == /\ BootInit /\ [][BootNext]_bootVars
            /\ WF_bootVars(main) /\ WF_bootVars(init_soter_fn) /\ WF_bootVars(load_tee_fn)

-----------------------------------------------------------------------------
\* Once the data can be read, the thread that waits for it does not miss it,
\* whichever property says so and in whatever order they are set.
ReadyIsSeen == (loadPc \notin {"none", "done"} /\ Ready(crypto)) ~> (loadPc \in {"none", "done"})

\* The options that name a driver to load, and the place of the k-th option
\* among them.
Wanted   == {k \in 1 .. Len(setup.argv) : setup.drivers /\ setup.argv[k] \in {"r", "t"}}
Place(k) == Cardinality({j \in Wanted : j <= k})

\* What the TEE is given is what was asked for: the drivers of the command line
\* in their order, as far as the table reaches, then the built-in one, and a
\* flag that names exactly the TAs among them.  A table that the built-in driver
\* ran over is never given to it: the daemon does not live to do so.
TableIsExact ==
  soter.on =>
    LET n    == Len(soter.table)
        last == IF setup.minmem THEN n ELSE n - 1   \* of the command line's
    IN  /\ n <= MaxDrvUuids /\ last <= Cardinality(Wanted)
        /\ \A k \in Wanted : Place(k) <= MaxDrvUuids =>
             Place(k) <= last /\ soter.table[Place(k)] = setup.argv[k]
        /\ ~setup.minmem => n > 0 /\ soter.table[n] = "built_in"
        /\ soter.flag = {i - 1 : i \in {j \in 1 .. n : soter.table[j] = "t"}}

\* "Too Much TA Boot -- MAX_DRV_UUIDS[%d]" (main): a driver for which the table
\* has no room is dropped.
TableFits == uuid_count <= MaxDrvUuids

\* What the daemon announces is so, also after it was started again: INIT_OK
\* stands only for a TEE that the driver has initialised, and the keymaster is
\* unlocked only after some property has said that the data can be read.
AnnouncedIsSo ==
  /\ init = "INIT_OK" => soter.on
  /\ unlocked \/ unlock_state = 1 => Ready(crypto)

=============================================================================
