---- MODULE AtomicStore ----
(***************************************************************************)
(* What an application wants of the parameter store: a working copy in     *)
(* memory and one durable image that a save replaces all at once.          *)
(*                                                                         *)
(* The promise starts with the first image that got stored (backed): a     *)
(* save that is interrupted on a device with nothing stored may leave      *)
(* anything behind.                                                        *)
(***************************************************************************)
CONSTANTS
    Images,     \* the parameter values a store may hold
    NoImage     \* no working copy: the device is booting

VARIABLES
    disk,       \* the image the next boot loads
    mem,        \* the working copy
    saving,     \* does a save run?
    backed      \* is some image stored completely?

vars == <<disk, mem, saving, backed>>

TypeOK ==
    /\ disk \in Images
    /\ mem \in Images \cup {NoImage}
    /\ saving \in BOOLEAN
    /\ backed \in BOOLEAN

Init ==
    /\ disk \in Images
    /\ mem = NoImage
    /\ saving = FALSE
    /\ backed = FALSE

Load ==
    /\ mem = NoImage
    /\ mem' = disk
    /\ UNCHANGED <<disk, saving, backed>>

Edit ==
    /\ mem # NoImage /\ ~saving
    /\ mem' \in Images
    /\ UNCHANGED <<disk, saving, backed>>

StartSave ==
    /\ mem # NoImage /\ ~saving
    /\ saving' = TRUE
    /\ UNCHANGED <<disk, mem, backed>>

\* The whole image replaces the old one.
Commit ==
    /\ saving
    /\ disk' = mem
    /\ backed' = TRUE
    /\ UNCHANGED <<mem, saving>>

\* Nothing is promised for the first image until it is complete.
Tear ==
    /\ saving /\ ~backed
    /\ disk' \in Images
    /\ UNCHANGED <<mem, saving, backed>>

\* A save that is reported as successful has replaced the image.
Acknowledge ==
    /\ saving /\ disk = mem /\ backed
    /\ saving' = FALSE
    /\ UNCHANGED <<disk, mem, backed>>

\* The device is reset.  A save under way has or has not happened.
Crash ==
    /\ mem' = NoImage
    /\ saving' = FALSE
    /\ \/ UNCHANGED <<disk, backed>>
       \/ saving /\ disk' = mem /\ backed' = TRUE
       \/ saving /\ ~backed /\ disk' \in Images /\ backed' = backed

Next ==
    \/ Load
    \/ Edit
    \/ StartSave
    \/ Commit
    \/ Tear
    \/ Acknowledge
    \/ Crash

Spec == Init /\ [][Next]_vars
====
