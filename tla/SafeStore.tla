----------------------------- MODULE SafeStore -----------------------------
(***************************************************************************)
(* What db.sh promises about the database: its content changes when the    *)
(* server commits to it, and when a restore replaces it, in one step, by   *)
(* the backup asked for, and then only if what it replaces is in a backup  *)
(* too. Backups are never lost. So every commit is in the database or in a *)
(* backup made after it. All this until a server runs during a restore,    *)
(* from when on nothing is promised.                                       *)
(*                                                                         *)
(* Restore, file by file, implements it.                                   *)
(***************************************************************************)
EXTENDS Naturals

CONSTANT None

VARIABLES
    value,   \* the last commit in the database, None without one
    kept,    \* the same of every backup
    wanted,  \* the backup last asked for, None before
    latest,  \* commits so far
    sound    \* the promise stands

svars == <<value, kept, wanted, latest, sound>>

SInit ==
    /\ value \in {None, 0}
    /\ kept \subseteq {0}
    /\ wanted = None
    /\ latest = 0
    /\ sound = TRUE

\* The first start.
Create == value = None /\ value' = latest /\ UNCHANGED <<kept, wanted, latest>>

Write ==
    /\ value # None
    /\ latest' = latest + 1
    /\ value' = latest'
    /\ UNCHANGED <<kept, wanted>>

Keep ==
    /\ value # None
    /\ kept' = kept \cup {value}
    /\ UNCHANGED <<value, wanted, latest>>

Ask == wanted' \in kept /\ UNCHANGED <<value, kept, latest>>

Replace ==
    /\ value \in kept \cup {None}
    /\ wanted \in kept
    /\ value' = wanted
    /\ UNCHANGED <<kept, wanted, latest>>

Promised == Create \/ Write \/ Keep \/ Ask \/ Replace

SNext == (sound /\ sound' /\ Promised) \/ ~ sound'

SSpec == SInit /\ [][SNext]_svars
=============================================================================
