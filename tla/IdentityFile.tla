----------------------------- MODULE IdentityFile -----------------------------
(***************************************************************************)
(* What the identity files promise, whatever the network and the process   *)
(* do: a file goes from one complete identity to another; an identity that *)
(* is still accepted gives way only to itself with another certificate; a  *)
(* device is named by one file at most.  Only the fallback through a       *)
(* temporary tunnel may overwrite an identity that is still accepted.      *)
(***************************************************************************)


CONSTANTS Paths, Devices, Keys, NoKey, Times, None, Damaged

VARIABLES
    file,       \* path -> None, Damaged or a saved identity
    refused,    \* devices the service no longer accepts
    fallback    \* the fallback through a temporary tunnel is registering

Saved == [dev : Devices, key : Keys \cup {NoKey}, at : Times]

Named == {d \in Devices : \E p \in Paths : file[p] \in Saved /\ file[p].dev = d}

Init ==
    /\ refused = {} /\ fallback = FALSE
    /\ file \in [Paths -> Saved \cup {None}]
    /\ \A p, q \in Paths :
          file[p] \in Saved /\ file[q] \in Saved /\ file[p].dev = file[q].dev => p = q

\* Only the file at p changes, to v.
Put(p, v) == file' = [file EXCEPT ![p] = v] /\ UNCHANGED refused

\* A complete identity is written to the file at p, known to be of a device
\* that no file names.
Save(p) == file'[p] \in Saved /\ Put(p, file'[p])
SaveOther(p) == Save(p) /\ file'[p].dev \notin Named

\* An absent or damaged file gets an identity.
Create(p) == file[p] \in {None, Damaged} /\ SaveOther(p)

\* The same device, with another certificate.
Renew(p) == file[p] \in Saved /\ Save(p) /\ file'[p].dev = file[p].dev

\* A refused device gives way to a new one.
Replace(p) == file[p] \in Saved /\ file[p].dev \in refused /\ SaveOther(p)

Overwrite(p) == fallback /\ file[p] \in Saved /\ SaveOther(p)

Damage(p) == file[p] \in Saved /\ Put(p, Damaged)
Quarantine(p) == file[p] = Damaged /\ Put(p, None)

Refuse(d) == refused' = refused \cup {d} /\ UNCHANGED file

\* The fallback begins or ends, with a save or without one.
Turn == fallback' \in BOOLEAN /\ UNCHANGED <<file, refused>>

Next ==
    \/ Turn
    \/ /\ \E p \in Paths :
             \/ Create(p) \/ Renew(p) \/ Replace(p) \/ Overwrite(p)
             \/ Damage(p) \/ Quarantine(p)
       /\ fallback' \in BOOLEAN
    \/ \E d \in Devices : Refuse(d) /\ UNCHANGED fallback

Spec == Init /\ [][Next]_<<file, refused, fallback>>

=============================================================================
