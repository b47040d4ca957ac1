----------------------------- MODULE Provisioning -----------------------------
(***************************************************************************)
(* How the engine gets the identities it connects with: run_with's calls   *)
(* of load_or_provision_warp and load_or_provision_masque, the fallback    *)
(* through a temporary MASQUE tunnel, and the carried identity.  An        *)
(* identity is a device of the account service with, for MASQUE, a key and *)
(* the time of its certificate.  Requests go over the direct route with    *)
(* retries, then over camouflaged routes; any of them may be lost before   *)
(* or after the service handles it, and the engine may be killed between   *)
(* any two steps.  Only the files survive it.                              *)
(***************************************************************************)
EXTENDS Naturals, Sequences

CONSTANTS
    Devices,        \* bound: devices the service can register
    Keys, NoKey,
    None, Damaged,
    Protocols,      \* the protocols the settings may name at a start
    Attempts,       \* API_ATTEMPTS
    Fronts,         \* exchanges of apifront::fetch: addresses and fingerprints
    Lifetime,       \* MASQUE_CERT_LIFETIME_SECS, in ticks
    RenewBefore,    \* MASQUE_CERT_RENEW_BEFORE_SECS, in ticks
    MaxTime         \* bound on the clock

ASSUME ProvisioningAssumption ==
    /\ NoKey \notin Keys
    /\ Protocols \subseteq {"masque", "wg", "gool", "carried"}
    /\ Attempts \in Nat \ {0} /\ Fronts \in Nat \ {0}
    /\ Lifetime \in Nat /\ RenewBefore \in 1 .. Lifetime - 1
    /\ MaxTime \in Nat \ {0}

Paths == {"shared", "warp", "masque", "secondary", "inner"}
Saved == [dev : Devices, key : Keys \cup {NoKey}, at : 0 .. MaxTime]
Identity == [dev : Devices, key : Keys \cup {NoKey}, at : 0 .. MaxTime, refused : BOOLEAN]
Kinds == {"warp", "warpfb", "masque", "temp", "inner"}
Job == [kind : Kinds, path : Paths]

ASSUME FilesAssumption == None \notin Saved /\ Damaged \notin Saved /\ None # Damaged
                          /\ None \notin Identity

VARIABLES
    team,       \* team_scope: the device belongs to an organisation
    keep,       \* keep_saved_identity: replace a refused identity
    device,     \* the service: device -> free, accepted or refused
    enrolled,   \* the service: device -> MASQUE key
    disk,       \* path -> None, Damaged or a saved identity
    clock,
    pc,
    jobs,       \* identities still to be had, the first one being worked on
    cur,        \* the identity of the first job
    fresh,      \* it was registered by this job
    newkey,     \* the key pair being enrolled
    att, rej,   \* attempts of the current request, rejection remembered by fetch
    out         \* identities handed to the tunnel loops so far, with the job's kind

service == <<device, enrolled>>
request == <<att, rej>>
vars == <<team, keep, service, disk, clock, pc, jobs, cur, fresh, newkey, request, out>>

TypeOK ==
    /\ team \in BOOLEAN /\ keep \in BOOLEAN
    /\ device \in [Devices -> {"free", "accepted", "refused"}]
    /\ enrolled \in [Devices -> Keys \cup {NoKey}]
    /\ disk \in [Paths -> Saved \cup {None, Damaged}]
    /\ clock \in 1 .. MaxTime
    /\ pc \in {"off", "load", "adopt", "enroll", "signin", "register", "refresh", "save", "up"}
    /\ jobs \in Seq(Job) /\ (pc \notin {"off", "up"} => jobs # <<>>)
    /\ cur \in Identity \cup {None}
    /\ (pc \in {"adopt", "enroll", "refresh", "save"} => cur # None)
    /\ fresh \in BOOLEAN
    /\ newkey \in Keys \cup {NoKey} /\ (pc = "enroll" => newkey # NoKey)
    /\ att \in 0 .. Attempts + Fronts - 1 /\ rej \in {"none", "refused", "other"}
    /\ out \in Seq(Identity \X Kinds)

-----------------------------------------------------------------------------

persist(i) == [dev |-> i.dev, key |-> i.key, at |-> i.at]
restore(s) == [dev |-> s.dev, key |-> s.key, at |-> s.at, refused |-> FALSE]

\* An issue time of zero is a file written before the field existed.
masque_cert_expiring(at) ==
    at = 0 \/ clock < at \/ (clock - at) + RenewBefore >= Lifetime

has_masque_credentials(i) == i.key # NoKey /\ ~masque_cert_expiring(i.at)

cert_still_usable(i) ==
    i.key # NoKey /\ i.at # 0 /\ i.at <= clock /\ clock - i.at < Lifetime

\* Mutant: the second hop's file is the first one's.
MutOneFile(role) ==
    IF team /\ role \in {"warp", "masque"} THEN "shared"
    ELSE IF role = "secondary" THEN (IF team THEN "shared" ELSE "warp") ELSE role

\* In an organisation WireGuard and MASQUE share one file.
config_path(role) == IF team /\ role \in {"warp", "masque"} THEN "shared" ELSE role

job(kind, role) == [kind |-> kind, path |-> config_path(role)]

run_with(protocol) ==
    CASE protocol = "masque"  -> <<job("masque", "masque")>>
      [] protocol = "wg"      -> <<job("warp", "warp")>>
      [] protocol = "gool"    -> <<job("warpfb", "warp"), job("warpfb", "secondary")>>
      [] protocol = "carried" -> <<job("masque", "masque"), job("inner", "inner")>>

Kind == Head(jobs).kind
Path == Head(jobs).path

\* A first start, or a file of an earlier version.  Only adopt reads keep, in
\* an organisation.
Init ==
    /\ team \in BOOLEAN /\ keep \in BOOLEAN /\ (team \/ keep)
    /\ clock = 1
    /\ \/ /\ disk = [p \in Paths |-> None]
          /\ device = [d \in Devices |-> "free"]
          /\ enrolled = [d \in Devices |-> NoKey]
       \/ \E d \in Devices, k \in Keys :
          /\ disk = [p \in Paths |-> IF p = config_path("masque")
                                     THEN [dev |-> d, key |-> k, at |-> 0] ELSE None]
          /\ device = [e \in Devices |-> IF e = d THEN "accepted" ELSE "free"]
          /\ enrolled = [e \in Devices |-> IF e = d THEN k ELSE NoKey]
    /\ pc = "off" /\ jobs = <<>> /\ cur = None /\ fresh = FALSE /\ newkey = NoKey
    /\ att = 0 /\ rej = "none" /\ out = <<>>

-----------------------------------------------------------------------------
(* The end of a job.                                                         *)

\* The process ends and its memory with it.
Exit ==
    /\ pc' = "off" /\ jobs' = <<>> /\ out' = <<>>
    /\ cur' = None /\ fresh' = FALSE /\ newkey' = NoKey

\* The job's function returns Ok(i).
Return(i) ==
    /\ out' = Append(out, <<i, Kind>>)
    /\ jobs' = Tail(jobs) /\ pc' = IF Tail(jobs) = <<>> THEN "up" ELSE "load"
    /\ cur' = None /\ fresh' = FALSE /\ newkey' = NoKey

\* The job's function returns Err: classic warp-in-warp turns to a temporary
\* MASQUE tunnel, the carried hop is tried again, and any other error ends
\* the engine.
Fail ==
    IF Kind \in {"warpfb", "inner"}
    THEN /\ jobs' = IF Kind = "inner" THEN jobs
                    ELSE <<job("masque", "masque"), [kind |-> "temp", path |-> Path]>>
                         \o Tail(jobs)
         /\ pc' = "load" /\ cur' = None /\ fresh' = FALSE /\ newkey' = NoKey
         /\ UNCHANGED out
    ELSE Exit

-----------------------------------------------------------------------------
(* Requests.                                                                 *)

\* ok: handled and answered.  lost: handled, the answer lost.  cut: handled,
\* the answer unreadable.  down: never arrived.  busy: 408, 429 or 5xx.
\* denied: another rejection, 403 on the camouflaged routes.
Outcomes == {"ok", "lost", "cut", "down", "busy", "denied"}
Handled == {"ok", "lost", "cut"}

\* What the service says to a request about device d.
Verdict(d) == IF device[d] = "accepted" THEN "ok" ELSE "refused"

\* send_with_retry: a network error or a retryable status uses up an attempt,
\* any other failure turns to the camouflaged routes at once.
Direct(o, verdict) ==
    [res |-> IF o = "ok" /\ verdict = "ok" THEN "ok" ELSE "pending",
     att |-> IF o \in {"lost", "down", "busy"} THEN att + 1 ELSE Attempts,
     rej |-> "none"]

\* fetch: one exchange; the last rejection that is not a 403 is remembered.
Remembered(o, verdict) ==
    CASE o = "ok" -> verdict
      [] o = "busy" -> "other"
      [] o = "denied" -> IF rej = "none" THEN "other" ELSE rej
      [] OTHER -> rej

\* Mutant: any rejection counts as a refusal of the identity.
MutAnyRejection(o, verdict) ==
    LET last == att + 1 = Attempts + Fronts
    IN  [res |-> CASE o = "ok" /\ verdict = "ok" -> "ok"
                   [] o = "cut" -> "error"
                   [] last -> IF Remembered(o, verdict) # "none" THEN "refused" ELSE "error"
                   [] OTHER -> "pending",
         att |-> att + 1,
         rej |-> IF o = "ok" /\ verdict = "ok" THEN rej ELSE Remembered(o, verdict)]

\* Mutant: one exchange too many.
MutOneMore(o, verdict) ==
    LET last == att = Attempts + Fronts
    IN  [res |-> CASE o = "ok" /\ verdict = "ok" -> "ok"
                   [] o = "cut" -> "error"
                   [] last -> IF Remembered(o, verdict) = "refused" THEN "refused" ELSE "error"
                   [] OTHER -> "pending",
         att |-> att + 1,
         rej |-> IF o = "ok" /\ verdict = "ok" THEN rej ELSE Remembered(o, verdict)]

\* fallback_call: the rejection decides once every exchange failed.
Front(o, verdict) ==
    LET last == att + 1 = Attempts + Fronts
    IN  [res |-> CASE o = "ok" /\ verdict = "ok" -> "ok"
                   [] o = "cut" -> "error"
                   [] last -> IF Remembered(o, verdict) = "refused" THEN "refused" ELSE "error"
                   [] OTHER -> "pending",
         att |-> att + 1,
         rej |-> IF o = "ok" /\ verdict = "ok" THEN rej ELSE Remembered(o, verdict)]

Send(o, verdict) == IF att < Attempts THEN Direct(o, verdict) ELSE Front(o, verdict)

\* Another attempt follows, or the request is over.
Account(s) ==
    IF s.res = "pending" THEN att' = s.att /\ rej' = s.rej ELSE att' = 0 /\ rej' = "none"

-----------------------------------------------------------------------------

start(protocol) ==
    /\ pc = "off" /\ pc' = "load" /\ jobs' = run_with(protocol)
    /\ UNCHANGED <<team, keep, service, disk, clock, cur, fresh, newkey, request, out>>

\* provision_account begins: an organisation wants a token first.
Provision == pc' = IF team THEN "signin" ELSE "register"

\* ensure_masque_enrolled begins: a key pair this device never had.
NewKeyPair(i) == newkey' \in Keys \ {i.key, enrolled[i.dev]}

\* config::load, and what the loaded identity needs.  A file that cannot be
\* read is an error; a damaged one is also moved aside, if that succeeds.
load ==
    /\ pc = "load" /\ Kind # "temp"
    /\ \/ /\ disk[Path] # None /\ Fail
          /\ disk' = disk \/ (disk[Path] = Damaged /\ disk' = [disk EXCEPT ![Path] = None])
       \/ /\ disk[Path] = None /\ Provision
          /\ UNCHANGED <<disk, jobs, cur, fresh, newkey, out>>
       \/ /\ disk[Path] \in Saved /\ cur' = restore(disk[Path])
          /\ IF Kind = "masque" /\ ~has_masque_credentials(disk[Path])
             THEN pc' = "enroll" /\ NewKeyPair(disk[Path])
             ELSE pc' = (IF team THEN "adopt" ELSE "save") /\ UNCHANGED newkey
          /\ UNCHANGED <<disk, jobs, fresh, out>>
    /\ UNCHANGED <<team, keep, service, clock, request>>

\* provision_warp_via_temp_masque, once its MASQUE identity is there: the
\* tunnel opens its proxy and the registration goes through it, or not.
temp ==
    /\ pc = "load" /\ Kind = "temp"
    /\ \/ Provision /\ UNCHANGED <<jobs, cur, fresh, newkey, out>>
       \/ Exit
    /\ UNCHANGED <<team, keep, service, disk, clock, request>>

\* adopt_team_profile.  A saved identity that is refused is registered anew,
\* or used as it is; one registered just now is saved all the same.
adopt(o) ==
    /\ pc = "adopt"
    /\ LET s == Send(o, Verdict(cur.dev)) IN
       /\ Account(s)
       /\ CASE s.res = "pending" -> UNCHANGED <<pc, jobs, cur, fresh, newkey, out>>
            [] s.res = "refused" /\ ~fresh /\ keep ->
                  Provision /\ cur' = None /\ UNCHANGED <<jobs, fresh, newkey, out>>
            [] s.res = "refused" /\ ~fresh /\ ~keep ->
                  Return([cur EXCEPT !.refused = TRUE])
            [] OTHER ->
                  /\ cur' = [cur EXCEPT !.refused =
                                CASE s.res = "ok" -> FALSE
                                  [] s.res = "refused" -> TRUE
                                  [] OTHER -> @]
                  /\ pc' = "save" /\ UNCHANGED <<jobs, fresh, newkey, out>>
    /\ UNCHANGED <<team, keep, service, disk, clock>>

\* Mutant: the certificate that is kept gets a new issue time.
MutStampKept(o) ==
    /\ pc = "enroll"
    /\ LET s == Send(o, Verdict(cur.dev)) IN
       /\ Account(s)
       /\ CASE s.res = "pending" -> UNCHANGED <<pc, jobs, cur, fresh, newkey, out>>
            [] s.res = "ok" ->
                  /\ cur' = [cur EXCEPT !.key = newkey, !.at = clock]
                  /\ pc' = IF fresh /\ team THEN "adopt" ELSE "save"
                  /\ newkey' = NoKey /\ UNCHANGED <<jobs, fresh, out>>
            [] s.res \in {"refused", "error"} /\ cert_still_usable(cur) ->
                  /\ pc' = "save" /\ newkey' = NoKey /\ cur' = [cur EXCEPT !.at = clock]
                  /\ UNCHANGED <<jobs, fresh, out>>
            [] s.res \in {"refused", "error"} /\ ~cert_still_usable(cur) -> Fail
    /\ enrolled' = IF o \in Handled /\ Verdict(cur.dev) = "ok"
                   THEN [enrolled EXCEPT ![cur.dev] = newkey] ELSE enrolled
    /\ UNCHANGED <<team, keep, device, disk, clock>>

\* enroll_key reports every failure as an Api error; the certificate on disk
\* is kept while it lives.
enroll(o) ==
    /\ pc = "enroll"
    /\ LET s == Send(o, Verdict(cur.dev)) IN
       /\ Account(s)
       /\ CASE s.res = "pending" -> UNCHANGED <<pc, jobs, cur, fresh, newkey, out>>
            [] s.res = "ok" ->
                  /\ cur' = [cur EXCEPT !.key = newkey, !.at = clock]
                  /\ pc' = IF fresh /\ team THEN "adopt" ELSE "save"
                  /\ newkey' = NoKey /\ UNCHANGED <<jobs, fresh, out>>
            [] s.res \in {"refused", "error"} /\ cert_still_usable(cur) ->
                  pc' = "save" /\ newkey' = NoKey /\ UNCHANGED <<jobs, cur, fresh, out>>
            [] s.res \in {"refused", "error"} /\ ~cert_still_usable(cur) -> Fail
    /\ enrolled' = IF o \in Handled /\ Verdict(cur.dev) = "ok"
                   THEN [enrolled EXCEPT ![cur.dev] = newkey] ELSE enrolled
    /\ UNCHANGED <<team, keep, device, disk, clock>>

\* resolve_token: a token at hand or a sign-in that may fail.
signin ==
    /\ pc = "signin"
    /\ \/ pc' = "register" /\ UNCHANGED <<jobs, cur, fresh, newkey, out>>
       \/ Fail
    /\ UNCHANGED <<team, keep, service, disk, clock, request>>

\* After provision_account: MASQUE enrols a key, an organisation's profile is
\* adopted, a personal identity is saved.
Provisioned(i) ==
    IF Kind = "masque" THEN pc' = "enroll" /\ NewKeyPair(i)
    ELSE pc' = (IF team THEN "adopt" ELSE "save") /\ UNCHANGED newkey

\* The device handed out, or finish_provision's rejection of the answer.
Registered(i) ==
    \/ /\ cur' = i /\ fresh' = TRUE
       /\ IF team THEN pc' = "refresh" /\ UNCHANGED newkey ELSE Provisioned(i)
       /\ UNCHANGED <<jobs, out>>
    \/ Fail

\* Every request the service handles registers another device.
register(o) ==
    /\ pc = "register"
    /\ LET s == Send(o, "ok") IN
       /\ Account(s)
       /\ \/ /\ o \in Handled
             /\ \E d \in Devices :
                   /\ device[d] = "free" /\ device' = [device EXCEPT ![d] = "accepted"]
                   /\ \/ /\ s.res = "ok"
                         /\ Registered([dev |-> d, key |-> NoKey, at |-> 0, refused |-> FALSE])
                      \/ s.res = "pending" /\ UNCHANGED <<pc, jobs, cur, fresh, newkey, out>>
                      \/ s.res = "error" /\ Fail
          \/ /\ o \notin Handled /\ UNCHANGED device
             /\ \/ s.res = "pending" /\ UNCHANGED <<pc, jobs, cur, fresh, newkey, out>>
                \/ s.res \in {"refused", "error"} /\ Fail
    /\ UNCHANGED <<team, keep, enrolled, disk, clock>>

\* refresh_profile at the end of an organisation's registration.
refresh(o) ==
    /\ pc = "refresh"
    /\ LET s == Send(o, Verdict(cur.dev)) IN
       /\ Account(s)
       /\ IF s.res = "pending" THEN UNCHANGED <<pc, cur, newkey>>
          ELSE cur' = [cur EXCEPT !.refused = s.res = "refused"] /\ Provisioned(cur)
    /\ UNCHANGED <<team, keep, service, disk, clock, jobs, fresh, out>>

\* config::save writes a temporary file and renames it: the new identity is
\* there as a whole, or the old one is.
save ==
    /\ pc = "save"
    /\ \/ disk' = [disk EXCEPT ![Path] = persist(cur)] /\ Return(cur)
       \/ UNCHANGED disk /\ Fail
    /\ UNCHANGED <<team, keep, service, clock, request>>

\* run_carried_hop once the hop is up: the endpoint that worked is saved with
\* its identity.
Carries == pc = "up" /\ out[Len(out)][2] = "inner"

remember ==
    /\ Carries /\ disk' = [disk EXCEPT !["inner"] = persist(out[Len(out)][1])]
    /\ UNCHANGED <<team, keep, service, clock, pc, jobs, cur, fresh, newkey, request, out>>

\* The carrying tunnel was replaced: the next one loads the hop's identity anew.
rehop ==
    /\ Carries /\ pc' = "load" /\ jobs' = <<job("inner", "inner")>>
    /\ out' = SubSeq(out, 1, Len(out) - 1)
    /\ UNCHANGED <<team, keep, service, disk, clock, cur, fresh, newkey, request>>

\* The process is killed, or its tunnel loop ends.
kill ==
    /\ pc # "off" /\ Exit /\ att' = 0 /\ rej' = "none"
    /\ UNCHANGED <<team, keep, service, disk, clock>>

-----------------------------------------------------------------------------
(* The environment.                                                          *)

tick ==
    /\ clock < MaxTime /\ clock' = clock + 1
    /\ UNCHANGED <<team, keep, service, disk, pc, jobs, cur, fresh, newkey, request, out>>

refuse(d) ==
    /\ device[d] = "accepted" /\ device' = [device EXCEPT ![d] = "refused"]
    /\ UNCHANGED <<team, keep, enrolled, disk, clock, pc, jobs, cur, fresh, newkey, request, out>>

damage(p) ==
    /\ disk[p] \in Saved /\ disk' = [disk EXCEPT ![p] = Damaged]
    /\ UNCHANGED <<team, keep, service, clock, pc, jobs, cur, fresh, newkey, request, out>>

Undisturbed ==
    \/ \E protocol \in Protocols : start(protocol)
    \/ load \/ temp \/ signin \/ save \/ remember \/ rehop \/ tick
    \/ \E o \in Outcomes : adopt(o) \/ enroll(o) \/ register(o) \/ refresh(o)
    \/ \E d \in Devices : refuse(d)
    \/ \E p \in Paths : damage(p)

Next == Undisturbed \/ kill

Spec == Init /\ [][Next]_vars

\* The engine is not killed and is started again when it ended, each step of
\* it is taken, and a read, a request, a sign-in, a tunnel or a save that is
\* tried again and again succeeds at last.
FairSpec ==
    /\ Init /\ [][Undisturbed]_vars
    /\ WF_vars(\E protocol \in Protocols : start(protocol)) /\ WF_vars(load)
    /\ SF_vars(load /\ pc' \notin {"off", "load"})
    /\ SF_vars(temp /\ pc' # "off") /\ SF_vars(signin /\ pc' = "register")
    /\ SF_vars(save /\ disk' = [disk EXCEPT ![Path] = persist(cur)] /\ pc' # "off")
    /\ SF_vars(adopt("ok")) /\ SF_vars(enroll("ok"))
    /\ SF_vars(register("ok") /\ cur' # None) /\ SF_vars(refresh("ok"))

-----------------------------------------------------------------------------

\* A certificate that the engine would use without enrolling, or that it is
\* using, is for the key the service holds: after a lost answer, a kill
\* between the enrolment and the save, or a certificate kept because the
\* enrolment failed, the certificate at hand is one that masque_cert_expiring
\* sends to enrolment at the next start.
CredentialsCurrent ==
    /\ \A p \in Paths : disk[p] \in Saved /\ has_masque_credentials(disk[p])
                        => enrolled[disk[p].dev] = disk[p].key
    /\ \A n \in DOMAIN out : out[n][2] = "masque" =>
          /\ out[n][1].key # NoKey
          /\ has_masque_credentials(out[n][1]) => enrolled[out[n][1].dev] = out[n][1].key

\* Two files never name the same device, so the hops of warp-in-warp, which
\* load theirs from different files, never share one.
HopsDiffer ==
    /\ \A p, q \in Paths :
          disk[p] \in Saved /\ disk[q] \in Saved /\ disk[p].dev = disk[q].dev => p = q
    /\ \A m, n \in DOMAIN out :
          /\ out[m][1].dev = out[n][1].dev
          /\ out[m][2] # "masque" /\ out[n][2] \in {"warpfb", "temp", "inner"}
          => m = n

Holds(p, d) == disk[p] \in Saved /\ disk[p].dev = d

\* With keep_saved_identity a refused identity of an organisation is replaced,
\* if the engine goes on being started and the service has a device left.
\* enroll_key turns the refusal into an Api error, which
\* load_or_provision_masque returns, so an identity whose certificate is due
\* stays for good and every start ends in the same error.
RefusedReplaced ==
    []<>(pc = "load") =>
        \A p \in Paths, d \in Devices :
            (team /\ keep /\ device[d] = "refused" /\ Holds(p, d))
            ~> (~Holds(p, d) \/ \A e \in Devices : device[e] # "free")

\* The files behave as IdentityFile promises.  The fallback of classic
\* warp-in-warp is the one that may overwrite an accepted identity: it
\* registers a device after any error, a failed save among them, and in an
\* organisation after the MASQUE identity it has just saved to the same file.
Store == INSTANCE IdentityFile WITH
    Times <- 0 .. MaxTime, file <- disk,
    refused <- {d \in Devices : device[d] = "refused"},
    fallback <- jobs # <<>> /\ Kind = "temp"

StoreSpec == Store!Spec

=============================================================================
