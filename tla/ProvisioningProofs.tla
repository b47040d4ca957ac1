-------------------------- MODULE ProvisioningProofs --------------------------
(***************************************************************************)
(* For any devices, keys, retry limits, certificate lifetimes and kills:   *)
(* the types, that the certificates at hand are current, that the hops     *)
(* differ, and that the files implement IdentityFile.                      *)
(***************************************************************************)
EXTENDS Provisioning, SequenceTheorems, TLAPS

W == config_path("warp")
M == config_path("masque")

\* Where the engine holds an identity in memory, and where it sends requests.
Working == {"adopt", "enroll", "refresh", "save"}
Requesting == {"adopt", "enroll", "register", "refresh"}

\* Memory and program counter.  A refusal is remembered only of the device in
\* hand.
ControlOK ==
    /\ cur # None <=> pc \in Working
    /\ pc \in {"off", "up"} <=> jobs = <<>>
    /\ (pc = "off" => out = <<>>) /\ (pc = "up" => out # <<>>)
    /\ rej # "none" => pc \in Requesting
    /\ rej = "refused" => cur # None /\ device[cur.dev] = "refused"
    /\ pc = "refresh" => fresh /\ cur.key = NoKey
    /\ pc = "enroll" => Kind = "masque" /\ ~has_masque_credentials(cur)
    /\ pc \in {"adopt", "save"} /\ Kind = "masque" => cur.key # NoKey

\* The lists of jobs that run_with and the fallback lead to.
Carried == {<<job("masque", "masque"), job("inner", "inner")>>, <<job("inner", "inner")>>}
First == {<<job("masque", "masque")>>, <<job("warp", "warp")>>,
          <<job("warpfb", "warp"), job("warpfb", "secondary")>>,
          <<job("masque", "masque"), job("temp", "warp"), job("warpfb", "secondary")>>,
          <<job("temp", "warp"), job("warpfb", "secondary")>>}
Second == {<<job("warpfb", "secondary")>>, <<job("temp", "secondary")>>,
           <<job("masque", "masque"), job("temp", "secondary")>>}

OnlyMasque == \A n \in DOMAIN out : out[n][2] = "masque"

\* Nothing but MASQUE identities is handed out before the first other job ends;
\* the carried hop's comes last.
ShapeOK ==
    /\ jobs \in {<<>>} \cup Carried \cup First \cup Second
    /\ jobs \in Carried \cup First => OnlyMasque
    /\ jobs # <<>> => \A n \in DOMAIN out : out[n][2] # "inner"
    /\ \A n \in DOMAIN out : out[n][2] = "inner" =>
          n = Len(out) /\ \A m \in DOMAIN out : m # n => out[m][2] = "masque"

\* A copy of an identity: its device is registered, its certificate is not from
\* the future, and if it looks usable it is the one the service holds.
CopyOK(i) ==
    /\ device[i.dev] # "free" /\ i.at <= clock
    /\ has_masque_credentials(i) => enrolled[i.dev] = i.key

CopiesOK ==
    /\ \A p \in Paths : disk[p] \in Saved => CopyOK(disk[p])
    /\ cur # None => CopyOK(cur)
    /\ \A n \in DOMAIN out : CopyOK(out[n][1])

\* Of two copies of a device, i has the later certificate.
Newer(i, o) == i.dev = o.dev /\ o.key # NoKey => i.key # NoKey /\ o.at <= i.at

\* The copy in hand is the newest, then the file's; a loaded one that needs no
\* enrolment is the file's.
OrderOK ==
    /\ cur # None =>
          /\ \A p \in Paths : disk[p] \in Saved => Newer(cur, disk[p])
          /\ \A n \in DOMAIN out : Newer(cur, out[n][1])
    /\ \A p \in Paths, n \in DOMAIN out : disk[p] \in Saved => Newer(disk[p], out[n][1])
    /\ pc = "adopt" /\ ~fresh => \A p \in Paths : disk[p] \in Saved => Newer(disk[p], cur)

\* A device belongs to one file, the one of the job that has it in hand.
OwnersOK ==
    /\ \A p, q \in Paths :
          disk[p] \in Saved /\ disk[q] \in Saved /\ disk[p].dev = disk[q].dev => p = q
    /\ cur # None => \A p \in Paths : Holds(p, cur.dev) => p = Path

\* What the job's file names otherwise may be replaced.
TargetOK ==
    (pc \in Working \cup {"signin", "register"}) /\ disk[Path] \in Saved =>
        \/ cur # None /\ disk[Path].dev = cur.dev
        \/ device[disk[Path].dev] = "refused"
        \/ Kind = "temp"

\* The files of jobs still to come, MASQUE aside.
Pending == {jobs[k].path : k \in {l \in DOMAIN jobs : jobs[l].kind # "masque"}}

\* Devices handed out stay in the files of the jobs that are over.
HandedOK ==
    /\ \A n \in DOMAIN out : out[n][2] # "masque" =>
          /\ \A p \in Paths : Holds(p, out[n][1].dev) => p \notin Pending
          /\ cur # None /\ Kind # "masque" => cur.dev # out[n][1].dev
          /\ \A m \in DOMAIN out :
                out[m][2] # "masque" /\ out[m][1].dev = out[n][1].dev => m = n
    /\ \A n \in DOMAIN out : out[n][2] = "masque" =>
          /\ out[n][1].key # NoKey
          /\ \A p \in Paths : Holds(p, out[n][1].dev) => p = M
          /\ cur # None /\ cur.dev = out[n][1].dev => Path = M
    /\ \A n \in DOMAIN out : out[n][2] = "inner" =>
          /\ \A p \in Paths : Holds(p, out[n][1].dev) => p = "inner"
          /\ disk["inner"] \in Saved =>
                disk["inner"].dev = out[n][1].dev \/ device[disk["inner"].dev] = "refused"
          /\ \A m \in DOMAIN out : out[m][1].dev = out[n][1].dev => m = n

IndInv ==
    /\ TypeOK /\ ControlOK /\ ShapeOK /\ CopiesOK /\ OrderOK
    /\ OwnersOK /\ TargetOK /\ HandedOK

-----------------------------------------------------------------------------
(* Requests and jobs.                                                        *)

\* What an attempt leads to: only a refusal of the device counts as one, and a
\* request that is over is forgotten.
LEMMA SendFacts ==
    ASSUME TypeOK, NEW o \in Outcomes, NEW v \in {"ok", "refused"}, Account(Send(o, v))
    PROVE  /\ att' \in 0 .. Attempts + Fronts - 1 /\ rej' \in {"none", "refused", "other"}
           /\ Send(o, v).res \in {"ok", "pending", "refused", "error"}
           /\ Send(o, v).res = "ok" => o = "ok" /\ v = "ok"
           /\ Send(o, v).res = "refused" \/ rej' = "refused" => rej = "refused" \/ v = "refused"
           /\ Send(o, v).res # "pending" => rej' = "none"
<1>1. Attempts \in Nat \ {0} /\ Fronts \in Nat \ {0} /\ att \in 0 .. Attempts + Fronts - 1
      /\ rej \in {"none", "refused", "other"}
    BY ProvisioningAssumption DEF TypeOK
<1>2. Remembered(o, v) \in {v, "other", rej} /\ (o # "ok" => Remembered(o, v) \in {"other", rej})
    BY DEF Outcomes, Remembered
<1>3. CASE att < Attempts
    <2>1. Send(o, v) = Direct(o, v)
        BY <1>3 DEF Send
    <2> QED
        BY <1>1, <1>3, <2>1 DEF Direct, Account
<1>4. CASE ~(att < Attempts)
    <2>1. Send(o, v) = Front(o, v)
        BY <1>4 DEF Send
    <2>2. Send(o, v).att = att + 1
        BY <2>1 DEF Front
    <2>3. Send(o, v).rej = IF o = "ok" /\ v = "ok" THEN rej ELSE Remembered(o, v)
        BY <2>1 DEF Front
    <2>4. Send(o, v).res = CASE o = "ok" /\ v = "ok" -> "ok"
                             [] o = "cut" -> "error"
                             [] att + 1 = Attempts + Fronts ->
                                IF Remembered(o, v) = "refused" THEN "refused" ELSE "error"
                             [] OTHER -> "pending"
        BY <2>1 DEF Front
    <2> QED
        BY <1>1, <1>2, <1>4, <2>2, <2>3, <2>4 DEF Account
<1> QED
    BY <1>3, <1>4

\* The jobs there are.
LEMMA JobForms ==
    ASSUME NEW kind \in Kinds, NEW role \in Paths
    PROVE  job(kind, role) \in Job /\ job(kind, role).kind = kind
           /\ job(kind, role).path = config_path(role)
BY DEF job, Job, config_path, Paths

LEMMA Roles ==
    /\ W \in {"shared", "warp"} /\ M \in {"shared", "masque"}
    /\ config_path("secondary") = "secondary" /\ config_path("inner") = "inner"
BY DEF W, M, config_path

\* The first job of a list, and the files that are still to be worked on.
LEMMA OneJob ==
    ASSUME NEW a, jobs = <<a>>
    PROVE  Kind = a.kind /\ Path = a.path /\ Tail(jobs) = <<>>
           /\ Pending = IF a.kind # "masque" THEN {a.path} ELSE {}
BY DEF Kind, Path, Pending

LEMMA TwoJobs ==
    ASSUME NEW a, NEW b, jobs = <<a, b>>
    PROVE  Kind = a.kind /\ Path = a.path /\ Tail(jobs) = <<b>>
           /\ Pending = (IF a.kind # "masque" THEN {a.path} ELSE {})
                        \cup (IF b.kind # "masque" THEN {b.path} ELSE {})
BY DEF Kind, Path, Pending

LEMMA ThreeJobs ==
    ASSUME NEW a, NEW b, NEW c, jobs = <<a, b, c>>
    PROVE  Kind = a.kind /\ Path = a.path /\ Tail(jobs) = <<b, c>>
           /\ Pending = (IF a.kind # "masque" THEN {a.path} ELSE {})
                        \cup (IF b.kind # "masque" THEN {b.path} ELSE {})
                        \cup (IF c.kind # "masque" THEN {c.path} ELSE {})
BY DEF Kind, Path, Pending

\* What the first job of each list is, and what follows it.
HeadsOK ==
    /\ jobs \in Carried =>
          /\ Pending = {"inner"}
          /\ \/ Kind = "masque" /\ Path = M /\ Tail(jobs) = <<job("inner", "inner")>>
             \/ Kind = "inner" /\ Path = "inner" /\ Tail(jobs) = <<>>
    /\ jobs \in First =>
          \/ Kind = "masque" /\ Path = M /\ Tail(jobs) = <<>> /\ Pending = {}
          \/ Kind = "warp" /\ Path = W /\ Tail(jobs) = <<>> /\ Pending = {W}
          \/ Kind = "masque" /\ Path = M /\ Pending = {W, "secondary"}
             /\ Tail(jobs) = <<job("temp", "warp"), job("warpfb", "secondary")>>
          \/ Kind \in {"warpfb", "temp"} /\ Path = W /\ Pending = {W, "secondary"}
             /\ Tail(jobs) = <<job("warpfb", "secondary")>>
    /\ jobs \in Second =>
          /\ Pending = {"secondary"}
          /\ \/ Kind \in {"warpfb", "temp"} /\ Path = "secondary" /\ Tail(jobs) = <<>>
             \/ Kind = "masque" /\ Path = M /\ Tail(jobs) = <<job("temp", "secondary")>>

LEMMA Heads == HeadsOK
<1> USE DEF HeadsOK
<1>1. CASE jobs = <<job("masque", "masque"), job("inner", "inner")>>
    BY <1>1, TwoJobs, Roles DEF job, M, First, Second
<1>2. CASE jobs = <<job("inner", "inner")>>
    BY <1>2, OneJob, Roles DEF job, First, Second
<1>3. CASE jobs = <<job("masque", "masque")>>
    BY <1>3, OneJob DEF job, M, Carried, Second
<1>4. CASE jobs = <<job("warp", "warp")>>
    BY <1>4, OneJob DEF job, W, Carried, Second
<1>5. CASE jobs = <<job("warpfb", "warp"), job("warpfb", "secondary")>>
    BY <1>5, TwoJobs, Roles DEF job, W, Carried, Second
<1>6. CASE jobs = <<job("masque", "masque"), job("temp", "warp"), job("warpfb", "secondary")>>
    BY <1>6, ThreeJobs, Roles DEF job, W, M, Carried, Second
<1>7. CASE jobs = <<job("temp", "warp"), job("warpfb", "secondary")>>
    BY <1>7, TwoJobs, Roles DEF job, W, Carried, Second
<1>8. CASE jobs = <<job("warpfb", "secondary")>>
    BY <1>8, OneJob, Roles DEF job, Carried, First
<1>9. CASE jobs = <<job("temp", "secondary")>>
    BY <1>9, OneJob, Roles DEF job, Carried, First
<1>10. CASE jobs = <<job("masque", "masque"), job("temp", "secondary")>>
    BY <1>10, TwoJobs, Roles DEF job, M, Carried, First
<1> QED
    BY <1>1, <1>2, <1>3, <1>4, <1>5, <1>6, <1>7, <1>8, <1>9, <1>10 DEF Carried, First, Second

LEMMA HeadsNext == HeadsOK'
BY Heads, PTL

LEMMA Concat ==
    ASSUME NEW a, NEW b, NEW c
    PROVE  <<a, b>> \o <<>> = <<a, b>> /\ <<a, b>> \o <<c>> = <<a, b, c>>
<1>1. <<a, b>> \in Seq({a, b, c}) /\ c \in {a, b, c}
    OBVIOUS
<1>2. <<a, b>> \o <<c>> = Append(<<a, b>>, c)
    BY <1>1, AppendIsConcat
<1>3. Append(<<a, b>>, c) = <<a, b, c>>
    <2> DEFINE s == Append(<<a, b>>, c)
               t == <<a, b, c>>
    <2>1. s \in Seq({a, b, c}) /\ t \in Seq({a, b, c}) /\ Len(s) = 3 /\ Len(t) = 3
        BY <1>1, AppendProperties
    <2>2. s[1] = a /\ s[2] = b /\ s[3] = c
        BY <1>1, AppendProperties
    <2>3. t[1] = a /\ t[2] = b /\ t[3] = c
        OBVIOUS
    <2> HIDE DEF s, t
    <2>4. \A i \in 1 .. Len(s) : s[i] = t[i]
        BY <2>1, <2>2, <2>3
    <2>5. s = t
        BY <2>1, <2>4, SeqEqual
    <2> QED
        BY <2>5 DEF s, t
<1> QED
    BY <1>1, <1>2, <1>3, ConcatEmptySeq

\* An error ends the engine or leads to a list with the same files to come.
LEMMA FailFacts ==
    ASSUME ShapeOK, jobs # <<>>, Fail, team' = team
    PROVE  /\ cur' = None /\ fresh' = FALSE /\ newkey' = NoKey
           /\ \/ jobs' = <<>> /\ out' = <<>> /\ pc' = "off"
              \/ /\ jobs' # <<>> /\ out' = out /\ pc' = "load" /\ Pending' = Pending
                 /\ \/ jobs' \in Carried' /\ jobs \in Carried
                    \/ jobs' \in First' /\ jobs \in First
                    \/ jobs' \in Second' /\ jobs \in Second
<1>1. /\ Carried' = Carried /\ First' = First /\ Second' = Second
      /\ \A kind, role : job(kind, role)' = job(kind, role)
    BY DEF Carried, First, Second, job, config_path
<1>2. CASE Kind \notin {"warpfb", "inner"}
    BY <1>2 DEF Fail, Exit
<1>3. CASE Kind = "inner"
    <2>1. jobs' = jobs /\ out' = out /\ pc' = "load" /\ cur' = None /\ fresh' = FALSE
          /\ newkey' = NoKey
        BY <1>3 DEF Fail
    <2> QED
        BY <1>1, <2>1 DEF ShapeOK, Pending
<1>4. CASE Kind = "warpfb"
    <2>1. /\ jobs' = <<job("masque", "masque"), [kind |-> "temp", path |-> Path]>> \o Tail(jobs)
          /\ out' = out /\ pc' = "load" /\ cur' = None /\ fresh' = FALSE /\ newkey' = NoKey
        BY <1>4 DEF Fail
    <2>2. CASE jobs \in First
        <3>1. Path = W /\ Tail(jobs) = <<job("warpfb", "secondary")>> /\ Pending = {W, "secondary"}
            BY <1>4, <2>2, Heads DEF HeadsOK
        <3>2. jobs' = <<job("masque", "masque"), job("temp", "warp"), job("warpfb", "secondary")>>
            <4>1. [kind |-> "temp", path |-> Path] = job("temp", "warp")
                BY <3>1 DEF job, W
            <4> QED
                BY <2>1, <3>1, <4>1, Concat
        <3>3. jobs' \in First'
            BY <1>1, <3>2 DEF First
        <3>4. Pending' = {W, "secondary"}
            <4>1. Kind' = "masque" /\ Tail(jobs') # <<>> /\ W' = W
                BY <3>2 DEF Kind, job, W, config_path
            <4> QED
                BY <3>3, <4>1, HeadsNext DEF HeadsOK
        <3> QED
            BY <2>1, <2>2, <3>1, <3>2, <3>3, <3>4
    <2>3. CASE jobs \in Second
        <3>1. Path = "secondary" /\ Tail(jobs) = <<>> /\ Pending = {"secondary"}
            BY <1>4, <2>3, Heads DEF HeadsOK
        <3>2. jobs' = <<job("masque", "masque"), job("temp", "secondary")>>
            <4>1. [kind |-> "temp", path |-> Path] = job("temp", "secondary")
                BY <3>1, Roles DEF job
            <4> QED
                BY <2>1, <3>1, <4>1, Concat
        <3>3. jobs' \in Second'
            BY <1>1, <3>2 DEF Second
        <3>4. Pending' = {"secondary"}
            BY <3>3, HeadsNext DEF HeadsOK
        <3> QED
            BY <2>1, <2>3, <3>1, <3>2, <3>3, <3>4
    <2> QED
        BY <1>4, <2>2, <2>3, Heads DEF ShapeOK, HeadsOK
<1> QED
    BY <1>2, <1>3, <1>4

LEMMA FormsTyped ==
    ASSUME NEW s \in {<<>>} \cup Carried \cup First \cup Second PROVE s \in Seq(Job)
<1>1. /\ job("masque", "masque") \in Job /\ job("inner", "inner") \in Job
      /\ job("warp", "warp") \in Job /\ job("warpfb", "warp") \in Job
      /\ job("temp", "warp") \in Job /\ job("warpfb", "secondary") \in Job
      /\ job("temp", "secondary") \in Job
    BY JobForms DEF Kinds, Paths
<1>2. ASSUME NEW a \in Job, NEW b \in Job, NEW c \in Job
      PROVE  <<>> \in Seq(Job) /\ <<a>> \in Seq(Job) /\ <<a, b>> \in Seq(Job)
             /\ <<a, b, c>> \in Seq(Job)
    OBVIOUS
<1>3. ASSUME s \in Carried PROVE s \in Seq(Job)
    BY <1>1, <1>2, <1>3 DEF Carried
<1>4. ASSUME s \in First PROVE s \in Seq(Job)
    BY <1>1, <1>2, <1>4 DEF First
<1>5. ASSUME s \in Second PROVE s \in Seq(Job)
    BY <1>1, <1>2, <1>5 DEF Second
<1>6. <<>> \in Seq(Job)
    OBVIOUS
<1> QED
    BY <1>3, <1>4, <1>5, <1>6

\* The job is over: its identity is handed out and its file is not worked on
\* again.
LEMMA ReturnFacts ==
    ASSUME TypeOK, ShapeOK, jobs # <<>>, NEW i \in Identity, Return(i), team' = team
    PROVE  /\ cur' = None /\ fresh' = FALSE /\ newkey' = NoKey
           /\ out' \in Seq(Identity \X Kinds) /\ DOMAIN out' = DOMAIN out \cup {Len(out) + 1}
           /\ \A n \in DOMAIN out : out'[n] = out[n] /\ n # Len(out) + 1
           /\ out'[Len(out) + 1] = <<i, Kind>> /\ Len(out') = Len(out) + 1
           /\ (jobs' = <<>> /\ pc' = "up") \/ (jobs' # <<>> /\ pc' = "load")
           /\ ShapeOK'
           /\ Pending' \subseteq Pending /\ (Kind # "masque" => Path \notin Pending')
<1>1. /\ Carried' = Carried /\ First' = First /\ Second' = Second /\ W' = W
    BY DEF Carried, First, Second, job, config_path, W
<1>2. /\ cur' = None /\ fresh' = FALSE /\ newkey' = NoKey
      /\ jobs' = Tail(jobs) /\ out' = Append(out, <<i, Kind>>)
      /\ (jobs' = <<>> /\ pc' = "up") \/ (jobs' # <<>> /\ pc' = "load")
    <2>1. cur' = None /\ fresh' = FALSE /\ newkey' = NoKey
        BY DEF Return
    <2>2. jobs' = Tail(jobs) /\ out' = Append(out, <<i, Kind>>)
        BY DEF Return
    <2>3. pc' = IF jobs' = <<>> THEN "up" ELSE "load"
        BY <2>2 DEF Return
    <2> QED
        BY <2>1, <2>2, <2>3
<1>3. Kind \in Kinds
    BY Heads DEF HeadsOK, ShapeOK, Kinds
<1>4. <<i, Kind>> \in Identity \X Kinds /\ out \in Seq(Identity \X Kinds)
    BY <1>3 DEF TypeOK
<1>5. /\ out' \in Seq(Identity \X Kinds) /\ Len(out') = Len(out) + 1 /\ Len(out) \in Nat
      /\ out'[Len(out) + 1] = <<i, Kind>> /\ \A n \in 1 .. Len(out) : out'[n] = out[n]
    BY <1>2, <1>4, AppendProperties
<1>6. DOMAIN out = 1 .. Len(out) /\ DOMAIN out' = 1 .. Len(out) + 1
    BY <1>4, <1>5
<1>7. DOMAIN out' = DOMAIN out \cup {Len(out) + 1}
      /\ \A n \in DOMAIN out : out'[n] = out[n] /\ n # Len(out) + 1
    BY <1>5, <1>6
<1>8. ASSUME jobs \in Carried PROVE ShapeOK' /\ Pending' \subseteq Pending
                                    /\ (Kind # "masque" => Path \notin Pending')
    <2>1. CASE Kind = "masque"
        <3>1. jobs' = <<job("inner", "inner")>> /\ Pending = {"inner"}
            BY <1>2, <1>8, <2>1, Heads DEF HeadsOK
        <3>2. jobs' \in Carried' /\ Pending' = {"inner"}
            BY <1>1, <3>1, HeadsNext DEF Carried, HeadsOK
        <3>3. \A n \in DOMAIN out' : out'[n][2] = "masque"
            BY <1>5, <1>7, <1>8, <2>1 DEF ShapeOK, OnlyMasque
        <3> QED
            BY <2>1, <3>1, <3>2, <3>3 DEF ShapeOK, OnlyMasque
    <2>2. CASE Kind # "masque"
        <3>1. jobs' = <<>> /\ Pending' = {} /\ Kind = "inner"
            BY <1>2, <1>8, <2>2, Heads DEF HeadsOK, Pending
        <3>2. /\ \A n \in DOMAIN out : out'[n][2] = "masque"
              /\ out'[Len(out) + 1][2] = "inner"
            BY <1>5, <1>7, <1>8, <3>1 DEF ShapeOK, OnlyMasque
        <3>3. jobs' \notin Carried' \cup First'
            BY <3>1 DEF Carried, First
        <3> QED
            BY <1>5, <1>7, <3>1, <3>2, <3>3 DEF ShapeOK, OnlyMasque
    <2> QED
        BY <2>1, <2>2
<1>9. ASSUME jobs \in First PROVE ShapeOK' /\ Pending' \subseteq Pending
                                  /\ (Kind # "masque" => Path \notin Pending')
    <2>0. Kind # "inner" /\ Kind \in Kinds
        BY <1>3, <1>9, Heads DEF HeadsOK
    <2>1. \A n \in DOMAIN out' : out'[n][2] # "inner"
        BY <1>5, <1>7, <1>9, <2>0 DEF ShapeOK, OnlyMasque
    <2>2. CASE Tail(jobs) = <<>>
        <3>1. jobs' = <<>> /\ Pending' = {} /\ jobs' \notin Carried' \cup First'
            BY <1>2, <2>2 DEF Pending, Carried, First
        <3> QED
            BY <2>1, <3>1 DEF ShapeOK, OnlyMasque
    <2>3. CASE Tail(jobs) = <<job("warpfb", "secondary")>>
        <3>1. jobs' \in Second'
            BY <1>1, <1>2, <2>3 DEF Second
        <3>2. Pending' = {"secondary"} /\ jobs' # <<>> /\ jobs' \notin Carried' \cup First'
            <4>1. Pending' = {"secondary"} /\ jobs' # <<>>
                BY <1>2, <2>3, <3>1, HeadsNext DEF HeadsOK
            <4>2. jobs' = <<job("warpfb", "secondary")>>
                BY <1>2, <2>3
            <4>3. jobs' \notin Carried' \cup First'
                BY <1>1, <4>2 DEF Carried, First, job
            <4> QED
                BY <4>1, <4>3
        <3>3. Kind # "masque" => Path = W /\ Pending = {W, "secondary"}
            BY <1>9, <2>3, Heads DEF HeadsOK
        <3>4. Pending' \subseteq Pending
            BY <1>9, <2>3, <3>2, Heads DEF HeadsOK, job
        <3> QED
            BY <2>1, <3>1, <3>2, <3>3, <3>4, Roles DEF ShapeOK, OnlyMasque
    <2>4. CASE Tail(jobs) = <<job("temp", "warp"), job("warpfb", "secondary")>>
        <3>1. Kind = "masque" /\ Pending = {W, "secondary"}
            BY <1>9, <2>4, Heads DEF HeadsOK
        <3>2. jobs' \in First'
            BY <1>1, <1>2, <2>4 DEF First
        <3>3. Kind' = "temp" /\ jobs' # <<>>
            <4>1. jobs' = <<job("temp", "warp"), job("warpfb", "secondary")>>
                BY <1>2, <2>4
            <4>2. Kind' = job("temp", "warp").kind /\ jobs' # <<>>
                BY <4>1 DEF Kind
            <4> QED
                BY <4>2 DEF job
        <3>4. Pending' = {W, "secondary"}
            BY <1>1, <3>2, <3>3, HeadsNext DEF HeadsOK
        <3>5. \A n \in DOMAIN out' : out'[n][2] = "masque"
            BY <1>5, <1>7, <1>9, <3>1 DEF ShapeOK, OnlyMasque
        <3> QED
            BY <3>1, <3>2, <3>3, <3>4, <3>5 DEF ShapeOK, OnlyMasque
    <2> QED
        BY <1>9, <2>2, <2>3, <2>4, Heads DEF HeadsOK
<1>10. ASSUME jobs \in Second PROVE ShapeOK' /\ Pending' \subseteq Pending
                                    /\ (Kind # "masque" => Path \notin Pending')
    <2>0. Kind # "inner" /\ Pending = {"secondary"}
        BY <1>10, Heads DEF HeadsOK
    <2>1. \A n \in DOMAIN out' : out'[n][2] # "inner"
        BY <1>5, <1>7, <2>0 DEF ShapeOK
    <2>2. CASE Tail(jobs) = <<>>
        <3>1. jobs' = <<>> /\ Pending' = {} /\ jobs' \notin Carried' \cup First'
            BY <1>2, <2>2 DEF Pending, Carried, First
        <3> QED
            BY <2>1, <3>1 DEF ShapeOK, OnlyMasque
    <2>3. CASE Tail(jobs) = <<job("temp", "secondary")>>
        <3>1. jobs' = <<job("temp", "secondary")>> /\ Kind = "masque"
            <4>1. Tail(jobs) # <<>>
                BY <2>3
            <4> QED
                BY <1>2, <1>10, <2>3, <4>1, Heads DEF HeadsOK
        <3>2. jobs' \in Second' /\ jobs' # <<>>
            BY <1>1, <3>1 DEF Second
        <3>3. jobs' \notin Carried' \cup First'
            BY <1>1, <3>1 DEF Carried, First, job
        <3>4. Pending' = {"secondary"}
            BY <3>2, HeadsNext DEF HeadsOK
        <3> QED
            BY <2>0, <2>1, <3>1, <3>2, <3>3, <3>4 DEF ShapeOK, OnlyMasque
    <2> QED
        BY <1>10, <2>2, <2>3, Heads DEF HeadsOK
<1> QED
    BY <1>2, <1>5, <1>7, <1>8, <1>9, <1>10 DEF ShapeOK

-----------------------------------------------------------------------------
(* Steps that make no new copy of an identity.                               *)

\* Files and memory keep or lose what they have, time passes, devices are
\* registered or refused, and at most the key of the device being enrolled
\* changes.
Less ==
    /\ team' = team /\ clock' \in Nat /\ clock <= clock'
    /\ \A p \in Paths : disk'[p] \in Saved => disk'[p] = disk[p]
    /\ \A d \in Devices : /\ device'[d] = "free" => device[d] = "free"
                          /\ device[d] = "refused" => device'[d] = "refused"
    /\ \A d \in Devices : enrolled'[d] # enrolled[d] => pc = "enroll" /\ d = cur.dev
    /\ cur' # None => /\ cur # None /\ jobs' = jobs
                      /\ cur'.dev = cur.dev /\ cur'.key = cur.key /\ cur'.at = cur.at
    /\ pc' = "adopt" /\ ~fresh' => pc = "adopt" /\ ~fresh /\ cur' # None
    /\ \A n \in DOMAIN out' : n \in DOMAIN out /\ out'[n] = out[n]

\* The fields of copies.
LEMMA CopyTypes ==
    ASSUME TypeOK
    PROVE  /\ clock \in Nat /\ Lifetime \in Nat /\ RenewBefore \in Nat
           /\ \A i \in Saved \cup Identity : i.dev \in Devices /\ i.at \in Nat
           /\ cur # None => cur \in Identity
           /\ \A n \in DOMAIN out : out[n][1] \in Identity /\ out[n][2] \in Kinds
<1>1. clock \in Nat /\ Lifetime \in Nat /\ RenewBefore \in Nat
    BY ProvisioningAssumption DEF TypeOK
<1>2. \A i \in Saved \cup Identity : i.dev \in Devices /\ i.at \in Nat
    BY ProvisioningAssumption DEF Saved, Identity
<1>3. \A n \in DOMAIN out : out[n] \in Identity \X Kinds
    BY DEF TypeOK
<1> QED
    BY <1>1, <1>2, <1>3 DEF TypeOK

\* While a key is being enrolled no copy of the device's identity looks usable.
LEMMA NoUsableCopy ==
    ASSUME IndInv, pc = "enroll"
    PROVE  /\ \A p \in Paths : Holds(p, cur.dev) => ~has_masque_credentials(disk[p])
           /\ \A n \in DOMAIN out :
                 out[n][1].dev = cur.dev => ~has_masque_credentials(out[n][1])
           /\ ~has_masque_credentials(cur)
<1>1. cur # None /\ cur \in Identity /\ ~has_masque_credentials(cur)
    BY DEF IndInv, TypeOK, ControlOK
<1>2. CopyOK(cur)
    BY <1>1 DEF IndInv, CopiesOK
<1>3. ASSUME NEW i \in Saved \cup Identity, Newer(cur, i), i.dev = cur.dev
      PROVE  ~has_masque_credentials(i)
    <2>1. clock \in Nat /\ Lifetime \in Nat /\ RenewBefore \in Nat /\ i.at \in Nat /\ cur.at \in Nat
        BY <1>1, CopyTypes DEF IndInv
    <2> QED
        BY <1>1, <1>2, <1>3, <2>1
        DEF Newer, CopyOK, has_masque_credentials, masque_cert_expiring
<1> QED
    BY <1>1, <1>3, CopyTypes DEF IndInv, OrderOK, Holds

LEMMA LessCopies ==
    ASSUME IndInv, Less PROVE CopiesOK' /\ OrderOK'
<1>0. TypeOK
    BY DEF IndInv
<1>1. ASSUME NEW i \in Saved \cup Identity, CopyOK(i),
             pc = "enroll" /\ i.dev = cur.dev => ~has_masque_credentials(i)
      PROVE  /\ device'[i.dev] # "free" /\ i.at <= clock'
             /\ ~(i.key = NoKey \/ i.at = 0 \/ clock' < i.at
                  \/ (clock' - i.at) + RenewBefore >= Lifetime) => enrolled'[i.dev] = i.key
    <2>1. clock \in Nat /\ Lifetime \in Nat /\ RenewBefore \in Nat /\ i.at \in Nat
          /\ i.dev \in Devices
        BY <1>0, CopyTypes
    <2>2. device'[i.dev] # "free" /\ i.at <= clock'
        BY <1>1, <2>1 DEF Less, CopyOK
    <2>3. ASSUME ~(i.key = NoKey \/ i.at = 0 \/ clock' < i.at
                   \/ (clock' - i.at) + RenewBefore >= Lifetime)
          PROVE  enrolled'[i.dev] = i.key
        <3>1. has_masque_credentials(i)
            BY <1>1, <2>1, <2>3 DEF Less, CopyOK, has_masque_credentials, masque_cert_expiring
        <3> QED
            BY <1>1, <2>1, <3>1 DEF Less, CopyOK
    <2> QED
        BY <2>2, <2>3
<1>2. \A p \in Paths : disk'[p] \in Saved => CopyOK(disk[p])'
    BY <1>1, NoUsableCopy DEF Less, IndInv, CopiesOK, CopyOK, Holds,
       has_masque_credentials, masque_cert_expiring
<1>3. cur' # None => CopyOK(cur)'
    <2> SUFFICES ASSUME cur' # None PROVE CopyOK(cur)'
        OBVIOUS
    <2>1. cur \in Identity /\ CopyOK(cur)
        BY <1>0, CopyTypes DEF Less, IndInv, CopiesOK
    <2> QED
        BY <1>1, <2>1, NoUsableCopy DEF Less, CopyOK, has_masque_credentials, masque_cert_expiring
<1>4. \A n \in DOMAIN out' : CopyOK(out[n][1])'
    <2> SUFFICES ASSUME NEW n \in DOMAIN out' PROVE CopyOK(out[n][1])'
        OBVIOUS
    <2>1. n \in DOMAIN out /\ out'[n] = out[n]
        BY DEF Less
    <2>2. out[n][1] \in Identity /\ CopyOK(out[n][1])
        BY <1>0, <2>1, CopyTypes DEF IndInv, CopiesOK
    <2> QED
        BY <1>1, <2>1, <2>2, NoUsableCopy DEF CopyOK, has_masque_credentials, masque_cert_expiring
<1>5. OrderOK'
    BY DEF Less, IndInv, OrderOK, Newer
<1> QED
    BY <1>2, <1>3, <1>4, <1>5 DEF CopiesOK

LEMMA LessOwners ==
    ASSUME IndInv, Less PROVE OwnersOK'
BY DEF Less, IndInv, OwnersOK, Holds, Path

LEMMA LessHanded ==
    ASSUME IndInv, Less, OnlyMasque' \/ Pending' \subseteq Pending PROVE HandedOK'
<1>0. M' = M /\ TypeOK /\ "inner" \in Paths
    BY DEF Less, M, config_path, IndInv, Paths
<1>2. \A n \in DOMAIN out' : /\ n \in DOMAIN out /\ out'[n] = out[n]
                             /\ out[n][1].dev \in Devices
    BY <1>0, CopyTypes DEF Less
<1>3. cur' # None => cur # None /\ cur'.dev = cur.dev /\ Kind' = Kind /\ Path' = Path
    BY DEF Less, Kind, Path
<1>4. ASSUME NEW n \in DOMAIN out', out'[n][2] # "masque"
      PROVE  /\ \A p \in Paths : Holds(p, out[n][1].dev)' => p \notin Pending'
             /\ cur' # None /\ Kind' # "masque" => cur'.dev # out'[n][1].dev
             /\ \A m \in DOMAIN out' :
                   out'[m][2] # "masque" /\ out'[m][1].dev = out'[n][1].dev => m = n
    <2>1. Pending' \subseteq Pending
        BY <1>4 DEF OnlyMasque
    <2>2. \A p \in Paths : Holds(p, out[n][1].dev)' => Holds(p, out[n][1].dev)
        BY <1>2 DEF Less, Holds
    <2> QED
        BY <1>2, <1>3, <1>4, <2>1, <2>2 DEF IndInv, HandedOK
<1>5. ASSUME NEW n \in DOMAIN out', out'[n][2] = "masque"
      PROVE  /\ out'[n][1].key # NoKey
             /\ \A p \in Paths : Holds(p, out[n][1].dev)' => p = M'
             /\ cur' # None /\ cur'.dev = out'[n][1].dev => Path' = M'
    <2>1. \A p \in Paths : Holds(p, out[n][1].dev)' => Holds(p, out[n][1].dev)
        BY <1>2 DEF Less, Holds
    <2> QED
        BY <1>0, <1>2, <1>3, <1>5, <2>1 DEF IndInv, HandedOK
<1>6. ASSUME NEW n \in DOMAIN out', out'[n][2] = "inner"
      PROVE  /\ \A p \in Paths : Holds(p, out[n][1].dev)' => p = "inner"
             /\ disk'["inner"] \in Saved =>
                   disk'["inner"].dev = out'[n][1].dev \/ device'[disk'["inner"].dev] = "refused"
             /\ \A m \in DOMAIN out' : out'[m][1].dev = out'[n][1].dev => m = n
    <2>1. \A p \in Paths : Holds(p, out[n][1].dev)' => Holds(p, out[n][1].dev)
        BY <1>2 DEF Less, Holds
    <2>2. disk'["inner"] \in Saved => disk'["inner"] = disk["inner"] /\ disk["inner"].dev \in Devices
        BY <1>0, CopyTypes DEF Less
    <2> QED
        BY <1>2, <1>6, <2>1, <2>2 DEF IndInv, HandedOK, Less
<1> QED
    BY <1>4, <1>5, <1>6 DEF HandedOK

-----------------------------------------------------------------------------
(* The end of a job.                                                         *)

\* The world keeps its types.
WorldTyped ==
    /\ team' \in BOOLEAN /\ keep' \in BOOLEAN
    /\ device' \in [Devices -> {"free", "accepted", "refused"}]
    /\ enrolled' \in [Devices -> Keys \cup {NoKey}]
    /\ disk' \in [Paths -> Saved \cup {None, Damaged}]
    /\ clock' \in 1 .. MaxTime
    /\ att' \in 0 .. Attempts + Fronts - 1 /\ rej' \in {"none", "refused", "other"}

LEMMA SameForms ==
    ASSUME team' = team
    PROVE  Carried' = Carried /\ First' = First /\ Second' = Second /\ W' = W /\ M' = M
BY DEF Carried, First, Second, job, config_path, W, M

LEMMA SecondApart ==
    ASSUME NEW s \in Second PROVE s \notin Carried \cup First
<1>1. CASE s = <<job("warpfb", "secondary")>>
    BY <1>1 DEF Carried, First, job
<1>2. CASE s = <<job("temp", "secondary")>>
    BY <1>2 DEF Carried, First, job
<1>3. CASE s = <<job("masque", "masque"), job("temp", "secondary")>>
    BY <1>3 DEF Carried, First, job
<1> QED
    BY <1>1, <1>2, <1>3 DEF Second

\* Exit or Fail.
LEMMA EndInv ==
    ASSUME IndInv, jobs # <<>> \/ Exit, Exit \/ Fail, Less, WorldTyped, rej' = "none"
    PROVE  IndInv'
<1>1. /\ cur' = None /\ fresh' = FALSE /\ newkey' = NoKey
      /\ \/ jobs' = <<>> /\ out' = <<>> /\ pc' = "off"
         \/ /\ jobs' # <<>> /\ out' = out /\ pc' = "load" /\ Pending' = Pending
            /\ \/ jobs' \in Carried' /\ jobs \in Carried
               \/ jobs' \in First' /\ jobs \in First
               \/ jobs' \in Second' /\ jobs \in Second
    <2>1. CASE Exit
        BY <2>1 DEF Exit
    <2>2. CASE ~Exit
        BY <2>2, FailFacts DEF Less, IndInv
    <2> QED
        BY <2>1, <2>2
<1>2. ShapeOK'
    <2>1. CASE jobs' = <<>> /\ out' = <<>>
        <3>1. DOMAIN out' = {} /\ jobs' \notin Carried' \cup First'
            BY <2>1 DEF Carried, First
        <3> QED
            BY <2>1, <3>1 DEF ShapeOK, OnlyMasque
    <2>2. CASE jobs' # <<>>
        <3>1. /\ out' = out
              /\ jobs' \in Carried' \cup First' \cup Second'
              /\ jobs' \in Carried' \cup First' => jobs \in Carried \cup First
              /\ jobs # <<>>
            <4>1. jobs' \in Second' => jobs' \notin Carried' \cup First'
                BY SameForms, SecondApart DEF Less
            <4>2. jobs # <<>>
                BY <1>1, <2>2 DEF Carried, First, Second
            <4> QED
                BY <1>1, <2>2, <4>1, <4>2
        <3> QED
            BY <2>2, <3>1 DEF IndInv, ShapeOK, OnlyMasque
    <2> QED
        BY <1>1, <2>1, <2>2
<1>3. TypeOK'
    <2>1. jobs' \in Seq(Job)
        BY <1>2, FormsTyped, SameForms DEF ShapeOK, Less
    <2>2. out' \in Seq(Identity \X Kinds)
        <3>1. <<>> \in Seq(Identity \X Kinds)
            OBVIOUS
        <3> QED
            BY <1>1, <3>1 DEF IndInv, TypeOK
    <2> QED
        BY <1>1, <2>1, <2>2 DEF WorldTyped, TypeOK
<1>4. ControlOK'
    BY <1>1 DEF ControlOK, Working, Requesting
<1>5. CopiesOK' /\ OrderOK' /\ OwnersOK'
    BY LessCopies, LessOwners
<1>6. TargetOK'
    BY <1>1 DEF TargetOK, Working
<1>7. HandedOK'
    <2>1. OnlyMasque' \/ Pending' \subseteq Pending
        BY <1>1 DEF OnlyMasque
    <2> QED
        BY <2>1, LessHanded
<1> QED
    BY <1>2, <1>3, <1>4, <1>5, <1>6, <1>7 DEF IndInv

\* Return, of the identity in hand, with its file saved or left as it is.
LEMMA ReturnInv ==
    ASSUME IndInv, NEW i \in Identity, Return(i), cur # None,
           i.dev = cur.dev, i.key = cur.key, i.at = cur.at,
           Kind = "masque" => cur.key # NoKey,
           \/ disk' = [disk EXCEPT ![Path] = persist(cur)]
           \/ disk' = disk /\ \A p \in Paths : disk[p] \in Saved => Newer(disk[p], cur),
           UNCHANGED <<team, keep, service, clock>>,
           att' \in 0 .. Attempts + Fronts - 1, rej' = "none"
    PROVE  IndInv'
<1>0. TypeOK /\ jobs # <<>> /\ ShapeOK /\ team' = team /\ device' = device
      /\ enrolled' = enrolled /\ clock' = clock
    BY DEF IndInv, ControlOK, Working, service
<1>1. /\ cur' = None /\ fresh' = FALSE /\ newkey' = NoKey
      /\ out' \in Seq(Identity \X Kinds) /\ DOMAIN out' = DOMAIN out \cup {Len(out) + 1}
      /\ \A n \in DOMAIN out : out'[n] = out[n] /\ n # Len(out) + 1
      /\ out'[Len(out) + 1] = <<i, Kind>> /\ Len(out') = Len(out) + 1
      /\ (jobs' = <<>> /\ pc' = "up") \/ (jobs' # <<>> /\ pc' = "load")
      /\ ShapeOK'
      /\ Pending' \subseteq Pending /\ (Kind # "masque" => Path \notin Pending')
    BY <1>0, ReturnFacts
<1>2. Path \in Paths /\ (Kind = "masque" => Path = M) /\ (Kind = "inner" => Path = "inner")
      /\ (Kind = "inner" => OnlyMasque)
      /\ ((\E n \in DOMAIN out : out[n][2] # "masque") => Pending = {"secondary"})
    <2>1. jobs \in Carried \cup First \cup Second
        BY <1>0 DEF ShapeOK
    <2>2. (\E n \in DOMAIN out : out[n][2] # "masque") => jobs \in Second
        BY <1>0, <2>1 DEF ShapeOK, OnlyMasque
    <2>3. Kind = "inner" => jobs \in Carried
        BY <2>1, Heads DEF HeadsOK
    <2>4. OnlyMasque \/ Kind # "inner"
        BY <1>0, <2>3 DEF ShapeOK
    <2>5. Path \in {"inner", "secondary", W, M} /\ (Kind = "masque" => Path = M)
          /\ (Kind = "inner" => Path = "inner")
        BY <2>1, Heads DEF HeadsOK
    <2>6. jobs \in Second => Pending = {"secondary"}
        BY Heads DEF HeadsOK
    <2> QED
        BY <2>2, <2>4, <2>5, <2>6, Roles DEF Paths
<1>3. persist(cur) \in Saved /\ persist(cur).dev = cur.dev /\ persist(cur).key = cur.key
      /\ persist(cur).at = cur.at
    BY <1>0 DEF TypeOK, Identity, Saved, persist
<1>4. /\ disk' \in [Paths -> Saved \cup {None, Damaged}]
      /\ \A p \in Paths : p # Path => disk'[p] = disk[p]
      /\ \/ disk'[Path] = persist(cur)
         \/ disk'[Path] = disk[Path] /\ (disk[Path] \in Saved => Newer(disk[Path], cur))
    <2>0. disk \in [Paths -> Saved \cup {None, Damaged}]
        BY <1>0 DEF TypeOK
    <2>1. CASE disk' = [disk EXCEPT ![Path] = persist(cur)]
        <3>1. persist(cur) \in Saved
            BY <1>3
        <3> QED
            BY <1>2, <2>0, <2>1, <3>1
    <2>2. CASE disk' = disk /\ \A p \in Paths : disk[p] \in Saved => Newer(disk[p], cur)
        BY <1>2, <2>0, <2>2
    <2> QED
        BY <2>1, <2>2
<1>5. TypeOK'
    <2>1. jobs' \in Seq(Job)
        BY <1>0, <1>1, FormsTyped, SameForms DEF ShapeOK
    <2> QED
        BY <1>0, <1>1, <1>4, <2>1 DEF TypeOK
<1>6. ControlOK'
    BY <1>1 DEF ControlOK, Working, Requesting
<1>7. CopiesOK'
    <2>1. CopyOK(cur) /\ (\A p \in Paths : disk[p] \in Saved => CopyOK(disk[p]))
          /\ (\A n \in DOMAIN out : CopyOK(out[n][1]))
        BY DEF IndInv, CopiesOK
    <2>2. \A p \in Paths : disk'[p] \in Saved => CopyOK(disk[p])'
        BY <1>0, <1>3, <1>4, <2>1 DEF CopyOK, has_masque_credentials, masque_cert_expiring
    <2>3. \A n \in DOMAIN out' : CopyOK(out[n][1])'
        BY <1>0, <1>1, <2>1 DEF CopyOK, has_masque_credentials, masque_cert_expiring
    <2> QED
        BY <1>1, <2>2, <2>3 DEF CopiesOK
<1>8. OwnersOK'
    BY <1>1, <1>2, <1>3, <1>4 DEF IndInv, OwnersOK, Holds
<1>9. OrderOK'
    <2> SUFFICES ASSUME NEW p \in Paths, NEW n \in DOMAIN out', disk'[p] \in Saved,
                        disk'[p].dev = out'[n][1].dev, out'[n][1].key # NoKey
                 PROVE  disk'[p].key # NoKey /\ out'[n][1].at <= disk'[p].at
        BY <1>1 DEF OrderOK, Newer
    <2>1. CASE n \in DOMAIN out
        <3>1. out'[n] = out[n] /\ Newer(cur, out[n][1]) /\ (disk[p] \in Saved => Newer(disk[p], out[n][1]))
            BY <1>1, <2>1 DEF IndInv, OrderOK
        <3> QED
            BY <1>3, <1>4, <3>1 DEF Newer
    <2>2. CASE n = Len(out) + 1
        <3>1. out'[n][1] = i /\ i.at \in Nat
            BY <1>0, <1>1, <2>2, CopyTypes
        <3>2. p = Path
            BY <1>4, <3>1 DEF IndInv, OwnersOK, Holds
        <3> QED
            BY <1>3, <1>4, <3>1, <3>2 DEF Newer
    <2> QED
        BY <1>1, <2>1, <2>2
<1>10. TargetOK'
    BY <1>1 DEF TargetOK, Working
<1>11. HandedOK'
    <2>1. \A p \in Paths : disk'[p] \in Saved =>
             disk'[p] = disk[p] \/ (p = Path /\ disk'[p].dev = cur.dev)
        BY <1>3, <1>4
    <2>2. \A p \in Paths : disk'[p] \in Saved /\ disk'[p].dev = cur.dev => p = Path
        BY <1>4 DEF IndInv, OwnersOK, Holds
    <2>3. ASSUME NEW n \in DOMAIN out', out'[n][2] # "masque"
          PROVE  /\ \A p \in Paths : disk'[p] \in Saved /\ disk'[p].dev = out'[n][1].dev
                                     => p \notin Pending'
                 /\ \A m \in DOMAIN out' :
                       out'[m][2] # "masque" /\ out'[m][1].dev = out'[n][1].dev => m = n
        <3>1. CASE n \in DOMAIN out
            <4>1. out'[n] = out[n] /\ Pending = {"secondary"}
                BY <1>1, <1>2, <2>3, <3>1
            <4>2. \A p \in Paths : Holds(p, out[n][1].dev) => p \notin Pending
                BY <2>3, <3>1, <4>1 DEF IndInv, HandedOK
            <4>3. Kind # "masque" => cur.dev # out[n][1].dev
                BY <2>3, <3>1, <4>1 DEF IndInv, HandedOK
            <4>4. Kind = "masque" => Path \notin Pending'
                BY <1>1, <1>2, <4>1, Roles
            <4>5. \A m \in DOMAIN out :
                     out[m][2] # "masque" /\ out[m][1].dev = out[n][1].dev => m = n
                BY <2>3, <3>1, <4>1 DEF IndInv, HandedOK
            <4>6. \A p \in Paths : disk'[p] \in Saved /\ disk'[p].dev = out'[n][1].dev
                                   => p \notin Pending'
                <5> SUFFICES ASSUME NEW p \in Paths, disk'[p] \in Saved,
                                    disk'[p].dev = out[n][1].dev
                             PROVE  p \notin Pending'
                    BY <4>1
                <5>1. CASE disk'[p] = disk[p]
                    BY <1>1, <4>2, <5>1 DEF Holds
                <5>2. CASE p = Path /\ disk'[p].dev = cur.dev
                    BY <4>3, <4>4, <5>2
                <5> QED
                    BY <2>1, <5>1, <5>2
            <4>7. \A m \in DOMAIN out' :
                     out'[m][2] # "masque" /\ out'[m][1].dev = out'[n][1].dev => m = n
                <5>1. out'[Len(out) + 1][1] = i /\ out'[Len(out) + 1][2] = Kind
                    BY <1>1
                <5> QED
                    BY <1>1, <4>1, <4>3, <4>5, <5>1
            <4> QED
                BY <4>6, <4>7
        <3>2. CASE n = Len(out) + 1
            <4>1. out'[n][1] = i /\ Kind # "masque"
                BY <1>1, <2>3, <3>2
            <4>2. \A m \in DOMAIN out : out[m][2] # "masque" => out[m][1].dev # cur.dev
                BY <4>1 DEF IndInv, HandedOK
            <4> QED
                BY <1>1, <2>2, <3>2, <4>1, <4>2
        <3> QED
            BY <1>1, <3>1, <3>2
    <2>4. ASSUME NEW n \in DOMAIN out', out'[n][2] = "masque"
          PROVE  /\ out'[n][1].key # NoKey
                 /\ \A p \in Paths : disk'[p] \in Saved /\ disk'[p].dev = out'[n][1].dev
                                     => p = M
        <3>1. CASE n \in DOMAIN out
            <4>1. out'[n] = out[n] /\ out[n][2] = "masque"
                BY <1>1, <2>4, <3>1
            <4>2. /\ out[n][1].key # NoKey
                  /\ \A p \in Paths : Holds(p, out[n][1].dev) => p = M
                  /\ cur.dev = out[n][1].dev => Path = M
                BY <3>1, <4>1 DEF IndInv, HandedOK
            <4> QED
                BY <2>1, <4>1, <4>2 DEF Holds
        <3>2. CASE n = Len(out) + 1
            <4>1. out'[n][1] = i /\ Kind = "masque"
                BY <1>1, <2>4, <3>2
            <4> QED
                BY <1>2, <2>2, <4>1
        <3> QED
            BY <1>1, <3>1, <3>2
    <2>5. ASSUME NEW n \in DOMAIN out', out'[n][2] = "inner"
          PROVE  /\ \A p \in Paths : disk'[p] \in Saved /\ disk'[p].dev = out'[n][1].dev
                                     => p = "inner"
                 /\ disk'["inner"] \in Saved =>
                       disk'["inner"].dev = out'[n][1].dev
                       \/ device'[disk'["inner"].dev] = "refused"
                 /\ \A m \in DOMAIN out' : out'[m][1].dev = out'[n][1].dev => m = n
        <3>1. n = Len(out) + 1 /\ Kind = "inner" /\ out'[n][1] = i
            BY <1>0, <1>1, <2>5 DEF ShapeOK
        <3>2. Path = "inner" /\ OnlyMasque
            BY <1>2, <3>1
        <3>3. \A m \in DOMAIN out : out[m][1].dev # cur.dev
            BY <3>2, Roles DEF OnlyMasque, IndInv, HandedOK
        <3>4. disk[Path] \in Saved => disk[Path].dev = cur.dev \/ device[disk[Path].dev] = "refused"
            BY <3>1 DEF IndInv, TargetOK, ControlOK
        <3>5. disk'["inner"] \in Saved =>
                 disk'["inner"].dev = cur.dev \/ device'[disk'["inner"].dev] = "refused"
            BY <1>0, <1>2, <2>1, <3>2, <3>4
        <3> QED
            BY <1>1, <2>2, <3>1, <3>2, <3>3, <3>5
    <2> QED
        BY <1>0, <1>1, <2>3, <2>4, <2>5, SameForms DEF HandedOK, Holds
<1> QED
    BY <1>1, <1>5, <1>6, <1>7, <1>8, <1>9, <1>10, <1>11 DEF IndInv

-----------------------------------------------------------------------------
(* Steps that go on with the same jobs.                                      *)

LEMMA StayInv ==
    ASSUME IndInv, Less, jobs' = jobs, out' = out
    PROVE  /\ ShapeOK' /\ CopiesOK' /\ OrderOK' /\ OwnersOK' /\ HandedOK'
           /\ Kind' = Kind /\ Path' = Path
<1>1. ShapeOK'
    BY SameForms DEF Less, IndInv, ShapeOK, OnlyMasque
<1>2. Pending' \subseteq Pending
    BY DEF Pending
<1> QED
    BY <1>1, <1>2, LessCopies, LessOwners, LessHanded DEF Kind, Path

\* The first job is one of the known ones.
LEMMA AtWork ==
    ASSUME IndInv, pc \notin {"off", "up"}
    PROVE  /\ jobs # <<>> /\ Path \in Paths /\ Kind \in Kinds
           /\ (Kind = "masque" => Path = M) /\ (Kind # "masque" => Path \in Pending)
<1>1. jobs # <<>> /\ jobs \in Carried \cup First \cup Second
    BY DEF IndInv, ControlOK, ShapeOK
<1>2. /\ Path \in {"inner", "secondary", W, M} /\ (Kind = "masque" => Path = M)
      /\ Kind \in {"warp", "warpfb", "masque", "temp", "inner"}
      /\ (Kind # "masque" => Path \in Pending)
    BY <1>1, Heads DEF HeadsOK
<1> QED
    BY <1>1, <1>2, Roles DEF Paths, Kinds

\* A request about the device in hand says refused only if the service does.
LEMMA Refusal ==
    ASSUME IndInv, pc \in {"adopt", "enroll", "refresh"}, NEW o \in Outcomes,
           Account(Send(o, Verdict(cur.dev)))
    PROVE  /\ att' \in 0 .. Attempts + Fronts - 1 /\ rej' \in {"none", "refused", "other"}
           /\ Send(o, Verdict(cur.dev)).res \in {"ok", "pending", "refused", "error"}
           /\ Send(o, Verdict(cur.dev)).res = "ok" => o = "ok" /\ Verdict(cur.dev) = "ok"
           /\ Send(o, Verdict(cur.dev)).res = "refused" \/ rej' = "refused"
              => device[cur.dev] = "refused"
           /\ Send(o, Verdict(cur.dev)).res # "pending" => rej' = "none"
           /\ cur # None /\ cur \in Identity
<1>1. TypeOK /\ cur # None /\ cur \in Identity /\ cur.dev \in Devices
    BY CopyTypes DEF IndInv, ControlOK, Working
<1>2. Verdict(cur.dev) \in {"ok", "refused"}
      /\ (Verdict(cur.dev) = "refused" => device[cur.dev] = "refused")
    BY <1>1 DEF Verdict, IndInv, CopiesOK, CopyOK, TypeOK
<1>3. rej = "refused" => device[cur.dev] = "refused"
    BY DEF IndInv, ControlOK
<1> QED
    BY <1>1, <1>2, <1>3, SendFacts

LEMMA StartInv ==
    ASSUME IndInv, NEW protocol \in Protocols, start(protocol) PROVE IndInv'
<1>1. /\ pc = "off" /\ pc' = "load" /\ jobs' = run_with(protocol) /\ out' = out /\ out = <<>>
      /\ cur = None /\ cur' = None /\ rej' = rej /\ rej = "none"
      /\ UNCHANGED <<team, keep, device, enrolled, disk, clock, fresh, newkey, att>>
    BY DEF start, service, request, IndInv, ControlOK, Working, Requesting
<1>2. jobs' \in Carried' \cup First' /\ jobs' # <<>>
    <2>1. protocol \in {"masque", "wg", "gool", "carried"}
        BY ProvisioningAssumption
    <2>2. run_with(protocol) \in Carried \cup First /\ run_with(protocol) # <<>>
        BY <2>1 DEF run_with, Carried, First
    <2> QED
        BY <1>1, <2>2, SameForms
<1>3. DOMAIN out' = {} /\ OnlyMasque'
    BY <1>1 DEF OnlyMasque
<1>4. Less
    BY <1>1, CopyTypes DEF Less, IndInv
<1>5. ShapeOK'
    BY <1>2, <1>3 DEF ShapeOK
<1>6. TypeOK'
    <2>1. jobs' \in Seq(Job)
        BY <1>1, <1>2, FormsTyped, SameForms
    <2> QED
        BY <1>1, <1>2, <2>1 DEF IndInv, TypeOK
<1>7. ControlOK' /\ TargetOK'
    BY <1>1, <1>2 DEF ControlOK, TargetOK, Working, Requesting
<1> QED
    BY <1>3, <1>4, <1>5, <1>6, <1>7, LessCopies, LessOwners, LessHanded DEF IndInv

\* Loading: the copy in hand is the file's.
LEMMA LoadedInv ==
    ASSUME IndInv, pc = "load", disk[Path] \in Saved, cur' = restore(disk[Path]),
           \/ /\ Kind = "masque" /\ ~has_masque_credentials(disk[Path])
              /\ pc' = "enroll" /\ NewKeyPair(disk[Path])
           \/ /\ ~(Kind = "masque" /\ ~has_masque_credentials(disk[Path]))
              /\ pc' \in {"adopt", "save"} /\ newkey' = newkey,
           UNCHANGED <<disk, jobs, fresh, out, team, keep, service, clock, request>>
    PROVE  IndInv'
<1>1. /\ team' = team /\ keep' = keep /\ device' = device /\ enrolled' = enrolled
      /\ disk' = disk /\ clock' = clock /\ jobs' = jobs /\ fresh' = fresh /\ out' = out
      /\ att' = att /\ rej' = rej
    BY DEF service, request
<1>2. /\ Kind' = Kind /\ Path' = Path /\ Pending' = Pending /\ M' = M
      /\ jobs # <<>> /\ Path \in Paths /\ (Kind = "masque" => Path = M)
      /\ (Kind # "masque" => Path \in Pending) /\ rej = "none" /\ TypeOK
    BY <1>1, AtWork DEF Kind, Path, Pending, M, config_path, IndInv, ControlOK, Requesting
<1>3. /\ cur' \in Identity /\ cur' # None /\ cur'.dev = disk[Path].dev
      /\ cur'.key = disk[Path].key /\ cur'.at = disk[Path].at
    <2>1. restore(disk[Path]) \in Identity
        BY DEF restore, Saved, Identity
    <2> QED
        BY <2>1, FilesAssumption DEF restore
<1>4. TypeOK'
    BY <1>1, <1>2, <1>3, ProvisioningAssumption DEF TypeOK, NewKeyPair
<1>5. ControlOK'
    <2>1. pc' = "enroll" => Kind = "masque" /\ ~has_masque_credentials(cur)'
        BY <1>1, <1>3 DEF has_masque_credentials, masque_cert_expiring
    <2>2. pc' \in {"adopt", "save"} /\ Kind = "masque" => cur'.key # NoKey
        BY <1>3 DEF has_masque_credentials
    <2> QED
        BY <1>1, <1>2, <1>3, <2>1, <2>2 DEF ControlOK, Working, Requesting
<1>6. ShapeOK'
    BY <1>1, SameForms DEF IndInv, ShapeOK, OnlyMasque
<1>7. CopiesOK'
    BY <1>1, <1>2, <1>3 DEF IndInv, CopiesOK, CopyOK, has_masque_credentials, masque_cert_expiring
<1>8. OrderOK'
    <2>1. disk[Path].at \in Nat
        BY <1>2, CopyTypes
    <2>2. \A p \in Paths : disk[p] \in Saved /\ disk[p].dev = disk[Path].dev => p = Path
        BY <1>2 DEF IndInv, OwnersOK
    <2>3. \A n \in DOMAIN out : Newer(disk[Path], out[n][1])
        BY <1>2 DEF IndInv, OrderOK
    <2> QED
        BY <1>1, <1>3, <2>1, <2>2, <2>3 DEF IndInv, OrderOK, Newer
<1>9. OwnersOK'
    BY <1>1, <1>2, <1>3 DEF IndInv, OwnersOK, Holds
<1>10. TargetOK'
    BY <1>1, <1>2, <1>3 DEF TargetOK
<1>11. HandedOK'
    <2>1. Holds(Path, cur'.dev)
        BY <1>3 DEF Holds
    <2>2. \A n \in DOMAIN out : out[n][2] # "masque" /\ Kind # "masque" => cur'.dev # out[n][1].dev
        BY <1>2, <2>1 DEF IndInv, HandedOK
    <2>3. \A n \in DOMAIN out : out[n][2] = "masque" /\ cur'.dev = out[n][1].dev => Path = M
        BY <1>2, <2>1 DEF IndInv, HandedOK
    <2> QED
        BY <1>1, <1>2, <2>2, <2>3 DEF IndInv, HandedOK, Holds
<1> QED
    BY <1>4, <1>5, <1>6, <1>7, <1>8, <1>9, <1>10, <1>11 DEF IndInv

-----------------------------------------------------------------------------
(* Every action keeps the invariant.                                         *)

LEMMA InitInv == Init => IndInv
<1> SUFFICES ASSUME Init PROVE IndInv
    OBVIOUS
<1>1. /\ pc = "off" /\ jobs = <<>> /\ cur = None /\ fresh = FALSE /\ newkey = NoKey
      /\ att = 0 /\ rej = "none" /\ out = <<>> /\ clock = 1
      /\ team \in BOOLEAN /\ keep \in BOOLEAN /\ DOMAIN out = {}
    BY DEF Init
<1>2. /\ disk \in [Paths -> Saved \cup {None, Damaged}]
      /\ device \in [Devices -> {"free", "accepted", "refused"}]
      /\ enrolled \in [Devices -> Keys \cup {NoKey}]
      /\ \A p, q \in Paths : disk[p] \in Saved /\ disk[q] \in Saved => p = q
      /\ \A p \in Paths : disk[p] \in Saved => device[disk[p].dev] # "free" /\ disk[p].at = 0
    <2>1. CASE /\ disk = [p \in Paths |-> None]
               /\ device = [d \in Devices |-> "free"]
               /\ enrolled = [d \in Devices |-> NoKey]
        BY <2>1, FilesAssumption
    <2>2. ASSUME NEW d \in Devices, NEW k \in Keys,
                 disk = [p \in Paths |-> IF p = config_path("masque")
                                         THEN [dev |-> d, key |-> k, at |-> 0] ELSE None],
                 device = [e \in Devices |-> IF e = d THEN "accepted" ELSE "free"],
                 enrolled = [e \in Devices |-> IF e = d THEN k ELSE NoKey]
          PROVE  <1>2!1 /\ <1>2!2 /\ <1>2!3 /\ <1>2!4 /\ <1>2!5
        <3>1. [dev |-> d, key |-> k, at |-> 0] \in Saved
            BY ProvisioningAssumption DEF Saved
        <3>2. \A p \in Paths : /\ p = config_path("masque") => disk[p] = [dev |-> d, key |-> k, at |-> 0]
                               /\ p # config_path("masque") => disk[p] = None
            BY <2>2
        <3>3. \A p \in Paths : disk[p] \in Saved => p = config_path("masque")
            BY <3>2, FilesAssumption
        <3>4. \A p \in Paths : disk[p] \in Saved => disk[p].dev = d /\ disk[p].at = 0
            BY <3>2, <3>3
        <3>5. device[d] = "accepted"
            BY <2>2
        <3>6. disk \in [Paths -> Saved \cup {None, Damaged}]
            BY <2>2, <3>1
        <3> QED
            BY <2>2, <3>3, <3>4, <3>5, <3>6
    <2> QED
        BY <2>1, <2>2 DEF Init
<1>3. TypeOK
    <2>1. jobs \in Seq(Job) /\ out \in Seq(Identity \X Kinds)
        <3>1. <<>> \in Seq(Job) /\ <<>> \in Seq(Identity \X Kinds)
            OBVIOUS
        <3> QED
            BY <1>1, <3>1
    <2>2. clock \in 1 .. MaxTime /\ att \in 0 .. Attempts + Fronts - 1
        BY <1>1, ProvisioningAssumption
    <2> QED
        BY <1>1, <1>2, <2>1, <2>2 DEF TypeOK
<1>4. ControlOK /\ TargetOK
    BY <1>1 DEF ControlOK, TargetOK, Working, Requesting
<1>5. ShapeOK
    BY <1>1 DEF ShapeOK, OnlyMasque
<1>6. CopiesOK /\ OrderOK /\ OwnersOK /\ HandedOK
    BY <1>1, <1>2 DEF CopiesOK, CopyOK, OrderOK, OwnersOK, HandedOK,
       has_masque_credentials, masque_cert_expiring
<1> QED
    BY <1>3, <1>4, <1>5, <1>6 DEF IndInv

\* provision_account begins, with no identity in hand.
LEMMA ProvisionInv ==
    ASSUME IndInv, Provision, cur' = None, pc \in {"load", "adopt"},
           UNCHANGED <<jobs, fresh, newkey, out, team, keep, service, disk, clock>>,
           att' \in 0 .. Attempts + Fronts - 1, rej' = "none",
           disk[Path] \in Saved => device[disk[Path].dev] = "refused" \/ Kind = "temp"
    PROVE  IndInv'
<1>1. /\ pc' \in {"signin", "register"} /\ cur' = None /\ jobs' = jobs /\ out' = out
      /\ team' = team /\ keep' = keep /\ device' = device /\ enrolled' = enrolled
      /\ disk' = disk /\ clock' = clock /\ fresh' = fresh /\ newkey' = newkey
      /\ jobs # <<>> /\ Path' = Path /\ Kind' = Kind
    BY AtWork DEF Provision, service, Path, Kind
<1>2. Less
    BY <1>1, CopyTypes DEF Less, IndInv
<1>3. TypeOK'
    BY <1>1 DEF IndInv, TypeOK
<1>4. ControlOK'
    BY <1>1 DEF ControlOK, Working, Requesting
<1>5. TargetOK'
    BY <1>1 DEF TargetOK
<1> QED
    BY <1>1, <1>2, <1>3, <1>4, <1>5, StayInv DEF IndInv

LEMMA LoadInv == ASSUME IndInv, load PROVE IndInv'
<1>0. /\ pc = "load" /\ TypeOK /\ jobs # <<>> /\ Path \in Paths /\ rej = "none" /\ cur = None
      /\ team' = team /\ keep' = keep /\ device' = device /\ enrolled' = enrolled
      /\ clock' = clock /\ att' = att /\ rej' = rej
    BY AtWork DEF load, IndInv, ControlOK, Working, Requesting, service, request
<1>1. CASE Fail /\ (disk' = disk
                    \/ (disk[Path] = Damaged /\ disk' = [disk EXCEPT ![Path] = None]))
    <2>1. \A p \in Paths : disk'[p] \in Saved => disk'[p] = disk[p]
        BY <1>0, <1>1, FilesAssumption DEF TypeOK
    <2>2. disk' \in [Paths -> Saved \cup {None, Damaged}]
        BY <1>0, <1>1 DEF TypeOK
    <2>3. cur' = None /\ (pc' # "adopt") /\ \A n \in DOMAIN out' : n \in DOMAIN out /\ out'[n] = out[n]
        <3>1. out' = out \/ out' = <<>>
            BY <1>0, <1>1, FailFacts DEF IndInv
        <3> QED
            BY <1>0, <1>1, <3>1, FailFacts DEF IndInv
    <2>4. Less
        BY <1>0, <2>1, <2>3, CopyTypes DEF Less
    <2>5. WorldTyped
        BY <1>0, <2>2 DEF WorldTyped, TypeOK
    <2> QED
        BY <1>0, <1>1, <2>4, <2>5, EndInv
<1>2. CASE disk[Path] = None /\ Provision /\ UNCHANGED <<disk, jobs, cur, fresh, newkey, out>>
    <2>1. att' \in 0 .. Attempts + Fronts - 1 /\ disk[Path] \notin Saved
        BY <1>0, <1>2, FilesAssumption DEF TypeOK
    <2> QED
        BY <1>0, <1>2, <2>1, ProvisionInv DEF service
<1>3. CASE /\ disk[Path] \in Saved /\ cur' = restore(disk[Path])
           /\ IF Kind = "masque" /\ ~has_masque_credentials(disk[Path])
              THEN pc' = "enroll" /\ NewKeyPair(disk[Path])
              ELSE pc' = (IF team THEN "adopt" ELSE "save") /\ UNCHANGED newkey
           /\ UNCHANGED <<disk, jobs, fresh, out>>
    <2>1. \/ /\ Kind = "masque" /\ ~has_masque_credentials(disk[Path])
             /\ pc' = "enroll" /\ NewKeyPair(disk[Path])
          \/ /\ ~(Kind = "masque" /\ ~has_masque_credentials(disk[Path]))
             /\ pc' \in {"adopt", "save"} /\ newkey' = newkey
        BY <1>3
    <2> QED
        BY <1>0, <1>3, <2>1, LoadedInv DEF service, request
<1> QED
    BY <1>1, <1>2, <1>3 DEF load

LEMMA TempInv == ASSUME IndInv, temp PROVE IndInv'
<1>0. /\ pc = "load" /\ Kind = "temp" /\ TypeOK /\ rej = "none" /\ cur = None
      /\ team' = team /\ keep' = keep /\ device' = device /\ enrolled' = enrolled
      /\ disk' = disk /\ clock' = clock /\ att' = att /\ rej' = rej
    BY DEF temp, IndInv, ControlOK, Working, Requesting, service, request
<1>1. CASE Provision /\ UNCHANGED <<jobs, cur, fresh, newkey, out>>
    <2>1. att' \in 0 .. Attempts + Fronts - 1
        BY <1>0 DEF TypeOK
    <2> QED
        BY <1>0, <1>1, <2>1, ProvisionInv DEF service
<1>2. CASE Exit
    <2>1. cur' = None /\ pc' = "off" /\ DOMAIN out' = {}
        BY <1>2 DEF Exit
    <2>2. Less
        BY <1>0, <2>1, CopyTypes DEF Less
    <2>3. WorldTyped
        BY <1>0 DEF WorldTyped, TypeOK
    <2> QED
        BY <1>0, <1>2, <2>2, <2>3, EndInv
<1> QED
    BY <1>1, <1>2 DEF temp

LEMMA TargetStays ==
    ASSUME IndInv, Less, jobs' = jobs, pc \in Working \cup {"signin", "register"},
           cur' # None <=> cur # None
    PROVE  TargetOK'
<1>1. Path' = Path /\ Kind' = Kind /\ Path \in Paths
    BY AtWork DEF Path, Kind, Working
<1> SUFFICES ASSUME disk'[Path] \in Saved
             PROVE  \/ cur' # None /\ disk'[Path].dev = cur'.dev
                    \/ device'[disk'[Path].dev] = "refused"
                    \/ Kind = "temp"
    BY <1>1 DEF TargetOK
<1>2. disk'[Path] = disk[Path] /\ disk[Path].dev \in Devices
    BY <1>1, CopyTypes DEF Less, IndInv
<1>3. \/ cur # None /\ disk[Path].dev = cur.dev
      \/ device[disk[Path].dev] = "refused"
      \/ Kind = "temp"
    BY <1>2 DEF IndInv, TargetOK
<1> QED
    BY <1>2, <1>3 DEF Less

\* An error while a job is being worked on.
LEMMA FailInv ==
    ASSUME IndInv, pc \notin {"off", "up"}, Fail,
           UNCHANGED <<team, keep, disk, clock>>,
           device' \in [Devices -> {"free", "accepted", "refused"}],
           \A d \in Devices : /\ device'[d] = "free" => device[d] = "free"
                              /\ device[d] = "refused" => device'[d] = "refused",
           enrolled' \in [Devices -> Keys \cup {NoKey}],
           \A d \in Devices : enrolled'[d] # enrolled[d] => pc = "enroll" /\ d = cur.dev,
           att' \in 0 .. Attempts + Fronts - 1, rej' = "none"
    PROVE  IndInv'
<1>0. TypeOK /\ jobs # <<>> /\ ShapeOK
    BY AtWork DEF IndInv
<1>1. /\ cur' = None /\ pc' # "adopt"
      /\ \A n \in DOMAIN out' : n \in DOMAIN out /\ out'[n] = out[n]
    <2>1. cur' = None /\ pc' # "adopt" /\ (out' = out \/ out' = <<>>)
        BY <1>0, FailFacts
    <2> QED
        BY <2>1
<1>2. Less
    BY <1>0, <1>1, CopyTypes DEF Less
<1>3. WorldTyped
    BY <1>0 DEF WorldTyped, TypeOK
<1> QED
    BY <1>0, <1>2, <1>3, EndInv

LEMMA AdoptInv == ASSUME IndInv, NEW o \in Outcomes, adopt(o) PROVE IndInv'
<1> DEFINE s == Send(o, Verdict(cur.dev))
<1>0. /\ pc = "adopt" /\ TypeOK /\ Account(s)
      /\ team' = team /\ keep' = keep /\ device' = device /\ enrolled' = enrolled
      /\ disk' = disk /\ clock' = clock
    BY DEF adopt, IndInv, service
<1>1. /\ att' \in 0 .. Attempts + Fronts - 1 /\ rej' \in {"none", "refused", "other"}
      /\ s.res \in {"ok", "pending", "refused", "error"}
      /\ s.res = "refused" \/ rej' = "refused" => device[cur.dev] = "refused"
      /\ s.res # "pending" => rej' = "none"
      /\ cur # None /\ cur \in Identity
    BY <1>0, Refusal
<1>2. /\ jobs # <<>> /\ Path \in Paths
      /\ (Kind = "masque" => cur.key # NoKey)
      /\ (~fresh => \A p \in Paths : disk[p] \in Saved => Newer(disk[p], cur))
    BY <1>0, AtWork DEF IndInv, ControlOK, OrderOK
<1>3. \/ s.res = "pending" /\ UNCHANGED <<pc, jobs, cur, fresh, newkey, out>>
      \/ /\ s.res = "refused" /\ ~fresh /\ keep /\ Provision /\ cur' = None
         /\ UNCHANGED <<jobs, fresh, newkey, out>>
      \/ s.res = "refused" /\ ~fresh /\ ~keep /\ Return([cur EXCEPT !.refused = TRUE])
      \/ /\ s.res # "pending" /\ pc' = "save" /\ UNCHANGED <<jobs, fresh, newkey, out>>
         /\ cur' = [cur EXCEPT !.refused = CASE s.res = "ok" -> FALSE
                                             [] s.res = "refused" -> TRUE
                                             [] OTHER -> @]
    BY <1>1 DEF adopt
<1> HIDE DEF s
<1>4. CASE s.res = "pending" /\ UNCHANGED <<pc, jobs, cur, fresh, newkey, out>>
    <2>1. Less
        BY <1>0, <1>1, <1>4, CopyTypes DEF Less
    <2>2. TypeOK'
        BY <1>0, <1>1, <1>4 DEF TypeOK
    <2>3. ControlOK'
        BY <1>0, <1>1, <1>2, <1>4 DEF IndInv, ControlOK, Working, Requesting, Kind
    <2>4. TargetOK'
        BY <1>0, <1>4, <2>1, TargetStays DEF Working
    <2> QED
        BY <1>4, <2>1, <2>2, <2>3, <2>4, StayInv DEF IndInv
<1>5. CASE /\ s.res = "refused" /\ ~fresh /\ keep /\ Provision /\ cur' = None
           /\ UNCHANGED <<jobs, fresh, newkey, out>>
    <2>1. disk[Path] \in Saved => device[disk[Path].dev] = "refused" \/ Kind = "temp"
        BY <1>0, <1>1, <1>5 DEF IndInv, TargetOK, Working
    <2> QED
        BY <1>0, <1>1, <1>5, <2>1, ProvisionInv DEF service
<1>6. CASE s.res = "refused" /\ ~fresh /\ ~keep /\ Return([cur EXCEPT !.refused = TRUE])
    <2> DEFINE i == [cur EXCEPT !.refused = TRUE]
    <2>1. i \in Identity /\ i.dev = cur.dev /\ i.key = cur.key /\ i.at = cur.at
        BY <1>1 DEF Identity
    <2>2. Return(i) /\ rej' = "none"
        BY <1>1, <1>6
    <2> HIDE DEF i
    <2> QED
        BY <1>0, <1>1, <1>2, <1>6, <2>1, <2>2, ReturnInv DEF service
<1>7. CASE /\ s.res # "pending" /\ pc' = "save" /\ UNCHANGED <<jobs, fresh, newkey, out>>
           /\ cur' = [cur EXCEPT !.refused = CASE s.res = "ok" -> FALSE
                                               [] s.res = "refused" -> TRUE
                                               [] OTHER -> @]
    <2>1. /\ cur' \in Identity /\ cur' # None /\ cur'.dev = cur.dev /\ cur'.key = cur.key
          /\ cur'.at = cur.at
        <3>1. ASSUME NEW b \in BOOLEAN, cur' = [cur EXCEPT !.refused = b]
              PROVE  cur' \in Identity /\ cur'.dev = cur.dev /\ cur'.key = cur.key
                     /\ cur'.at = cur.at
            BY <1>1, <3>1 DEF Identity
        <3>2. cur.refused \in BOOLEAN
            BY <1>1 DEF Identity
        <3>3. cur' \in Identity => cur' # None
            BY FilesAssumption
        <3>4. (CASE s.res = "ok" -> FALSE [] s.res = "refused" -> TRUE
                 [] OTHER -> cur.refused) \in BOOLEAN
            BY <3>2
        <3> QED
            BY <1>7, <3>1, <3>3, <3>4
    <2>2. Less
        BY <1>0, <1>1, <1>7, <2>1, CopyTypes DEF Less
    <2>3. TypeOK'
        BY <1>0, <1>1, <1>2, <1>7, <2>1 DEF TypeOK
    <2>4. ControlOK'
        BY <1>0, <1>1, <1>2, <1>7, <2>1 DEF ControlOK, Working, Requesting, Kind
    <2>5. TargetOK'
        BY <1>0, <1>1, <1>7, <2>1, <2>2, TargetStays DEF Working
    <2> QED
        BY <1>7, <2>2, <2>3, <2>4, <2>5, StayInv DEF IndInv
<1> QED
    BY <1>3, <1>4, <1>5, <1>6, <1>7

LEMMA SigninInv == ASSUME IndInv, signin PROVE IndInv'
<1>0. /\ pc = "signin" /\ TypeOK /\ cur = None /\ rej = "none" /\ jobs # <<>>
      /\ team' = team /\ keep' = keep /\ device' = device /\ enrolled' = enrolled
      /\ disk' = disk /\ clock' = clock /\ att' = att /\ rej' = rej
    BY AtWork DEF signin, IndInv, ControlOK, Working, Requesting, service, request
<1>1. CASE pc' = "register" /\ UNCHANGED <<jobs, cur, fresh, newkey, out>>
    <2>1. Less
        BY <1>0, <1>1, CopyTypes DEF Less
    <2>2. TypeOK'
        BY <1>0, <1>1 DEF TypeOK
    <2>3. ControlOK'
        BY <1>0, <1>1 DEF ControlOK, Working, Requesting
    <2>4. TargetOK'
        BY <1>0, <1>1, <2>1, TargetStays
    <2> QED
        BY <1>1, <2>1, <2>2, <2>3, <2>4, StayInv DEF IndInv
<1>2. CASE Fail
    <2>1. /\ device' \in [Devices -> {"free", "accepted", "refused"}]
          /\ enrolled' \in [Devices -> Keys \cup {NoKey}]
          /\ att' \in 0 .. Attempts + Fronts - 1
        BY <1>0 DEF TypeOK
    <2> QED
        BY <1>0, <1>2, <2>1, FailInv
<1> QED
    BY <1>1, <1>2 DEF signin

LEMMA SaveInv == ASSUME IndInv, save PROVE IndInv'
<1>0. /\ pc = "save" /\ TypeOK /\ cur # None /\ cur \in Identity /\ rej = "none"
      /\ (Kind = "masque" => cur.key # NoKey)
      /\ team' = team /\ keep' = keep /\ device' = device /\ enrolled' = enrolled
      /\ clock' = clock /\ att' = att /\ rej' = rej
    BY CopyTypes DEF save, IndInv, ControlOK, Working, Requesting, service, request
<1>1. /\ device' \in [Devices -> {"free", "accepted", "refused"}]
      /\ enrolled' \in [Devices -> Keys \cup {NoKey}]
      /\ att' \in 0 .. Attempts + Fronts - 1
    BY <1>0 DEF TypeOK
<1>2. CASE disk' = [disk EXCEPT ![Path] = persist(cur)] /\ Return(cur)
    BY <1>0, <1>1, <1>2, ReturnInv DEF service
<1>3. CASE disk' = disk /\ Fail
    BY <1>0, <1>1, <1>3, FailInv
<1> QED
    BY <1>2, <1>3 DEF save

\* The service holds the new key, and so does the copy in hand.
LEMMA EnrolledInv ==
    ASSUME IndInv, pc = "enroll", pc' \in {"adopt", "save"}, pc' = "adopt" => fresh,
           cur' = [cur EXCEPT !.key = newkey, !.at = clock], newkey' = NoKey,
           enrolled' = [enrolled EXCEPT ![cur.dev] = newkey],
           UNCHANGED <<jobs, fresh, out, team, keep, device, disk, clock>>,
           att' \in 0 .. Attempts + Fronts - 1, rej' = "none"
    PROVE  IndInv'
<1>0. TypeOK /\ cur # None /\ cur \in Identity /\ cur.dev \in Devices /\ newkey \in Keys
      /\ jobs # <<>> /\ CopyOK(cur) /\ newkey # NoKey
    <2>1. TypeOK /\ cur # None /\ cur \in Identity /\ jobs # <<>> /\ CopyOK(cur)
        BY AtWork, CopyTypes DEF IndInv, ControlOK, Working, CopiesOK
    <2> QED
        BY <2>1, CopyTypes, ProvisioningAssumption DEF TypeOK
<1>1. /\ cur' \in Identity /\ cur' # None /\ cur'.dev = cur.dev /\ cur'.key = newkey
      /\ cur'.at = clock
    <2>1. clock \in 0 .. MaxTime
        BY <1>0, ProvisioningAssumption DEF TypeOK
    <2>2. cur' \in Identity /\ cur'.dev = cur.dev /\ cur'.key = newkey /\ cur'.at = clock
        BY <1>0, <2>1 DEF Identity
    <2> QED
        BY <2>2, FilesAssumption
<1>2. /\ enrolled' \in [Devices -> Keys \cup {NoKey}] /\ enrolled'[cur.dev] = newkey
      /\ \A d \in Devices : d # cur.dev => enrolled'[d] = enrolled[d]
    BY <1>0 DEF TypeOK
<1>3. Kind' = Kind /\ Path' = Path /\ Pending' = Pending /\ M' = M
    BY DEF Kind, Path, Pending, M, config_path
<1>4. TypeOK'
    BY <1>0, <1>1, <1>2 DEF TypeOK
<1>5. ControlOK'
    BY <1>0, <1>1 DEF ControlOK, Working, Requesting
<1>6. ShapeOK'
    BY SameForms DEF IndInv, ShapeOK, OnlyMasque
<1>7. CopiesOK'
    <2>1. ASSUME NEW i \in Saved \cup Identity, CopyOK(i),
                 i.dev = cur.dev => ~has_masque_credentials(i)
          PROVE  CopyOK(i)'
        <3>1. i.dev \in Devices
            BY <1>0, CopyTypes
        <3> QED
            BY <1>2, <2>1, <3>1 DEF CopyOK, has_masque_credentials, masque_cert_expiring
    <2>2. \A p \in Paths : disk'[p] \in Saved => CopyOK(disk[p])'
        BY <2>1, NoUsableCopy DEF IndInv, CopiesOK, Holds
    <2>3. \A n \in DOMAIN out' : CopyOK(out[n][1])'
        BY <1>0, <2>1, NoUsableCopy, CopyTypes DEF IndInv, CopiesOK
    <2>4. CopyOK(cur)'
        <3>1. clock \in Nat
            BY <1>0, CopyTypes
        <3> QED
            BY <1>0, <1>1, <1>2, <3>1 DEF CopyOK
    <2> QED
        BY <2>2, <2>3, <2>4 DEF CopiesOK
<1>8. OrderOK'
    <2>1. /\ \A p \in Paths : disk[p] \in Saved => disk[p].at <= clock
          /\ \A n \in DOMAIN out : out[n][1].at <= clock
        BY DEF IndInv, CopiesOK, CopyOK
    <2> QED
        BY <1>0, <1>1, <2>1 DEF IndInv, OrderOK, Newer
<1>9. OwnersOK'
    BY <1>0, <1>1, <1>3 DEF IndInv, OwnersOK, Holds
<1>10. TargetOK'
    BY <1>0, <1>1, <1>3 DEF IndInv, TargetOK, Working
<1>11. HandedOK'
    BY <1>0, <1>1, <1>3 DEF IndInv, HandedOK, Holds
<1> QED
    BY <1>4, <1>5, <1>6, <1>7, <1>8, <1>9, <1>10, <1>11 DEF IndInv

LEMMA EnrollInv == ASSUME IndInv, NEW o \in Outcomes, enroll(o) PROVE IndInv'
<1> DEFINE s == Send(o, Verdict(cur.dev))
<1>0. /\ pc = "enroll" /\ TypeOK /\ Account(s) /\ newkey \in Keys \cup {NoKey}
      /\ team' = team /\ keep' = keep /\ device' = device /\ disk' = disk /\ clock' = clock
      /\ enrolled' = IF o \in Handled /\ Verdict(cur.dev) = "ok"
                     THEN [enrolled EXCEPT ![cur.dev] = newkey] ELSE enrolled
    BY DEF enroll, IndInv, TypeOK
<1>1. /\ att' \in 0 .. Attempts + Fronts - 1 /\ rej' \in {"none", "refused", "other"}
      /\ s.res \in {"ok", "pending", "refused", "error"}
      /\ s.res = "ok" => o = "ok" /\ Verdict(cur.dev) = "ok"
      /\ s.res = "refused" \/ rej' = "refused" => device[cur.dev] = "refused"
      /\ s.res # "pending" => rej' = "none"
      /\ cur # None /\ cur \in Identity
    BY <1>0, Refusal
<1>2. /\ jobs # <<>> /\ Kind = "masque" /\ ~has_masque_credentials(cur) /\ cur.dev \in Devices
    BY <1>0, <1>1, AtWork, CopyTypes DEF IndInv, ControlOK
<1>3. /\ enrolled' \in [Devices -> Keys \cup {NoKey}]
      /\ \A d \in Devices : enrolled'[d] # enrolled[d] => pc = "enroll" /\ d = cur.dev
    BY <1>0, <1>2 DEF TypeOK
<1>4. \/ s.res = "pending" /\ UNCHANGED <<pc, jobs, cur, fresh, newkey, out>>
      \/ /\ s.res = "ok" /\ cur' = [cur EXCEPT !.key = newkey, !.at = clock]
         /\ pc' = (IF fresh /\ team THEN "adopt" ELSE "save")
         /\ newkey' = NoKey /\ UNCHANGED <<jobs, fresh, out>>
      \/ /\ s.res # "pending" /\ cert_still_usable(cur)
         /\ pc' = "save" /\ newkey' = NoKey /\ UNCHANGED <<jobs, cur, fresh, out>>
      \/ s.res # "pending" /\ Fail
    BY <1>1 DEF enroll
<1> HIDE DEF s
<1>5. CASE s.res = "pending" /\ UNCHANGED <<pc, jobs, cur, fresh, newkey, out>>
    <2>1. Less
        BY <1>0, <1>1, <1>3, <1>5, CopyTypes DEF Less
    <2>2. TypeOK'
        BY <1>0, <1>1, <1>3, <1>5 DEF TypeOK
    <2>3. ControlOK'
        BY <1>0, <1>1, <1>2, <1>5
        DEF ControlOK, Working, Requesting, Kind, has_masque_credentials, masque_cert_expiring
    <2>4. TargetOK'
        BY <1>0, <1>5, <2>1, TargetStays DEF Working
    <2> QED
        BY <1>5, <2>1, <2>2, <2>3, <2>4, StayInv DEF IndInv
<1>6. CASE /\ s.res = "ok" /\ cur' = [cur EXCEPT !.key = newkey, !.at = clock]
           /\ pc' = (IF fresh /\ team THEN "adopt" ELSE "save")
           /\ newkey' = NoKey /\ UNCHANGED <<jobs, fresh, out>>
    <2>1. enrolled' = [enrolled EXCEPT ![cur.dev] = newkey]
        BY <1>0, <1>1, <1>6 DEF Handled
    <2> QED
        BY <1>0, <1>1, <1>6, <2>1, EnrolledInv
<1>7. CASE /\ s.res # "pending" /\ cert_still_usable(cur)
           /\ pc' = "save" /\ newkey' = NoKey /\ UNCHANGED <<jobs, cur, fresh, out>>
    <2>1. Less
        BY <1>0, <1>1, <1>3, <1>7, CopyTypes DEF Less
    <2>2. TypeOK'
        BY <1>0, <1>1, <1>2, <1>3, <1>7 DEF TypeOK
    <2>3. ControlOK'
        BY <1>0, <1>1, <1>2, <1>7 DEF ControlOK, Working, Requesting, cert_still_usable
    <2>4. TargetOK'
        BY <1>0, <1>7, <2>1, TargetStays DEF Working
    <2> QED
        BY <1>7, <2>1, <2>2, <2>3, <2>4, StayInv DEF IndInv
<1>8. CASE s.res # "pending" /\ Fail
    <2>1. device' \in [Devices -> {"free", "accepted", "refused"}]
        BY <1>0 DEF TypeOK
    <2> QED
        BY <1>0, <1>1, <1>3, <1>8, <2>1, FailInv
<1> QED
    BY <1>4, <1>5, <1>6, <1>7, <1>8

LEMMA RefreshInv == ASSUME IndInv, NEW o \in Outcomes, refresh(o) PROVE IndInv'
<1> DEFINE s == Send(o, Verdict(cur.dev))
<1>0. /\ pc = "refresh" /\ TypeOK /\ Account(s)
      /\ team' = team /\ keep' = keep /\ device' = device /\ enrolled' = enrolled
      /\ disk' = disk /\ clock' = clock /\ jobs' = jobs /\ fresh' = fresh /\ out' = out
      /\ fresh /\ cur.key = NoKey
    BY DEF refresh, IndInv, service, ControlOK
<1>1. /\ att' \in 0 .. Attempts + Fronts - 1 /\ rej' \in {"none", "refused", "other"}
      /\ s.res = "refused" \/ rej' = "refused" => device[cur.dev] = "refused"
      /\ s.res # "pending" => rej' = "none"
      /\ cur # None /\ cur \in Identity /\ jobs # <<>>
    BY <1>0, Refusal, AtWork
<1>2. \/ s.res = "pending" /\ UNCHANGED <<pc, cur, newkey>>
      \/ /\ s.res # "pending" /\ cur' = [cur EXCEPT !.refused = s.res = "refused"]
         /\ Provisioned(cur)
    BY DEF refresh
<1> HIDE DEF s
<1>3. CASE s.res = "pending" /\ UNCHANGED <<pc, cur, newkey>>
    <2>1. Less
        BY <1>0, <1>1, <1>3, CopyTypes DEF Less
    <2>2. TypeOK'
        BY <1>0, <1>1, <1>3 DEF TypeOK
    <2>3. ControlOK'
        BY <1>0, <1>1, <1>3 DEF ControlOK, Working, Requesting
    <2>4. TargetOK'
        BY <1>0, <1>3, <2>1, TargetStays DEF Working
    <2> QED
        BY <1>0, <2>1, <2>2, <2>3, <2>4, StayInv DEF IndInv
<1>4. CASE /\ s.res # "pending" /\ cur' = [cur EXCEPT !.refused = s.res = "refused"]
           /\ Provisioned(cur)
    <2>1. /\ cur' \in Identity /\ cur' # None /\ cur'.dev = cur.dev /\ cur'.key = cur.key
          /\ cur'.at = cur.at
        <3>1. cur' \in Identity /\ cur'.dev = cur.dev /\ cur'.key = cur.key /\ cur'.at = cur.at
            BY <1>1, <1>4 DEF Identity
        <3> QED
            BY <3>1, FilesAssumption
    <2>2. \/ Kind = "masque" /\ pc' = "enroll" /\ newkey' \in Keys
          \/ Kind # "masque" /\ pc' \in {"adopt", "save"} /\ newkey' = newkey
        BY <1>4 DEF Provisioned, NewKeyPair
    <2>3. Less
        BY <1>0, <1>1, <2>1, CopyTypes DEF Less
    <2>4. TypeOK'
        BY <1>0, <1>1, <2>1, <2>2, ProvisioningAssumption DEF TypeOK
    <2>5. ControlOK'
        BY <1>0, <1>1, <1>4, <2>1, <2>2
        DEF ControlOK, Working, Requesting, Kind, has_masque_credentials
    <2>6. TargetOK'
        BY <1>0, <1>1, <2>1, <2>3, TargetStays DEF Working
    <2> QED
        BY <1>0, <2>3, <2>4, <2>5, <2>6, StayInv DEF IndInv
<1> QED
    BY <1>2, <1>3, <1>4

\* A device that was free: no copy of it exists but the one in hand.
LEMMA RegisteredInv ==
    ASSUME IndInv, pc = "register", NEW d \in Devices, device[d] = "free",
           device' = [device EXCEPT ![d] = "accepted"],
           cur' = [dev |-> d, key |-> NoKey, at |-> 0, refused |-> FALSE], fresh' = TRUE,
           \/ pc' = "refresh" /\ newkey' = newkey
           \/ Kind = "masque" /\ pc' = "enroll" /\ newkey' \in Keys
           \/ Kind # "masque" /\ pc' \in {"adopt", "save"} /\ newkey' = newkey,
           UNCHANGED <<jobs, out, team, keep, enrolled, disk, clock>>,
           att' \in 0 .. Attempts + Fronts - 1, rej' = "none"
    PROVE  IndInv'
<1>0. TypeOK /\ jobs # <<>> /\ cur = None /\ Path \in Paths
    BY AtWork DEF IndInv, ControlOK, Working
<1>1. /\ cur' \in Identity /\ cur' # None /\ cur'.dev = d /\ cur'.key = NoKey /\ cur'.at = 0
    <2>1. cur' \in Identity
        BY ProvisioningAssumption DEF Identity
    <2> QED
        BY <2>1, FilesAssumption
<1>2. /\ device' \in [Devices -> {"free", "accepted", "refused"}] /\ device'[d] = "accepted"
      /\ \A e \in Devices : e # d => device'[e] = device[e]
    BY <1>0 DEF TypeOK
<1>3. Kind' = Kind /\ Path' = Path /\ Pending' = Pending /\ M' = M
    BY DEF Kind, Path, Pending, M, config_path
<1>4. /\ \A p \in Paths : disk[p] \in Saved => disk[p].dev # d /\ disk[p].dev \in Devices
      /\ \A n \in DOMAIN out : out[n][1].dev # d /\ out[n][1].dev \in Devices
    BY <1>0, CopyTypes DEF IndInv, CopiesOK, CopyOK
<1>5. TypeOK'
    BY <1>0, <1>1, <1>2, ProvisioningAssumption DEF TypeOK
<1>6. ControlOK'
    BY <1>0, <1>1, <1>3 DEF ControlOK, Working, Requesting, has_masque_credentials
<1>7. ShapeOK'
    BY SameForms DEF IndInv, ShapeOK, OnlyMasque
<1>8. CopiesOK'
    <2>1. CopyOK(cur)'
        BY <1>0, <1>1, <1>2, CopyTypes DEF CopyOK, has_masque_credentials
    <2>2. \A p \in Paths : disk'[p] \in Saved => CopyOK(disk[p])'
        BY <1>2, <1>4 DEF IndInv, CopiesOK, CopyOK, has_masque_credentials, masque_cert_expiring
    <2>3. \A n \in DOMAIN out' : CopyOK(out[n][1])'
        BY <1>2, <1>4 DEF IndInv, CopiesOK, CopyOK, has_masque_credentials, masque_cert_expiring
    <2> QED
        BY <2>1, <2>2, <2>3 DEF CopiesOK
<1>9. OrderOK'
    BY <1>0, <1>1, <1>4 DEF IndInv, OrderOK, Newer
<1>10. OwnersOK'
    BY <1>0, <1>1, <1>4 DEF IndInv, OwnersOK, Holds
<1>11. TargetOK'
    <2> SUFFICES ASSUME disk[Path] \in Saved
                 PROVE  device'[disk[Path].dev] = "refused" \/ Kind = "temp"
        BY <1>3 DEF TargetOK
    <2>1. device[disk[Path].dev] = "refused" \/ Kind = "temp"
        BY <1>0 DEF IndInv, TargetOK
    <2> QED
        BY <1>0, <1>2, <1>4, <2>1
<1>12. HandedOK'
    <2>1. "inner" \in Paths
        BY DEF Paths
    <2>2. disk["inner"] \in Saved => device'[disk["inner"].dev] = device[disk["inner"].dev]
        BY <1>2, <1>4, <2>1
    <2> QED
        BY <1>1, <1>3, <1>4, <2>2 DEF IndInv, HandedOK, Holds
<1> QED
    BY <1>5, <1>6, <1>7, <1>8, <1>9, <1>10, <1>11, <1>12 DEF IndInv

LEMMA RegisterInv == ASSUME IndInv, NEW o \in Outcomes, register(o) PROVE IndInv'
<1> DEFINE s == Send(o, "ok")
<1>0. /\ pc = "register" /\ TypeOK /\ Account(s) /\ cur = None /\ jobs # <<>>
      /\ team' = team /\ keep' = keep /\ enrolled' = enrolled /\ disk' = disk /\ clock' = clock
      /\ rej # "refused"
    BY AtWork DEF register, IndInv, ControlOK, Working
<1>1. /\ att' \in 0 .. Attempts + Fronts - 1 /\ rej' \in {"none", "other"}
      /\ s.res \in {"ok", "pending", "refused", "error"}
      /\ s.res # "pending" => rej' = "none"
    BY <1>0, SendFacts
<1>2. /\ device' \in [Devices -> {"free", "accepted", "refused"}]
      /\ \A d \in Devices : /\ device'[d] = "free" => device[d] = "free"
                            /\ device[d] = "refused" => device'[d] = "refused"
    <2>1. CASE device' = device
        BY <1>0, <2>1 DEF TypeOK
    <2>2. CASE \E d \in Devices : device[d] = "free" /\ device' = [device EXCEPT ![d] = "accepted"]
        BY <1>0, <2>2 DEF TypeOK
    <2> QED
        BY <2>1, <2>2 DEF register
<1>3. \/ s.res = "pending" /\ UNCHANGED <<pc, jobs, cur, fresh, newkey, out>>
      \/ s.res # "pending" /\ Fail
      \/ \E d \in Devices :
            /\ device[d] = "free" /\ device' = [device EXCEPT ![d] = "accepted"]
            /\ s.res = "ok"
            /\ Registered([dev |-> d, key |-> NoKey, at |-> 0, refused |-> FALSE])
    BY DEF register
<1> HIDE DEF s
<1>4. CASE s.res = "pending" /\ UNCHANGED <<pc, jobs, cur, fresh, newkey, out>>
    <2>1. Less
        BY <1>0, <1>2, <1>4, CopyTypes DEF Less
    <2>2. TypeOK'
        BY <1>0, <1>1, <1>2, <1>4 DEF TypeOK
    <2>3. ControlOK'
        BY <1>0, <1>1, <1>4 DEF ControlOK, Working, Requesting
    <2>4. TargetOK'
        BY <1>0, <1>4, <2>1, TargetStays
    <2> QED
        BY <1>4, <2>1, <2>2, <2>3, <2>4, StayInv DEF IndInv
<1>5. CASE s.res # "pending" /\ Fail
    <2>1. enrolled' \in [Devices -> Keys \cup {NoKey}]
        BY <1>0 DEF TypeOK
    <2> QED
        BY <1>0, <1>1, <1>2, <1>5, <2>1, FailInv
<1>6. ASSUME NEW d \in Devices, device[d] = "free",
             device' = [device EXCEPT ![d] = "accepted"], s.res = "ok",
             Registered([dev |-> d, key |-> NoKey, at |-> 0, refused |-> FALSE])
      PROVE  IndInv'
    <2> DEFINE i == [dev |-> d, key |-> NoKey, at |-> 0, refused |-> FALSE]
    <2>1. CASE /\ cur' = i /\ fresh' = TRUE /\ UNCHANGED <<jobs, out>>
               /\ IF team THEN pc' = "refresh" /\ UNCHANGED newkey ELSE Provisioned(i)
        <3>1. \/ pc' = "refresh" /\ newkey' = newkey
              \/ Kind = "masque" /\ pc' = "enroll" /\ newkey' \in Keys
              \/ Kind # "masque" /\ pc' \in {"adopt", "save"} /\ newkey' = newkey
            BY <2>1 DEF Provisioned, NewKeyPair
        <3>2. rej' = "none"
            BY <1>1, <1>6
        <3> QED
            BY <1>0, <1>1, <1>6, <2>1, <3>1, <3>2, RegisteredInv
    <2>2. CASE Fail
        BY <1>5, <1>6, <2>2
    <2> QED
        BY <1>6, <2>1, <2>2 DEF Registered
<1> QED
    BY <1>3, <1>4, <1>5, <1>6

LEMMA LastOut ==
    ASSUME IndInv, Carries
    PROVE  /\ Len(out) \in DOMAIN out /\ out[Len(out)][2] = "inner" /\ pc = "up"
           /\ TypeOK /\ cur = None /\ jobs = <<>> /\ rej = "none" /\ Pending = {}
           /\ \A m \in DOMAIN out : m # Len(out) => out[m][2] = "masque"
<1>1. /\ pc = "up" /\ out[Len(out)][2] = "inner" /\ TypeOK /\ out # <<>> /\ cur = None
      /\ jobs = <<>> /\ rej = "none"
    BY DEF Carries, IndInv, ControlOK, Working, Requesting
<1>2. Len(out) \in DOMAIN out
    <2>1. out \in Seq(Identity \X Kinds)
        BY <1>1 DEF TypeOK
    <2> QED
        BY <1>1, <2>1
<1>3. Pending = {}
    BY <1>1 DEF Pending
<1> QED
    BY <1>1, <1>2, <1>3 DEF IndInv, ShapeOK

LEMMA RememberInv == ASSUME IndInv, remember PROVE IndInv'
<1> DEFINE n == Len(out)
           i == out[n][1]
<1>0. /\ n \in DOMAIN out /\ out[n][2] = "inner" /\ pc = "up" /\ TypeOK /\ cur = None
      /\ jobs = <<>> /\ rej = "none" /\ Pending = {}
      /\ \A m \in DOMAIN out : m # n => out[m][2] = "masque"
    BY LastOut DEF remember
<1>1. /\ disk' = [disk EXCEPT !["inner"] = persist(i)] /\ "inner" \in Paths
      /\ UNCHANGED <<team, keep, device, enrolled, clock, pc, jobs, cur, fresh, newkey,
                     att, rej, out>>
      /\ Pending' = Pending /\ M' = M
    BY DEF remember, service, request, Paths, Pending, M, config_path
<1>2. i \in Identity
    BY <1>0, CopyTypes
<1>3. /\ CopyOK(i)
      /\ \A p \in Paths : Holds(p, i.dev) => p = "inner"
      /\ \A m \in DOMAIN out : out[m][1].dev = i.dev => m = n
    BY <1>0 DEF IndInv, CopiesOK, HandedOK
<1> HIDE DEF n, i
<1>4. persist(i) \in Saved /\ persist(i).dev = i.dev /\ persist(i).key = i.key
      /\ persist(i).at = i.at /\ i.at \in Nat
    BY <1>0, <1>2, CopyTypes DEF Identity, Saved, persist
<1>5. /\ disk' \in [Paths -> Saved \cup {None, Damaged}] /\ disk'["inner"] = persist(i)
      /\ \A p \in Paths : p # "inner" => disk'[p] = disk[p]
    BY <1>0, <1>1, <1>4 DEF TypeOK
<1>6. TypeOK'
    BY <1>0, <1>1, <1>5 DEF TypeOK
<1>7. ControlOK' /\ TargetOK'
    BY <1>0, <1>1 DEF IndInv, ControlOK, TargetOK, Working, Requesting
<1>8. ShapeOK'
    BY <1>1, SameForms DEF IndInv, ShapeOK, OnlyMasque
<1>9. CopiesOK'
    <2>1. \A p \in Paths : disk'[p] \in Saved => CopyOK(disk[p])'
        BY <1>1, <1>3, <1>4, <1>5
        DEF IndInv, CopiesOK, CopyOK, has_masque_credentials, masque_cert_expiring
    <2>2. \A m \in DOMAIN out' : CopyOK(out[m][1])'
        BY <1>1 DEF IndInv, CopiesOK, CopyOK, has_masque_credentials, masque_cert_expiring
    <2> QED
        BY <1>0, <1>1, <2>1, <2>2 DEF CopiesOK
<1>10. OrderOK'
    <2>1. \A m \in DOMAIN out : out[m][1].dev = i.dev => out[m][1] = i
        BY <1>3 DEF i
    <2> QED
        BY <1>0, <1>1, <1>4, <1>5, <2>1 DEF IndInv, OrderOK, Newer
<1>11. OwnersOK'
    BY <1>0, <1>1, <1>3, <1>4, <1>5 DEF IndInv, OwnersOK, Holds
<1>12. HandedOK'
    <2>1. out[n][1] = i
        BY DEF i
    <2>2. \A p \in Paths : disk'[p] \in Saved /\ disk'[p].dev = i.dev => p = "inner"
        BY <1>3, <1>5 DEF Holds
    <2>3. \A m \in DOMAIN out : out[m][2] = "masque" =>
             /\ out[m][1].key # NoKey
             /\ \A p \in Paths : disk'[p] \in Saved /\ disk'[p].dev = out[m][1].dev => p = M
        <3> SUFFICES ASSUME NEW m \in DOMAIN out, out[m][2] = "masque"
                     PROVE  /\ out[m][1].key # NoKey
                            /\ \A p \in Paths :
                                  disk'[p] \in Saved /\ disk'[p].dev = out[m][1].dev => p = M
            OBVIOUS
        <3>1. m # n /\ out[m][1].dev # i.dev
            BY <1>0, <1>3
        <3> QED
            BY <1>4, <1>5, <3>1 DEF IndInv, HandedOK, Holds
    <2> QED
        BY <1>0, <1>1, <1>3, <1>4, <1>5, <2>1, <2>2, <2>3 DEF HandedOK, Holds
<1> QED
    BY <1>6, <1>7, <1>8, <1>9, <1>10, <1>11, <1>12 DEF IndInv

LEMMA RehopInv == ASSUME IndInv, rehop PROVE IndInv'
<1>0. /\ Len(out) \in DOMAIN out /\ pc = "up" /\ TypeOK /\ cur = None /\ rej = "none"
      /\ \A m \in DOMAIN out : m # Len(out) => out[m][2] = "masque"
    BY LastOut DEF rehop
<1>1. /\ pc' = "load" /\ jobs' = <<job("inner", "inner")>>
      /\ out' = SubSeq(out, 1, Len(out) - 1)
      /\ UNCHANGED <<team, keep, device, enrolled, disk, clock, cur, fresh, newkey, att, rej>>
    BY DEF rehop, service, request
<1>2. /\ out' \in Seq(Identity \X Kinds)
      /\ \A m \in DOMAIN out' : m \in DOMAIN out /\ out'[m] = out[m] /\ m # Len(out)
    <2>1. out \in Seq(Identity \X Kinds) /\ Len(out) \in Nat
        BY <1>0 DEF TypeOK
    <2> QED
        BY <1>0, <1>1, <2>1, SubSeqProperties
<1>3. OnlyMasque'
    BY <1>0, <1>2 DEF OnlyMasque
<1>4. Less
    BY <1>0, <1>1, <1>2, CopyTypes DEF Less
<1>5. jobs' \in Carried' /\ jobs' # <<>>
    BY <1>1, SameForms DEF Carried
<1>6. ShapeOK'
    BY <1>3, <1>5 DEF ShapeOK, OnlyMasque
<1>7. TypeOK'
    <2>1. jobs' \in Seq(Job)
        BY <1>1, <1>5, FormsTyped, SameForms
    <2> QED
        BY <1>0, <1>1, <1>2, <1>5, <2>1 DEF TypeOK
<1>8. ControlOK' /\ TargetOK'
    BY <1>0, <1>1, <1>5 DEF ControlOK, TargetOK, Working, Requesting
<1> QED
    BY <1>3, <1>4, <1>6, <1>7, <1>8, LessCopies, LessOwners, LessHanded DEF IndInv

LEMMA KillInv == ASSUME IndInv, kill PROVE IndInv'
<1>1. /\ Exit /\ att' = 0 /\ rej' = "none" /\ TypeOK
      /\ UNCHANGED <<team, keep, device, enrolled, disk, clock>>
      /\ cur' = None /\ pc' = "off" /\ DOMAIN out' = {}
    BY DEF kill, Exit, service, IndInv
<1>2. Less
    BY <1>1, CopyTypes DEF Less
<1>3. WorldTyped
    <2>1. att' \in 0 .. Attempts + Fronts - 1
        BY <1>1, ProvisioningAssumption
    <2> QED
        BY <1>1, <2>1 DEF WorldTyped, TypeOK
<1> QED
    BY <1>1, <1>2, <1>3, EndInv

\* Time passes, a device is refused, a file is damaged.
LEMMA WorldInv ==
    ASSUME IndInv, tick \/ (\E d \in Devices : refuse(d)) \/ (\E p \in Paths : damage(p))
    PROVE  IndInv'
<1>0. /\ UNCHANGED <<team, keep, enrolled, pc, jobs, cur, fresh, newkey, att, rej, out>>
      /\ TypeOK /\ Kind' = Kind /\ Path' = Path
    BY DEF tick, refuse, damage, service, request, IndInv, Kind, Path
<1>1. clock' \in 1 .. MaxTime /\ clock \in Nat /\ clock' \in Nat /\ clock <= clock'
    BY <1>0, ProvisioningAssumption DEF TypeOK, tick, refuse, damage
<1>2. /\ device' \in [Devices -> {"free", "accepted", "refused"}]
      /\ \A d \in Devices : /\ device'[d] = "free" => device[d] = "free"
                            /\ device[d] = "refused" => device'[d] = "refused"
    BY <1>0 DEF TypeOK, tick, refuse, damage, service
<1>3. /\ disk' \in [Paths -> Saved \cup {None, Damaged}]
      /\ \A p \in Paths : disk'[p] \in Saved => disk'[p] = disk[p]
    BY <1>0, FilesAssumption DEF TypeOK, tick, refuse, damage
<1>4. Less
    <2>1. pc = "adopt" => cur # None
        BY DEF IndInv, ControlOK, Working
    <2> QED
        BY <1>0, <1>1, <1>2, <1>3, <2>1 DEF Less
<1>5. TypeOK'
    BY <1>0, <1>1, <1>2, <1>3 DEF TypeOK
<1>6. ControlOK'
    <2>1. pc = "enroll" => ~has_masque_credentials(cur)'
        <3> SUFFICES ASSUME pc = "enroll" PROVE ~has_masque_credentials(cur)'
            OBVIOUS
        <3>1. cur \in Identity /\ cur.at \in Nat /\ cur.at <= clock /\ ~has_masque_credentials(cur)
              /\ Lifetime \in Nat /\ RenewBefore \in Nat
            BY <1>0, CopyTypes DEF IndInv, ControlOK, Working, CopiesOK, CopyOK
        <3> QED
            BY <1>0, <1>1, <3>1 DEF has_masque_credentials, masque_cert_expiring
    <2>2. rej = "refused" => cur # None /\ device'[cur.dev] = "refused"
        <3> SUFFICES ASSUME rej = "refused" PROVE cur # None /\ device'[cur.dev] = "refused"
            OBVIOUS
        <3>1. cur # None /\ device[cur.dev] = "refused"
            BY DEF IndInv, ControlOK
        <3>2. cur.dev \in Devices
            BY <1>0, <3>1, CopyTypes
        <3> QED
            BY <1>2, <3>1, <3>2
    <2> QED
        BY <1>0, <2>1, <2>2 DEF IndInv, ControlOK
<1>7. TargetOK'
    <2>1. CASE pc \in Working \cup {"signin", "register"}
        BY <1>0, <1>4, <2>1, TargetStays
    <2>2. CASE pc \notin Working \cup {"signin", "register"}
        BY <1>0, <2>2 DEF TargetOK, Working
    <2> QED
        BY <2>1, <2>2
<1> QED
    BY <1>0, <1>4, <1>5, <1>6, <1>7, StayInv DEF IndInv

LEMMA NextInv == IndInv /\ [Next]_vars => IndInv'
<1> SUFFICES ASSUME IndInv, [Next]_vars PROVE IndInv'
    OBVIOUS
<1>1. CASE UNCHANGED vars
    <2>1. /\ UNCHANGED <<team, keep, device, enrolled, disk, clock, pc, jobs, cur, fresh, newkey,
                         att, rej, out>>
          /\ TypeOK /\ Kind' = Kind /\ Path' = Path
        BY <1>1 DEF vars, service, request, IndInv, Kind, Path
    <2>2. Less
        <3>1. pc = "adopt" => cur # None
            BY DEF IndInv, ControlOK, Working
        <3> QED
            BY <2>1, <3>1, CopyTypes DEF Less
    <2>3. TypeOK'
        BY <2>1 DEF TypeOK
    <2>4. ControlOK' /\ TargetOK'
        BY <2>1 DEF IndInv, ControlOK, TargetOK, Working, Requesting,
           has_masque_credentials, masque_cert_expiring
    <2> QED
        BY <2>1, <2>2, <2>3, <2>4, StayInv DEF IndInv
<1>2. CASE Next
    BY <1>2, StartInv, LoadInv, TempInv, AdoptInv, EnrollInv, SigninInv, RegisterInv, RefreshInv,
       SaveInv, RememberInv, RehopInv, KillInv, WorldInv
    DEF Next, Undisturbed
<1> QED
    BY <1>1, <1>2

-----------------------------------------------------------------------------
(* The theorems.                                                             *)

THEOREM Invariance == Spec => []IndInv
BY InitInv, NextInv, PTL DEF Spec

\* Every variable keeps its type: in particular the attempts of a request end
\* with the last exchange of apifront::fetch.
THEOREM TypeCorrect == Spec => []TypeOK
<1>1. IndInv => TypeOK
    BY DEF IndInv
<1> QED
    BY <1>1, Invariance, PTL

\* No answer lost after the service handled an enrolment, and no kill before
\* the save, leaves a certificate that ensure_masque_enrolled would take
\* without asking and that is for another key than the service's.
THEOREM Current == Spec => []CredentialsCurrent
<1>1. IndInv => CredentialsCurrent
    BY DEF IndInv, CopiesOK, CopyOK, HandedOK, CredentialsCurrent
<1> QED
    BY <1>1, Invariance, PTL

\* The hops of warp-in-warp, and any two files, are of different devices,
\* also after the fallback of provision_warp_with_tunnel_fallback.
THEOREM Apart == Spec => []HopsDiffer
<1>1. IndInv => HopsDiffer
    BY DEF IndInv, OwnersOK, HandedOK, HopsDiffer
<1> QED
    BY <1>1, Invariance, PTL

-----------------------------------------------------------------------------
(* The files implement IdentityFile.                                         *)

Refused == {d \in Devices : device[d] = "refused"}
Fallback == jobs # <<>> /\ Kind = "temp"

LEMMA SameSaved == Store!Saved = Saved
BY DEF Store!Saved, Saved

LEMMA StoreInit == Init => Store!Init
<1> SUFFICES ASSUME Init PROVE Store!Init
    OBVIOUS
<1>1. IndInv /\ jobs = <<>>
    BY InitInv DEF Init
<1>2. disk \in [Paths -> Saved \cup {None, Damaged}]
      /\ \A p, q \in Paths :
            disk[p] \in Saved /\ disk[q] \in Saved /\ disk[p].dev = disk[q].dev => p = q
    BY <1>1 DEF IndInv, TypeOK, OwnersOK
<1>3. (\A p \in Paths : disk[p] # Damaged) /\ Refused = {}
    <2>1. CASE disk = [p \in Paths |-> None] /\ device = [d \in Devices |-> "free"]
        BY <2>1, FilesAssumption DEF Refused
    <2>2. ASSUME NEW d \in Devices, NEW k \in Keys,
                 disk = [p \in Paths |-> IF p = config_path("masque")
                                         THEN [dev |-> d, key |-> k, at |-> 0] ELSE None],
                 device = [e \in Devices |-> IF e = d THEN "accepted" ELSE "free"]
          PROVE  (\A p \in Paths : disk[p] # Damaged) /\ Refused = {}
        <3>1. [dev |-> d, key |-> k, at |-> 0] \in Saved
            BY ProvisioningAssumption DEF Saved
        <3>2. [dev |-> d, key |-> k, at |-> 0] # Damaged
            BY <3>1, FilesAssumption
        <3>3. \A p \in Paths : disk[p] \in {[dev |-> d, key |-> k, at |-> 0], None}
            BY <2>2
        <3> QED
            BY <2>2, <3>2, <3>3, FilesAssumption DEF Refused
    <2> QED
        BY <2>1, <2>2 DEF Init
<1>4. disk \in [Paths -> Saved \cup {None}]
    BY <1>2, <1>3
<1> QED
    BY <1>1, <1>2, <1>3, <1>4, SameSaved DEF Store!Init, Refused

\* A step that leaves the files and the refusals alone.
LEMMA StoreTurn ==
    ASSUME disk' = disk, Refused' = Refused PROVE Store!Next
BY DEF Store!Next, Store!Turn, Refused

\* A complete identity goes to the file at p, of a device that no other file
\* names; the old one is absent, damaged, the same device's or replaceable.
LEMMA StoreWrite ==
    ASSUME IndInv, NEW p \in Paths, NEW v \in Saved, disk' = [disk EXCEPT ![p] = v],
           Refused' = Refused,
           \A q \in Paths : Holds(q, v.dev) => q = p,
           disk[p] \in Saved => disk[p].dev = v.dev \/ device[disk[p].dev] = "refused" \/ Fallback
    PROVE  Store!Next
<1>0. disk \in [Paths -> Saved \cup {None, Damaged}] /\ v.dev \in Devices
    BY DEF IndInv, TypeOK, Saved
<1>1. disk'[p] = v /\ Store!Save(p)
    BY <1>0, SameSaved DEF Store!Save, Store!Put, Refused
<1>2. ~Holds(p, v.dev) => Store!SaveOther(p)
    BY <1>0, <1>1, SameSaved DEF Store!SaveOther, Store!Named, Holds
<1>3. Store!Create(p) \/ Store!Renew(p) \/ Store!Replace(p) \/ Store!Overwrite(p)
    <2>1. CASE disk[p] \notin Saved
        BY <1>0, <1>2, <2>1 DEF Store!Create, Holds
    <2>2. CASE disk[p] \in Saved /\ disk[p].dev = v.dev
        BY <1>1, <2>2, SameSaved DEF Store!Renew
    <2>3. CASE disk[p] \in Saved /\ disk[p].dev # v.dev
        <3>1. disk[p].dev \in Devices
            BY <2>3 DEF Saved
        <3> QED
            BY <1>2, <2>3, <3>1, SameSaved
            DEF Store!Replace, Store!Overwrite, Holds, Fallback
    <2> QED
        BY <2>1, <2>2, <2>3
<1> QED
    BY <1>3 DEF Store!Next

LEMMA StoreNext == IndInv /\ [Next]_vars => [Store!Next]_<<disk, Refused, Fallback>>
<1> SUFFICES ASSUME IndInv, [Next]_vars
             PROVE  Store!Next \/ UNCHANGED <<disk, Refused, Fallback>>
    OBVIOUS
<1>1. CASE UNCHANGED vars
    BY <1>1 DEF vars, service, Refused, Fallback, Kind
<1>2. CASE disk' = disk /\ Refused' = Refused
    BY <1>2, StoreTurn
<1>3. ASSUME load, disk' # disk PROVE Store!Next
    <2>1. /\ Path \in Paths /\ disk[Path] = Damaged /\ disk' = [disk EXCEPT ![Path] = None]
          /\ device' = device
        BY <1>3, AtWork DEF load, service
    <2>2. Store!Quarantine(Path)
        BY <2>1 DEF Store!Quarantine, Store!Put
    <2> QED
        BY <2>1, <2>2 DEF Store!Next
<1>4. ASSUME save PROVE Store!Next
    <2>1. /\ pc = "save" /\ Path \in Paths /\ device' = device /\ cur # None /\ cur \in Identity
          /\ jobs # <<>>
        BY <1>4, AtWork, CopyTypes DEF save, service, IndInv, ControlOK, Working
    <2>2. CASE disk' = [disk EXCEPT ![Path] = persist(cur)]
        <3>1. persist(cur) \in Saved /\ persist(cur).dev = cur.dev
            BY <2>1 DEF Identity, Saved, persist
        <3>2. \A q \in Paths : Holds(q, cur.dev) => q = Path
            BY <2>1 DEF IndInv, OwnersOK
        <3>3. disk[Path] \in Saved =>
                 disk[Path].dev = cur.dev \/ device[disk[Path].dev] = "refused" \/ Fallback
            BY <2>1 DEF IndInv, TargetOK, Working, Fallback
        <3>4. Refused' = Refused
            BY <2>1 DEF Refused
        <3> QED
            BY <2>1, <2>2, <3>1, <3>2, <3>3, <3>4, StoreWrite
    <2>3. CASE disk' = disk
        BY <2>1, <2>3, StoreTurn DEF Refused
    <2> QED
        BY <1>4, <2>2, <2>3 DEF save
<1>5. ASSUME remember PROVE Store!Next
    <2> DEFINE i == out[Len(out)][1]
    <2>1. /\ Len(out) \in DOMAIN out /\ out[Len(out)][2] = "inner" /\ TypeOK
          /\ disk' = [disk EXCEPT !["inner"] = persist(i)] /\ device' = device
          /\ "inner" \in Paths
        BY <1>5, LastOut DEF remember, service, Paths
    <2>2. i \in Identity
        BY <2>1, CopyTypes
    <2>3. persist(i) \in Saved /\ persist(i).dev = i.dev
        BY <2>2 DEF Identity, Saved, persist
    <2>4. /\ \A q \in Paths : Holds(q, i.dev) => q = "inner"
          /\ disk["inner"] \in Saved =>
                disk["inner"].dev = i.dev \/ device[disk["inner"].dev] = "refused"
        BY <2>1 DEF IndInv, HandedOK
    <2>5. Refused' = Refused
        BY <2>1 DEF Refused
    <2> HIDE DEF i
    <2> QED
        BY <2>1, <2>3, <2>4, <2>5, StoreWrite
<1>6. ASSUME NEW d \in Devices, refuse(d) PROVE Store!Next
    <2>1. /\ disk' = disk /\ device' = [device EXCEPT ![d] = "refused"] /\ jobs' = jobs
          /\ device \in [Devices -> {"free", "accepted", "refused"}]
        BY <1>6 DEF refuse, IndInv, TypeOK
    <2>2. Refused' = Refused \cup {d}
        BY <2>1 DEF Refused
    <2>3. Store!Refuse(d)
        BY <2>1, <2>2 DEF Store!Refuse, Refused
    <2> QED
        BY <2>1, <2>3 DEF Store!Next, Kind
<1>7. ASSUME NEW p \in Paths, damage(p) PROVE Store!Next
    <2>1. Store!Damage(p)
        BY <1>7, SameSaved DEF damage, service, Store!Damage, Store!Put
    <2> QED
        BY <2>1 DEF Store!Next
<1>8. ASSUME Next, ~save, ~remember, \A d \in Devices : ~refuse(d), \A p \in Paths : ~damage(p)
      PROVE  Store!Next
    <2>1. disk' = disk \/ load
        BY <1>8 DEF Next, Undisturbed, start, temp, signin, rehop, tick, adopt, enroll, register,
           refresh, kill
    <2>2. Refused' = Refused
        <3>1. CASE \E d \in Devices : device[d] = "free" /\ device' = [device EXCEPT ![d] = "accepted"]
            <4>1. device \in [Devices -> {"free", "accepted", "refused"}]
                BY DEF IndInv, TypeOK
            <4> QED
                BY <3>1, <4>1 DEF Refused
        <3>2. CASE device' = device
            BY <3>2 DEF Refused
        <3>3. CASE \E o \in Outcomes : register(o)
            BY <3>1, <3>2, <3>3 DEF register
        <3> QED
            BY <1>8, <3>2, <3>3 DEF Next, Undisturbed, start, load, temp, signin, rehop, tick, adopt,
               enroll, refresh, kill, service
    <2> QED
        BY <1>3, <2>1, <2>2, StoreTurn
<1> QED
    BY <1>1, <1>4, <1>5, <1>6, <1>7, <1>8

\* The identity files implement IdentityFile: whatever requests are lost or
\* rejected and wherever the engine is killed, a file goes from one complete
\* identity to another, and an accepted one is given up only by the fallback.
THEOREM StoreImplemented == Spec => StoreSpec
<1>1. IndInv /\ [Next]_vars =>
         [Store!Next]_<<disk, {d \in Devices : device[d] = "refused"}, jobs # <<>> /\ Kind = "temp">>
    BY StoreNext DEF Refused, Fallback
<1> QED
    BY <1>1, StoreInit, Invariance, PTL DEF Spec, StoreSpec, Store!Spec

=============================================================================
