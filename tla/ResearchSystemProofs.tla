------------------------ MODULE ResearchSystemProofs -------------------------
(***************************************************************************)
(* The deployment, the loads and the research cycle keep their promises,   *)
(* whatever the containers, migrations, companies, filings and strategies. *)
(*                                                                         *)
(* Each component has an inductive invariant of its own; a step of one     *)
(* leaves the variables of the others alone, and the worker's step needs   *)
(* of the others only that their tables are well typed.                    *)
(***************************************************************************)
EXTENDS ResearchSystem, SequenceTheorems, TLAPS

-----------------------------------------------------------------------------
\* What the deployment keeps: a migrating container will get to every file not
\* recorded yet, so a container past its migrations leaves none out; the file
\* it applies next is the smallest of them, so files are recorded in order.
DeployInv ==
  /\ DeployTypeOK
  /\ \A v \in Versions : applied[v] = IF v \in recorded THEN 1 ELSE 0
  /\ \A v \in recorded : 1 .. v \subseteq recorded
  /\ \A m \in Migrators :
       /\ stage[m] = "migrating" => Versions \ recorded \subseteq pending[m]
       /\ stage[m] \in {"seeding", "done"} => recorded = Versions
       /\ stage[m] = "done" => seeded

\* c is an element of the sequence s.
Among(c, s) == \E i \in 1 .. Len(s) : s[i] = c

\* All that the job promises to load of the company c is there.
LoadedOf(c) ==
  /\ c \in linked
  /\ {f \in Source(job) : f.company = c /\ f.filed <= since} \subseteq stored[job]

\* What the loads keep: a job is done with every company that is not ahead of
\* it any more; a document at hand is of the company at the head, who is linked,
\* and holds all it had filed when the job began.  While bars are loaded no job
\* runs; later the SEC jobs not yet tried are ahead.
LoadsInv ==
  /\ LoadsTypeOK
  /\ since <= today
  /\ job = "none" => document = {}
  /\ document # {} =>
       /\ left # << >> /\ Head(left) \in linked
       /\ document \subseteq Published(job, Head(left))
       /\ {f \in Source(job) : f.company = Head(left) /\ f.filed <= since} \subseteq document
  /\ job # "none" => \A c \in Registered : Among(c, left) \/ LoadedOf(c)
  /\ boot = "bars" => job = "none"
  /\ boot = "sec" /\ HasUserAgent => \A j \in Jobs : j \in tried \/ Among(j, steps)

\* What the cycle keeps.  Between two strategies nothing is at hand; what is at
\* hand is honest for the session scored, and at publication on record.  A
\* strategy that is not ahead any more was published or raised; the clock is
\* set only while the worker sleeps, and only if none is left over.
WorkerInv ==
  /\ WorkerTypeOK
  /\ phase \in {"asleep", "choose"} => section = << >>
  /\ phase \in {"read", "publish"} => todo # << >> /\ Head(todo) \in Known
  /\ HonestSection(section, asOf)
  /\ PointInTime
  /\ phase = "publish" =>
       \A c \in DOMAIN section : <<c, Head(todo), asOf>> \in DOMAIN scoreRows
  /\ phase # "asleep" =>
       due /\ \A s \in Known : Among(s, todo) \/ s \in out \cup raised
  /\ HourlyClockMeansRanked

SystemInv == DeployInv /\ LoadsInv /\ WorkerInv

-----------------------------------------------------------------------------
\* The deployment.
LEMMA DeployInitInv ==
  ASSUME DeployInit
  PROVE  DeployInv
BY DeploymentConstants DEF DeployInit, DeployInv, DeployTypeOK, Versions

\* The smallest pending file: every earlier one is recorded.
LEMMA NextPendingInOrder ==
  ASSUME DeployInv, NEW m \in Migrators, stage[m] = "migrating", NEW v \in NextPending(m)
  PROVE  v \in Versions /\ \A u \in 1 .. v : u = v \/ u \in recorded
<1>1. pending[m] \subseteq Versions /\ v \in pending[m] /\ v \in 1 .. LastVersion
  BY DEF DeployInv, DeployTypeOK, NextPending, Versions
<1>2. SUFFICES ASSUME NEW u \in 1 .. v, u # v
               PROVE  u \in recorded
  BY <1>1
<1>3. u \in Versions /\ u < v
  BY <1>1, <1>2, DeploymentConstants DEF Versions
<1>4. u \notin pending[m]
  BY <1>1, <1>3, DeploymentConstants DEF NextPending, Versions
<1> QED BY <1>3, <1>4 DEF DeployInv

LEMMA ApplyPendingInv ==
  ASSUME DeployInv, NEW m \in Migrators, ApplyPending(m)
  PROVE  DeployInv'
<1>1. PICK v \in NextPending(m) \ recorded :
        /\ recorded' = recorded \cup {v}
        /\ applied' = [applied EXCEPT ![v] = @ + 1]
        /\ pending' = [pending EXCEPT ![m] = @ \ {v}]
  BY DEF ApplyPending
<1>2. stage[m] = "migrating" /\ stage' = stage /\ seeded' = seeded
  BY DEF ApplyPending
<1>3. v \in Versions /\ \A u \in 1 .. v : u = v \/ u \in recorded
  BY <1>1, <1>2, NextPendingInOrder
<1>4. applied[v] = 0
  BY <1>1, <1>3 DEF DeployInv
<1>5. DeployTypeOK'
  BY <1>1, <1>2, <1>3 DEF DeployInv, DeployTypeOK
<1>6. \A u \in Versions : applied'[u] = IF u \in recorded' THEN 1 ELSE 0
  BY <1>1, <1>3, <1>4 DEF DeployInv, DeployTypeOK
<1>7. \A u \in recorded' : 1 .. u \subseteq recorded'
  BY <1>1, <1>3 DEF DeployInv
<1>8. \A n \in Migrators : stage'[n] = "migrating" => Versions \ recorded' \subseteq pending'[n]
  BY <1>1, <1>2 DEF DeployInv, DeployTypeOK
<1>9. \A n \in Migrators : stage'[n] \in {"seeding", "done"} => recorded' = Versions
  BY <1>1, <1>2, <1>3 DEF DeployInv
<1>10. \A n \in Migrators : stage'[n] = "done" => seeded'
  BY <1>2 DEF DeployInv
<1> QED BY <1>5, <1>6, <1>7, <1>8, <1>9, <1>10 DEF DeployInv

LEMMA DeployNextInv ==
  ASSUME DeployInv, DeployNext
  PROVE  DeployInv'
<1>1. PICK m \in Migrators : \/ StartMigrator(m) \/ ApplyPending(m) \/ MigrationsDone(m)
                             \/ Seed(m) \/ MigratorFails(m)
  BY DEF DeployNext
<1>2. CASE StartMigrator(m)
  BY <1>2 DEF StartMigrator, DeployInv, DeployTypeOK
<1>3. CASE ApplyPending(m)
  BY <1>3, ApplyPendingInv
<1>4. CASE MigrationsDone(m)
  <2>1. recorded = Versions
    BY <1>4 DEF MigrationsDone, DeployInv, DeployTypeOK
  <2> QED BY <1>4, <2>1 DEF MigrationsDone, DeployInv, DeployTypeOK
<1>5. CASE Seed(m)
  BY <1>5 DEF Seed, DeployInv, DeployTypeOK
<1>6. CASE MigratorFails(m)
  BY <1>6 DEF MigratorFails, DeployInv, DeployTypeOK
<1> QED BY <1>1, <1>2, <1>3, <1>4, <1>5, <1>6

LEMMA DeployUnchangedInv ==
  ASSUME DeployInv, UNCHANGED deployVars
  PROVE  DeployInv'
BY DEF DeployInv, DeployTypeOK, deployVars

-----------------------------------------------------------------------------
\* What is among the elements of a sequence is its head or among its tail.
LEMMA AmongTail ==
  ASSUME NEW S, NEW s \in Seq(S), s # << >>
  PROVE  /\ Head(s) \in S /\ Tail(s) \in Seq(S)
         /\ \A c : Among(c, s) => c = Head(s) \/ Among(c, Tail(s))
<1>1. /\ Head(s) \in S /\ Head(s) = s[1] /\ Tail(s) \in Seq(S)
      /\ Len(s) \in Nat /\ Len(Tail(s)) = Len(s) - 1
      /\ \A i \in 1 .. Len(Tail(s)) : Tail(s)[i] = s[i + 1]
  BY HeadTailProperties, LenProperties
<1>2. ASSUME NEW c, NEW i \in 1 .. Len(s), s[i] = c, c # Head(s)
      PROVE  Among(c, Tail(s))
  <2>1. i # 1 /\ i - 1 \in 1 .. Len(Tail(s))
    BY <1>1, <1>2
  <2>2. Tail(s)[i - 1] = c
    BY <1>1, <1>2, <2>1
  <2> QED BY <2>1, <2>2 DEF Among
<1> QED BY <1>1, <1>2 DEF Among

LEMMA NoneAmongEmpty ==
  \A c : ~ Among(c, << >>)
BY DEF Among

LEMMA AmongCompanies ==
  Companies \in Seq(CompanySet) /\ \A c \in CompanySet : Among(c, Companies)
<1>1. DOMAIN Companies = 1 .. Len(Companies)
  BY LoadConstants, LenProperties
<1> QED BY <1>1, LoadConstants DEF CompanySet, Range, Among

\* What a job saves is of its own kind.
LEMMA SourceKinds ==
  /\ Source("fundamentals") = Filings /\ Source("events") = Submissions
  /\ \A j \in Jobs : \A f \in Source(j) : IsFiling(f)
BY LoadConstants DEF Source, Jobs

LEMMA LoadsInitInv ==
  ASSUME LoadsInit
  PROVE  LoadsInv
<1>1. LoadsTypeOK
  BY LoadConstants, EmptySeq DEF LoadsInit, LoadsTypeOK, Days, Jobs
<1> QED BY <1>1 DEF LoadsInit, LoadsInv

LEMMA DayPassesInv ==
  ASSUME LoadsInv, DayPasses
  PROVE  LoadsInv'
<1>1. today' = today + 1 /\ today \in Nat /\ since \in Nat /\ today' \in Days
  BY LoadConstants DEF DayPasses, LoadsInv, LoadsTypeOK, Days
<1>2. /\ linked' = linked /\ stored' = stored /\ job' = job /\ left' = left
      /\ document' = document /\ since' = since /\ dailyBars' = dailyBars
      /\ boot' = boot /\ steps' = steps /\ tried' = tried
  BY DEF DayPasses, jobVars
<1>3. LoadsTypeOK'
  BY <1>1, <1>2 DEF LoadsInv, LoadsTypeOK
<1>4. since' <= today'
  BY <1>1, <1>2 DEF LoadsInv
<1>5. ASSUME document # {}
      PROVE  Published(job, Head(left)) \subseteq Published(job, Head(left))'
  <2>1. job \in Jobs
    BY <1>5 DEF LoadsInv, LoadsTypeOK
  <2>2. \A f \in Source(job) : f.filed \in Nat
    BY <2>1, SourceKinds DEF IsFiling, Days
  <2>3. \A f \in Source(job) : f.filed <= today => f.filed <= today'
    BY <1>1, <2>2
  <2> QED BY <1>2, <2>3 DEF Published, Source
<1>6. \A c : LoadedOf(c) => LoadedOf(c)'
  BY <1>2 DEF LoadedOf, Source
<1>7. document' # {} =>
        /\ left' # << >> /\ Head(left') \in linked'
        /\ document' \subseteq Published(job, Head(left))'
        /\ {f \in Source(job)' : f.company = Head(left') /\ f.filed <= since'} \subseteq document'
  BY <1>2, <1>5 DEF LoadsInv, Source
<1>8. job' # "none" => \A c \in Registered : Among(c, left') \/ LoadedOf(c)'
  BY <1>2, <1>6 DEF LoadsInv
<1> QED BY <1>2, <1>3, <1>4, <1>7, <1>8 DEF LoadsInv

LEMMA DailyBackfillInv ==
  ASSUME LoadsInv, DailyBackfill
  PROVE  LoadsInv'
<1>1. /\ linked' = linked /\ stored' = stored /\ job' = job /\ left' = left
      /\ document' = document /\ since' = since /\ today' = today
      /\ boot' = boot /\ steps' = steps /\ tried' = tried /\ job = "none" /\ boot = "idle"
  BY DEF DailyBackfill, jobVars
<1>2. dailyBars' \in [CompanySet -> SUBSET Days]
  <2>1. PICK some \in SUBSET CompanySet :
          dailyBars' = [c \in CompanySet |-> dailyBars[c] \cup {d \in {today} : c \in some}]
    BY DEF DailyBackfill
  <2> QED BY <2>1 DEF LoadsInv, LoadsTypeOK
<1>3. LoadsTypeOK'
  BY <1>1, <1>2 DEF LoadsInv, LoadsTypeOK
<1> QED BY <1>1, <1>3 DEF LoadsInv

\* A job that begins has all companies ahead of it, and no document.
LEMMA LaunchInv ==
  ASSUME LoadsInv, NEW j \in Jobs, job = "none", boot # "bars", Launch(j),
         UNCHANGED <<today, dailyBars, boot>>,
         steps' \in Seq(Jobs), tried' \subseteq Jobs,
         boot = "sec" /\ HasUserAgent => \A k \in Jobs : k \in tried' \/ Among(k, steps')
  PROVE  LoadsInv'
<1>1. /\ job' = j /\ left' = Companies /\ since' = today /\ linked' = linked
      /\ stored' = stored /\ document' = document /\ document = {}
  BY DEF Launch, LoadsInv
<1>2. today \in Nat
  BY DEF LoadsInv, LoadsTypeOK, Days
<1>3. LoadsTypeOK'
  BY <1>1, AmongCompanies DEF LoadsInv, LoadsTypeOK
<1>4. \A c \in Registered : Among(c, left')
  BY <1>1, AmongCompanies, LoadConstants
<1> QED BY <1>1, <1>2, <1>3, <1>4 DEF LoadsInv, Jobs

\* The steps of a running job.  While one runs the bootstrap loads no bars.
LEMMA JobStepInv ==
  ASSUME LoadsInv, job # "none", UNCHANGED <<today, dailyBars, boot, tried, steps>>,
         LoadsTypeOK', since' <= today',
         job' = "none" => document' = {},
         document' # {} =>
           /\ left' # << >> /\ Head(left') \in linked'
           /\ document' \subseteq Published(job, Head(left))'
           /\ {f \in Source(job)' : f.company = Head(left') /\ f.filed <= since'} \subseteq document',
         job' # "none" => \A c \in Registered : Among(c, left') \/ LoadedOf(c)'
  PROVE  LoadsInv'
BY DEF LoadsInv

LEMMA SkipUnregisteredInv ==
  ASSUME LoadsInv, SkipUnregistered, UNCHANGED <<today, dailyBars, boot, tried, steps>>
  PROVE  LoadsInv'
<1>1. /\ job # "none" /\ left # << >> /\ Head(left) \notin Registered
      /\ left' = Tail(left) /\ linked' = linked /\ stored' = stored /\ job' = job
      /\ document' = document /\ since' = since /\ today' = today
  BY DEF SkipUnregistered
<1>2. left' \in Seq(CompanySet) /\ \A c : Among(c, left) => c = Head(left) \/ Among(c, left')
  BY <1>1, AmongTail DEF LoadsInv, LoadsTypeOK
<1>3. document = {}
  BY <1>1 DEF LoadsInv, LoadsTypeOK
<1>4. LoadsTypeOK'
  BY <1>1, <1>2 DEF LoadsInv, LoadsTypeOK
<1>5. \A c \in Registered : Among(c, left') \/ LoadedOf(c)'
  BY <1>1, <1>2 DEF LoadsInv, LoadedOf, Source
<1> QED BY <1>1, <1>3, <1>4, <1>5, JobStepInv DEF LoadsInv

\* A day lies between what a job has to load and what SEC has published.
LEMMA SinceIsPublished ==
  ASSUME LoadsInv, NEW j \in Jobs
  PROVE  \A c : {f \in Source(j) : f.company = c /\ f.filed <= since} \subseteq Published(j, c)
<1>1. \A f \in Source(j) : f.filed \in Nat
  BY SourceKinds DEF IsFiling, Days
<1>2. since \in Nat /\ today \in Nat /\ since <= today
  BY DEF LoadsInv, LoadsTypeOK, Days
<1> QED BY <1>1, <1>2 DEF Published

LEMMA FetchDocumentInv ==
  ASSUME LoadsInv, FetchDocument, UNCHANGED <<today, dailyBars, boot, tried, steps>>
  PROVE  LoadsInv'
<1>1. /\ job # "none" /\ left # << >> /\ Head(left) \in Registered
      /\ linked' = linked \cup {Head(left)} /\ document' = Published(job, Head(left))
      /\ stored' = stored /\ job' = job /\ left' = left /\ since' = since /\ today' = today
  BY DEF FetchDocument
<1>2. job \in Jobs
  BY <1>1 DEF LoadsInv, LoadsTypeOK
<1>3. document' \subseteq Filings \cup Submissions
  BY <1>1, <1>2, SourceKinds DEF Published, Jobs
<1>4. LoadsTypeOK'
  BY <1>1, <1>3 DEF LoadsInv, LoadsTypeOK
<1>5. Published(job, Head(left))' = document' /\ Source(job)' = Source(job)
  BY <1>1 DEF Published, Source
<1>6. {f \in Source(job) : f.company = Head(left) /\ f.filed <= since} \subseteq document'
  BY <1>1, <1>2, SinceIsPublished
<1>7. \A c \in Registered : Among(c, left') \/ LoadedOf(c)'
  BY <1>1 DEF LoadsInv, LoadedOf, Source
<1> QED BY <1>1, <1>4, <1>5, <1>6, <1>7, JobStepInv DEF LoadsInv

LEMMA FetchNothingInv ==
  ASSUME LoadsInv, FetchNothing, UNCHANGED <<today, dailyBars, boot, tried, steps>>
  PROVE  LoadsInv'
<1>1. /\ job # "none" /\ left # << >> /\ Head(left) \in Registered
      /\ Published(job, Head(left)) = {}
      /\ linked' = linked \cup {Head(left)} /\ left' = Tail(left)
      /\ stored' = stored /\ job' = job /\ document' = document /\ since' = since
      /\ today' = today
  BY DEF FetchNothing
<1>2. job \in Jobs
  BY <1>1 DEF LoadsInv, LoadsTypeOK
<1>3. left' \in Seq(CompanySet) /\ \A c : Among(c, left) => c = Head(left) \/ Among(c, left')
  BY <1>1, AmongTail DEF LoadsInv, LoadsTypeOK
<1>4. document = {}
  BY <1>1 DEF LoadsInv
<1>5. LoadsTypeOK'
  BY <1>1, <1>3 DEF LoadsInv, LoadsTypeOK
<1>6. \A c : c = Head(left) => LoadedOf(c)'
  <2>1. {f \in Source(job) : f.company = Head(left) /\ f.filed <= since} = {}
    BY <1>1, <1>2, SinceIsPublished
  <2> QED BY <1>1, <2>1 DEF LoadedOf, Source
<1>7. \A c : LoadedOf(c) => LoadedOf(c)'
  BY <1>1 DEF LoadedOf, Source
<1>8. \A c \in Registered : Among(c, left') \/ LoadedOf(c)'
  BY <1>1, <1>3, <1>6, <1>7 DEF LoadsInv
<1> QED BY <1>1, <1>4, <1>5, <1>8, JobStepInv DEF LoadsInv

LEMMA SaveDocumentInv ==
  ASSUME LoadsInv, SaveDocument, UNCHANGED <<today, dailyBars, boot, tried, steps>>
  PROVE  LoadsInv'
<1>1. /\ document # {} /\ document' = {} /\ left' = Tail(left)
      /\ stored' = [stored EXCEPT ![job] = @ \cup document]
      /\ linked' = linked /\ job' = job /\ since' = since /\ today' = today
  BY DEF SaveDocument
<1>2. /\ job \in Jobs /\ job # "none" /\ left # << >> /\ Head(left) \in linked
      /\ document \subseteq Source(job)
      /\ {f \in Source(job) : f.company = Head(left) /\ f.filed <= since} \subseteq document
  BY <1>1 DEF LoadsInv, LoadsTypeOK, Published
<1>3. left' \in Seq(CompanySet) /\ \A c : Among(c, left) => c = Head(left) \/ Among(c, left')
  BY <1>1, <1>2, AmongTail DEF LoadsInv, LoadsTypeOK
<1>4. /\ DOMAIN stored = Jobs /\ DOMAIN stored' = Jobs
      /\ stored'[job] = stored[job] \cup document
      /\ \A j \in Jobs : j # job => stored'[j] = stored[j]
  BY <1>1, <1>2 DEF LoadsInv, LoadsTypeOK
<1>5. stored'["fundamentals"] \subseteq Filings /\ stored'["events"] \subseteq Submissions
  BY <1>2, <1>4, SourceKinds DEF LoadsInv, LoadsTypeOK, Jobs
<1>6. LoadsTypeOK'
  BY <1>1, <1>3, <1>4, <1>5 DEF LoadsInv, LoadsTypeOK
<1>7. \A c : c = Head(left) => LoadedOf(c)'
  BY <1>1, <1>2, <1>4 DEF LoadedOf, Source
<1>8. \A c : LoadedOf(c) => LoadedOf(c)'
  BY <1>1, <1>4 DEF LoadedOf, Source
<1>9. \A c \in Registered : Among(c, left') \/ LoadedOf(c)'
  BY <1>2, <1>3, <1>7, <1>8 DEF LoadsInv
<1> QED BY <1>1, <1>2, <1>6, <1>9, JobStepInv DEF LoadsInv

\* The end of a job, however it comes.
LEMMA JobEndsInv ==
  ASSUME LoadsInv, job # "none", JobEnds,
         UNCHANGED <<linked, stored, steps, today, dailyBars, boot, tried>>
  PROVE  LoadsInv'
<1>1. /\ job' = "none" /\ left' = << >> /\ document' = {} /\ since' = 0
      /\ linked' = linked /\ stored' = stored /\ steps' = steps /\ today' = today
      /\ dailyBars' = dailyBars /\ boot' = boot /\ tried' = tried
  BY DEF JobEnds
<1>2. LoadsTypeOK' /\ since' <= today'
  BY <1>1, LoadConstants DEF LoadsInv, LoadsTypeOK, Days
<1> QED BY <1>1, <1>2, JobStepInv

LEMMA JobNextInv ==
  ASSUME LoadsInv, JobNext
  PROVE  LoadsInv'
<1>1. UNCHANGED <<today, dailyBars, boot, tried>>
  BY DEF JobNext
<1>2. CASE SkipUnregistered /\ UNCHANGED steps
  BY <1>1, <1>2, SkipUnregisteredInv
<1>3. CASE FetchDocument /\ UNCHANGED steps
  BY <1>1, <1>3, FetchDocumentInv
<1>4. CASE FetchNothing /\ UNCHANGED steps
  BY <1>1, <1>4, FetchNothingInv
<1>5. CASE SaveDocument /\ UNCHANGED steps
  BY <1>1, <1>5, SaveDocumentInv
<1>6. CASE FinishJob
  BY <1>1, <1>6, JobEndsInv DEF FinishJob
<1>7. CASE JobFails
  BY <1>1, <1>7, JobEndsInv DEF JobFails
<1> QED BY <1>2, <1>3, <1>4, <1>5, <1>6, <1>7 DEF JobNext

\* The bootstrap.
LEMMA StartBootstrapInv ==
  ASSUME LoadsInv, NEW force \in BOOLEAN, StartBootstrap(force)
  PROVE  LoadsInv'
<1>1. /\ job = "none" /\ boot' = "bars" /\ left' = Companies /\ since' = today /\ tried' = {}
      /\ today' = today /\ dailyBars' = dailyBars /\ linked' = linked /\ stored' = stored
      /\ job' = job /\ document' = document /\ steps' = steps
  BY DEF StartBootstrap
<1>2. today \in Nat /\ document = {}
  BY <1>1 DEF LoadsInv, LoadsTypeOK, Days
<1>3. LoadsTypeOK'
  BY <1>1, AmongCompanies DEF LoadsInv, LoadsTypeOK
<1> QED BY <1>1, <1>2, <1>3 DEF LoadsInv

LEMMA LoadHistoryInv ==
  ASSUME LoadsInv, LoadHistory
  PROVE  LoadsInv'
<1>1. /\ boot = "bars" /\ left # << >> /\ left' = Tail(left)
      /\ today' = today /\ linked' = linked /\ stored' = stored /\ job' = job
      /\ document' = document /\ since' = since /\ boot' = boot /\ steps' = steps
      /\ tried' = tried
  BY DEF LoadHistory
<1>2. job = "none" /\ document = {}
  BY <1>1 DEF LoadsInv
<1>3. left' \in Seq(CompanySet)
  BY <1>1, AmongTail DEF LoadsInv, LoadsTypeOK
<1>4. dailyBars' \in [CompanySet -> SUBSET Days]
  <2>1. PICK last \in -1 .. since :
          dailyBars' = [dailyBars EXCEPT ![Head(left)] = @ \cup 0 .. last]
    BY DEF LoadHistory
  <2>2. 0 .. last \subseteq Days
    BY <2>1, LoadConstants DEF LoadsInv, LoadsTypeOK, Days
  <2> QED BY <2>1, <2>2 DEF LoadsInv, LoadsTypeOK
<1>5. LoadsTypeOK'
  BY <1>1, <1>3, <1>4 DEF LoadsInv, LoadsTypeOK
<1> QED BY <1>1, <1>2, <1>5 DEF LoadsInv

\* All SEC jobs are ahead when the bars are loaded.
LEMMA HistoryLoadedInv ==
  ASSUME LoadsInv, HistoryLoaded
  PROVE  LoadsInv'
<1>1. /\ boot = "bars" /\ left = << >> /\ boot' = "sec" /\ since' = 0 /\ steps' = SecSteps
      /\ today' = today /\ dailyBars' = dailyBars /\ linked' = linked /\ stored' = stored
      /\ job' = job /\ left' = left /\ document' = document /\ tried' = tried
  BY DEF HistoryLoaded
<1>2. job = "none" /\ document = {}
  BY <1>1 DEF LoadsInv
<1>3. SecSteps \in Seq(Jobs)
  <2>1. "fundamentals" \in Jobs /\ "events" \in Jobs
    BY DEF Jobs
  <2>2. <<"fundamentals", "events">> \in Seq(Jobs)
    BY <2>1
  <2>3. << >> \in Seq(Jobs)
    OBVIOUS
  <2> QED BY <2>2, <2>3 DEF SecSteps
<1>4. HasUserAgent => \A j \in Jobs : Among(j, SecSteps)
  <2>1. ASSUME HasUserAgent
        PROVE  Len(SecSteps) = 2 /\ SecSteps[1] = "fundamentals" /\ SecSteps[2] = "events"
    BY <2>1 DEF SecSteps
  <2> QED BY <2>1 DEF Jobs, Among
<1>5. LoadsTypeOK' /\ since' <= today'
  BY <1>1, <1>3, LoadConstants DEF LoadsInv, LoadsTypeOK, Days
<1> QED BY <1>1, <1>2, <1>4, <1>5 DEF LoadsInv

LEMMA BootstrapFailsInv ==
  ASSUME LoadsInv, BootstrapFails
  PROVE  LoadsInv'
<1>1. /\ boot' = "idle" /\ steps' = << >> /\ tried' = {} /\ job' = "none" /\ left' = << >>
      /\ document' = {} /\ since' = 0 /\ today' = today /\ dailyBars' = dailyBars
      /\ linked' = linked /\ stored' = stored
  BY DEF BootstrapFails, JobEnds
<1>2. LoadsTypeOK' /\ since' <= today'
  BY <1>1, LoadConstants DEF LoadsInv, LoadsTypeOK, Days
<1> QED BY <1>1, <1>2 DEF LoadsInv

LEMMA NextSecStepInv ==
  ASSUME LoadsInv, NextSecStep
  PROVE  LoadsInv'
<1>1. /\ boot = "sec" /\ job = "none" /\ steps # << >> /\ Launch(Head(steps))
      /\ tried' = tried \cup {Head(steps)} /\ steps' = Tail(steps)
      /\ UNCHANGED <<today, dailyBars, boot>>
  BY DEF NextSecStep
<1>2. /\ Head(steps) \in Jobs /\ steps' \in Seq(Jobs)
      /\ \A j : Among(j, steps) => j = Head(steps) \/ Among(j, steps')
  BY <1>1, AmongTail DEF LoadsInv, LoadsTypeOK
<1>3. tried' \subseteq Jobs
  BY <1>1, <1>2 DEF LoadsInv, LoadsTypeOK
<1>4. HasUserAgent => \A k \in Jobs : k \in tried' \/ Among(k, steps')
  BY <1>1, <1>2 DEF LoadsInv
<1> QED BY <1>1, <1>2, <1>3, <1>4, LaunchInv

LEMMA BootstrapDoneInv ==
  ASSUME LoadsInv, BootstrapDone
  PROVE  LoadsInv'
<1>1. /\ boot' = "idle" /\ tried' = {} /\ job = "none"
      /\ today' = today /\ dailyBars' = dailyBars /\ linked' = linked /\ stored' = stored
      /\ job' = job /\ left' = left /\ document' = document /\ since' = since /\ steps' = steps
  BY DEF BootstrapDone, EndOfBootstrap, jobVars
<1>2. LoadsTypeOK'
  BY <1>1 DEF LoadsInv, LoadsTypeOK
<1> QED BY <1>1, <1>2 DEF LoadsInv

LEMMA StartJobInv ==
  ASSUME LoadsInv, NEW j \in Jobs, StartJob(j)
  PROVE  LoadsInv'
<1>1. /\ job = "none" /\ boot = "idle" /\ Launch(j)
      /\ UNCHANGED <<today, dailyBars, boot>> /\ steps' = steps /\ tried' = tried
  BY DEF StartJob
<1>2. steps' \in Seq(Jobs) /\ tried' \subseteq Jobs
  BY <1>1 DEF LoadsInv, LoadsTypeOK
<1> QED BY <1>1, <1>2, LaunchInv

LEMMA LoadsNextInv ==
  ASSUME LoadsInv, LoadsNext
  PROVE  LoadsInv'
BY DayPassesInv, DailyBackfillInv, StartJobInv, JobNextInv, StartBootstrapInv, LoadHistoryInv,
   HistoryLoadedInv, BootstrapFailsInv, NextSecStepInv, BootstrapDoneInv DEF LoadsNext

LEMMA LoadsUnchangedInv ==
  ASSUME LoadsInv, UNCHANGED loadVars
  PROVE  LoadsInv'
<1>1. /\ linked' = linked /\ stored' = stored /\ job' = job /\ left' = left
      /\ document' = document /\ since' = since /\ dailyBars' = dailyBars
      /\ boot' = boot /\ steps' = steps /\ tried' = tried /\ today' = today
  BY DEF loadVars, jobVars
<1>2. LoadsTypeOK'
  BY <1>1 DEF LoadsInv, LoadsTypeOK
<1> QED BY <1>1, <1>2 DEF LoadsInv, LoadedOf, Published, Source

\* A job that has no company left has loaded them all.
LEMMA LoadsInvPromises ==
  ASSUME LoadsInv
  PROVE  LoadsTypeOK /\ CompletedLoadIsComplete /\ SecStepsAreTried
<1>1. CompletedLoadIsComplete
  <2>1. SUFFICES ASSUME job # "none", left = << >>
                 PROVE  /\ Registered \subseteq linked
                        /\ {f \in Source(job) : f.filed <= since} \subseteq stored[job]
    BY DEF CompletedLoadIsComplete
  <2>2. \A c \in Registered : LoadedOf(c)
    BY <2>1, NoneAmongEmpty DEF LoadsInv
  <2>3. \A f \in Source(job) : f.company \in Registered
    BY <2>1, SourceKinds DEF LoadsInv, LoadsTypeOK, IsFiling
  <2> QED BY <2>2, <2>3 DEF LoadedOf
<1>2. SecStepsAreTried
  <2>1. SUFFICES ASSUME EndOfBootstrap, HasUserAgent
                 PROVE  tried = Jobs
    BY DEF SecStepsAreTried
  <2> QED BY <2>1, NoneAmongEmpty DEF EndOfBootstrap, LoadsInv, LoadsTypeOK
<1> QED BY <1>1, <1>2 DEF LoadsInv

-----------------------------------------------------------------------------
\* What an overlay holds.
LEMMA OverlayFacts ==
  ASSUME NEW f, NEW g
  PROVE  /\ DOMAIN Overlay(f, g) = DOMAIN f \cup DOMAIN g
         /\ \A x \in DOMAIN f : Overlay(f, g)[x] = f[x]
         /\ \A x \in DOMAIN g \ DOMAIN f : Overlay(f, g)[x] = g[x]
BY DEF Overlay

\* The filings of a company that count on a day are its own, were filed by
\* then, and are one of each period: the last one filed.
LEMMA FiguresFacts ==
  ASSUME LoadsTypeOK, NEW c, NEW day \in Days
  PROVE  /\ Figures(c, day) \subseteq Filings
         /\ \A f \in Figures(c, day) :
              /\ f.company = c /\ f.filed <= day
              /\ \A g \in Figures(c, day) : g.period = f.period => g = f
<1>1. stored["fundamentals"] \subseteq Filings
  BY DEF LoadsTypeOK
<1>2. Figures(c, day) \subseteq Counting(c, stored["fundamentals"], day)
  BY DEF Figures
<1>3. /\ Counting(c, stored["fundamentals"], day) \subseteq Filings
      /\ \A f \in Counting(c, stored["fundamentals"], day) : f.company = c /\ f.filed <= day
      /\ \A f, g \in Counting(c, stored["fundamentals"], day) :
           g.period = f.period => g.filed <= f.filed
  BY <1>1 DEF Counting
<1>4. ASSUME NEW f \in Figures(c, day), NEW g \in Figures(c, day), g.period = f.period
      PROVE  g = f
  <2>1. /\ f.filed \in Nat /\ g.filed \in Nat
        /\ f = [company |-> f.company, period |-> f.period, filed |-> f.filed]
        /\ g = [company |-> g.company, period |-> g.period, filed |-> g.filed]
    BY <1>2, <1>3, LoadConstants DEF IsFiling, Days
  <2>2. g.filed <= f.filed /\ f.filed <= g.filed
    BY <1>2, <1>3, <1>4
  <2>3. g.filed = f.filed /\ g.company = f.company
    BY <1>2, <1>3, <2>1, <2>2
  <2> QED BY <1>4, <2>1, <2>3
<1> QED BY <1>2, <1>3, <1>4

\* Reading one more company keeps a section honest.
LEMMA SectionWithFacts ==
  ASSUME LoadsTypeOK, asOf \in Days, IsSection(section), HonestSection(section, asOf),
         NEW c \in CompanySet
  PROVE  IsSection(SectionWith(c)) /\ HonestSection(SectionWith(c), asOf)
<1>1. CASE SectionWith(c) = section
  BY <1>1
<1>2. CASE SectionWith(c) # section
  <2> DEFINE one == [d \in {c} |-> Figures(c, asOf)]
  <2>1. SectionWith(c) = Overlay(section, one)
    BY <1>2 DEF SectionWith
  <2>2. DOMAIN one = {c} /\ one[c] = Figures(c, asOf)
    OBVIOUS
  <2> HIDE DEF one
  <2>3. /\ DOMAIN SectionWith(c) = DOMAIN section \cup {c}
        /\ \A d \in DOMAIN section : SectionWith(c)[d] = section[d]
        /\ c \notin DOMAIN section => SectionWith(c)[c] = Figures(c, asOf)
    <3>1. /\ DOMAIN Overlay(section, one) = DOMAIN section \cup DOMAIN one
          /\ \A x \in DOMAIN section : Overlay(section, one)[x] = section[x]
          /\ \A x \in DOMAIN one \ DOMAIN section : Overlay(section, one)[x] = one[x]
      BY OverlayFacts
    <3> QED BY <2>1, <2>2, <3>1
  <2>4. IsSection(SectionWith(c))
    BY <2>3, FiguresFacts DEF IsSection
  <2>5. ASSUME NEW d \in DOMAIN SectionWith(c), NEW f \in SectionWith(c)[d]
        PROVE  /\ f.company = d /\ f.filed <= asOf
               /\ \A g \in SectionWith(c)[d] : g.period = f.period => g = f
    <3>1. CASE d \in DOMAIN section
      BY <2>3, <2>5, <3>1 DEF HonestSection
    <3>2. CASE d \notin DOMAIN section
      <4>1. d = c /\ SectionWith(c)[d] = Figures(c, asOf)
        BY <2>3, <3>2
      <4> QED BY <2>5, <4>1, FiguresFacts
    <3> QED BY <3>1, <3>2
  <2> QED BY <2>4, <2>5 DEF HonestSection
<1> QED BY <1>1, <1>2

LEMMA EmptySection ==
  \A day : IsSection(<< >>) /\ HonestSection(<< >>, day)
BY DEF IsSection, HonestSection

LEMMA AmongStrategies ==
  /\ Strategies \in Seq(Range(Strategies))
  /\ \A s \in Known : Among(s, Strategies)
<1>1. DOMAIN Strategies = 1 .. Len(Strategies)
  BY ResearchConstants, LenProperties
<1> QED BY <1>1, ResearchConstants DEF Range, Among

LEMMA WorkerInitInv ==
  ASSUME WorkerInit
  PROVE  WorkerInv
<1>1. WorkerTypeOK
  BY EmptySection, LoadConstants DEF WorkerInit, WorkerTypeOK, Days
<1> QED BY <1>1, EmptySection DEF WorkerInit, WorkerInv, PointInTime, HourlyClockMeansRanked

LEMMA WorkerUnchangedInv ==
  ASSUME WorkerInv, UNCHANGED workerVars
  PROVE  WorkerInv'
<1>1. /\ phase' = phase /\ asOf' = asOf /\ due' = due /\ todo' = todo /\ priced' = priced
      /\ reading' = reading /\ section' = section /\ scoreRows' = scoreRows
      /\ rankCache' = rankCache /\ out' = out /\ raised' = raised
  BY DEF workerVars, rankVars, tableVars
<1> QED BY <1>1 DEF WorkerInv, WorkerTypeOK, PointInTime, HourlyClockMeansRanked


\* The steps of the cycle.
LEMMA HourPassesInv ==
  ASSUME WorkerInv, HourPasses
  PROVE  WorkerInv'
<1>1. /\ phase = "asleep" /\ phase' = phase /\ due' = TRUE /\ out' = {} /\ raised' = {}
      /\ asOf' = asOf /\ todo' = todo /\ priced' = priced /\ reading' = reading
      /\ section' = section /\ scoreRows' = scoreRows /\ rankCache' = rankCache
  BY DEF HourPasses, rankVars, tableVars
<1>2. WorkerTypeOK'
  BY <1>1 DEF WorkerInv, WorkerTypeOK
<1> QED BY <1>1, <1>2 DEF WorkerInv, PointInTime, HourlyClockMeansRanked

LEMMA WakeUpInv ==
  ASSUME LoadsTypeOK, WorkerInv, WakeUp
  PROVE  WorkerInv'
<1>1. /\ phase = "asleep" /\ due /\ asOf' \in NewestBar /\ phase' = "choose"
      /\ todo' = Strategies /\ due' = due /\ out' = out /\ raised' = raised
      /\ priced' = priced /\ reading' = reading /\ section' = section
      /\ scoreRows' = scoreRows /\ rankCache' = rankCache
  BY DEF WakeUp, rankVars, tableVars
<1>2. asOf' \in Days
  BY <1>1 DEF NewestBar, BarDays, LoadsTypeOK
<1>3. WorkerTypeOK'
  BY <1>1, <1>2, AmongStrategies DEF WorkerInv, WorkerTypeOK
<1>4. section' = << >>
  BY <1>1 DEF WorkerInv
<1> QED BY <1>1, <1>3, <1>4, AmongStrategies, EmptySection
        DEF WorkerInv, PointInTime, HourlyClockMeansRanked

\* The strategy at the head is done with: what is among the others is left.
LEMMA TodoTail ==
  ASSUME WorkerInv, todo # << >>
  PROVE  /\ Tail(todo) \in Seq(Range(Strategies))
         /\ \A s : Among(s, todo) => s = Head(todo) \/ Among(s, Tail(todo))
BY AmongTail DEF WorkerInv, WorkerTypeOK

LEMMA UnknownStrategyInv ==
  ASSUME WorkerInv, UnknownStrategy
  PROVE  WorkerInv'
<1>1. /\ phase = "choose" /\ todo # << >> /\ Head(todo) \notin Known /\ todo' = Tail(todo)
      /\ phase' = phase /\ asOf' = asOf /\ due' = due /\ out' = out /\ raised' = raised
      /\ priced' = priced /\ reading' = reading /\ section' = section
      /\ scoreRows' = scoreRows /\ rankCache' = rankCache
  BY DEF UnknownStrategy, rankVars, tableVars
<1>2. WorkerTypeOK'
  BY <1>1, TodoTail DEF WorkerInv, WorkerTypeOK
<1>3. \A s \in Known : Among(s, todo') \/ s \in out \cup raised
  BY <1>1, TodoTail DEF WorkerInv
<1> QED BY <1>1, <1>2, <1>3 DEF WorkerInv, PointInTime, HourlyClockMeansRanked

LEMMA ReadPricesInv ==
  ASSUME WorkerInv, ReadPrices
  PROVE  WorkerInv'
<1>1. /\ phase = "choose" /\ todo # << >> /\ Head(todo) \in Known /\ phase' = "read"
      /\ priced' \subseteq CompanySet /\ reading' = Companies
      /\ todo' = todo /\ asOf' = asOf /\ due' = due /\ out' = out /\ raised' = raised
      /\ section' = section /\ scoreRows' = scoreRows /\ rankCache' = rankCache
  BY DEF ReadPrices, tableVars
<1>2. WorkerTypeOK'
  BY <1>1, AmongCompanies DEF WorkerInv, WorkerTypeOK
<1> QED BY <1>1, <1>2 DEF WorkerInv, PointInTime, HourlyClockMeansRanked

LEMMA ReadCompanyInv ==
  ASSUME LoadsTypeOK, WorkerInv, ReadCompany
  PROVE  WorkerInv'
<1>1. /\ phase = "read" /\ reading # << >> /\ reading' = Tail(reading)
      /\ section' = SectionWith(Head(reading))
      /\ phase' = phase /\ asOf' = asOf /\ due' = due /\ todo' = todo /\ priced' = priced
      /\ scoreRows' = scoreRows /\ rankCache' = rankCache /\ out' = out /\ raised' = raised
  BY DEF ReadCompany, tableVars
<1>2. Head(reading) \in CompanySet /\ reading' \in Seq(CompanySet)
  BY <1>1, AmongTail DEF WorkerInv, WorkerTypeOK
<1>3. IsSection(section') /\ HonestSection(section', asOf)
  BY <1>1, <1>2, SectionWithFacts DEF WorkerInv, WorkerTypeOK
<1>4. WorkerTypeOK'
  BY <1>1, <1>2, <1>3 DEF WorkerInv, WorkerTypeOK
<1> QED BY <1>1, <1>3, <1>4 DEF WorkerInv, PointInTime, HourlyClockMeansRanked


\* The rows of a section are of its strategy and session, and honest as it is;
\* rows that were there stay as they were.
LEMMA SaveResearchScoresInv ==
  ASSUME WorkerInv, SaveResearchScores
  PROVE  WorkerInv'
<1> DEFINE rows == (DOMAIN section) \X {Head(todo)} \X {asOf}
           new == [k \in rows |-> section]
<1>1. /\ phase = "read" /\ scoreRows' = Overlay(scoreRows, new) /\ phase' = "publish"
      /\ asOf' = asOf /\ due' = due /\ todo' = todo /\ priced' = priced
      /\ reading' = reading /\ section' = section /\ rankCache' = rankCache
      /\ out' = out /\ raised' = raised
  BY DEF SaveResearchScores, rankVars
<1>2. DOMAIN new = rows /\ \A k \in rows : new[k] = section
  OBVIOUS
<1>3. \A k \in rows : k \in CompanySet \X Known \X Days /\ k[3] = asOf
  BY <1>1 DEF WorkerInv, WorkerTypeOK, IsSection
<1>4. \A c \in DOMAIN section : <<c, Head(todo), asOf>> \in rows
  OBVIOUS
<1> HIDE DEF rows, new
<1>5. /\ DOMAIN scoreRows' = DOMAIN scoreRows \cup rows
      /\ \A k \in DOMAIN scoreRows : scoreRows'[k] = scoreRows[k]
      /\ \A k \in rows \ DOMAIN scoreRows : scoreRows'[k] = section
  <2>1. /\ DOMAIN Overlay(scoreRows, new) = DOMAIN scoreRows \cup DOMAIN new
        /\ \A k \in DOMAIN scoreRows : Overlay(scoreRows, new)[k] = scoreRows[k]
        /\ \A k \in DOMAIN new \ DOMAIN scoreRows : Overlay(scoreRows, new)[k] = new[k]
    BY OverlayFacts
  <2> QED BY <1>1, <1>2, <2>1
<1>6. IsSection(section) /\ HonestSection(section, asOf)
  BY DEF WorkerInv, WorkerTypeOK
<1>7. WorkerTypeOK'
  <2>1. \A k \in DOMAIN scoreRows' :
          k \in CompanySet \X Known \X Days /\ IsSection(scoreRows'[k])
    BY <1>3, <1>5, <1>6 DEF WorkerInv, WorkerTypeOK
  <2> QED BY <1>1, <2>1 DEF WorkerInv, WorkerTypeOK
<1>8. PointInTime'
  BY <1>1, <1>3, <1>5, <1>6 DEF WorkerInv, PointInTime
<1>9. HourlyClockMeansRanked'
  BY <1>1, <1>5 DEF WorkerInv, HourlyClockMeansRanked
<1>10. \A c \in DOMAIN section' : <<c, Head(todo'), asOf'>> \in DOMAIN scoreRows'
  BY <1>1, <1>4, <1>5
<1> QED BY <1>1, <1>7, <1>8, <1>9, <1>10 DEF WorkerInv

\* A strategy leaves the head of the list, published or raised.
LEMMA StrategyDone ==
  ASSUME WorkerInv, phase \in {"read", "publish"},
         phase' = "choose", todo' = Tail(todo), Clear, asOf' = asOf, due' = due,
         scoreRows' = scoreRows, WorkerTypeOK',
         out \subseteq out', raised \subseteq raised', Head(todo) \in out' \cup raised',
         \A s \in DOMAIN rankCache' :
           /\ HonestSection(rankCache'[s].section, rankCache'[s].asOf)
           /\ \A c \in DOMAIN rankCache'[s].section :
                <<c, s, rankCache'[s].asOf>> \in DOMAIN scoreRows
  PROVE  WorkerInv'
<1>1. due /\ section' = << >>
  BY DEF WorkerInv, Clear
<1>2. \A s \in Known : Among(s, todo') \/ s \in out' \cup raised'
  BY TodoTail DEF WorkerInv
<1>3. PointInTime'
  BY DEF WorkerInv, PointInTime
<1>4. HourlyClockMeansRanked'
  BY <1>1 DEF HourlyClockMeansRanked
<1> QED BY <1>1, <1>2, <1>3, <1>4, EmptySection DEF WorkerInv

LEMMA RankRaisesInv ==
  ASSUME WorkerInv, RankRaises
  PROVE  WorkerInv'
<1>1. /\ phase = "read" /\ raised' = raised \cup {Head(todo)} /\ phase' = "choose"
      /\ todo' = Tail(todo) /\ Clear /\ asOf' = asOf /\ due' = due /\ out' = out
      /\ scoreRows' = scoreRows /\ rankCache' = rankCache
  BY DEF RankRaises, tableVars
<1>2. todo # << >> /\ Head(todo) \in Known
  BY <1>1 DEF WorkerInv
<1>3. WorkerTypeOK'
  BY <1>1, <1>2, TodoTail, EmptySection DEF WorkerInv, WorkerTypeOK, Clear
<1>4. \A s \in DOMAIN rankCache' :
        /\ HonestSection(rankCache'[s].section, rankCache'[s].asOf)
        /\ \A c \in DOMAIN rankCache'[s].section :
             <<c, s, rankCache'[s].asOf>> \in DOMAIN scoreRows
  BY <1>1 DEF WorkerInv, PointInTime, HourlyClockMeansRanked
<1> QED BY <1>1, <1>2, <1>3, <1>4, StrategyDone

\* What is published is the section at hand, whose rows are on record.
LEMMA PublishResearchInv ==
  ASSUME WorkerInv, PublishResearch
  PROVE  WorkerInv'
<1>1. /\ phase = "publish" /\ out' = out \cup {Head(todo)} /\ phase' = "choose"
      /\ rankCache' = IF DOMAIN section = {} THEN rankCache ELSE Overlay(Ranks, rankCache)
      /\ todo' = Tail(todo) /\ Clear /\ asOf' = asOf /\ due' = due /\ raised' = raised
      /\ scoreRows' = scoreRows
  BY DEF PublishResearch
<1>2. /\ todo # << >> /\ Head(todo) \in Known /\ asOf \in Days
      /\ IsSection(section) /\ HonestSection(section, asOf)
      /\ \A c \in DOMAIN section : <<c, Head(todo), asOf>> \in DOMAIN scoreRows
  BY <1>1 DEF WorkerInv, WorkerTypeOK
<1>3. /\ DOMAIN rankCache' \subseteq DOMAIN rankCache \cup {Head(todo)}
      /\ \A s \in DOMAIN rankCache' :
           \/ s \in DOMAIN rankCache /\ rankCache'[s] = rankCache[s]
           \/ s = Head(todo) /\ rankCache'[s] = [asOf |-> asOf, section |-> section]
  <2>1. DOMAIN Ranks = {Head(todo)} /\ Ranks[Head(todo)] = [asOf |-> asOf, section |-> section]
    BY DEF Ranks
  <2>2. /\ DOMAIN Overlay(Ranks, rankCache) = DOMAIN Ranks \cup DOMAIN rankCache
        /\ \A s \in DOMAIN Ranks : Overlay(Ranks, rankCache)[s] = Ranks[s]
        /\ \A s \in DOMAIN rankCache \ DOMAIN Ranks :
             Overlay(Ranks, rankCache)[s] = rankCache[s]
    BY OverlayFacts
  <2> QED BY <1>1, <2>1, <2>2
<1>4. \A s \in DOMAIN rankCache' :
        s \in Known /\ rankCache'[s].asOf \in Days /\ IsSection(rankCache'[s].section)
  BY <1>2, <1>3 DEF WorkerInv, WorkerTypeOK
<1>5. WorkerTypeOK'
  BY <1>1, <1>2, <1>4, TodoTail, EmptySection DEF WorkerInv, WorkerTypeOK, Clear
<1>6. \A s \in DOMAIN rankCache' :
        /\ HonestSection(rankCache'[s].section, rankCache'[s].asOf)
        /\ \A c \in DOMAIN rankCache'[s].section :
             <<c, s, rankCache'[s].asOf>> \in DOMAIN scoreRows
  BY <1>2, <1>3 DEF WorkerInv, PointInTime, HourlyClockMeansRanked
<1> QED BY <1>1, <1>2, <1>5, <1>6, StrategyDone

\* No strategy is ahead: each existing one was published or raised.
LEMMA CycleEndsInv ==
  ASSUME WorkerInv, CycleEnds
  PROVE  WorkerInv'
<1>1. /\ phase = "choose" /\ todo = << >> /\ phase' = "asleep" /\ asOf' = 0 /\ due' = FALSE
      /\ todo' = todo /\ priced' = priced /\ reading' = reading /\ section' = section
      /\ scoreRows' = scoreRows /\ rankCache' = rankCache /\ out' = out /\ raised' = raised
  BY DEF CycleEnds, rankVars, tableVars
<1>2. Known \subseteq out \cup raised /\ section = << >>
  BY <1>1, NoneAmongEmpty DEF WorkerInv
<1>3. WorkerTypeOK'
  <2>1. asOf' \in Days
    BY <1>1, LoadConstants DEF Days
  <2> QED BY <1>1, <2>1 DEF WorkerInv, WorkerTypeOK
<1> QED BY <1>1, <1>2, <1>3, EmptySection DEF WorkerInv, PointInTime, HourlyClockMeansRanked

LEMMA CycleStopsInv ==
  ASSUME WorkerInv, CycleStops
  PROVE  WorkerInv'
<1>1. /\ phase # "asleep" /\ phase' = "asleep" /\ asOf' = 0 /\ todo' = << >>
      /\ out' = {} /\ raised' = {} /\ priced' = {} /\ reading' = << >> /\ section' = << >>
      /\ due' = due /\ scoreRows' = scoreRows /\ rankCache' = rankCache
  BY DEF CycleStops, Clear, tableVars
<1>2. due
  BY <1>1 DEF WorkerInv
<1>3. WorkerTypeOK'
  <2>1. asOf' \in Days /\ todo' \in Seq(Range(Strategies)) /\ reading' \in Seq(CompanySet)
    BY <1>1, LoadConstants, EmptySeq DEF Days
  <2> QED BY <1>1, <2>1, EmptySection DEF WorkerInv, WorkerTypeOK
<1> QED BY <1>1, <1>2, <1>3, EmptySection DEF WorkerInv, PointInTime, HourlyClockMeansRanked

LEMMA WorkerNextInv ==
  ASSUME LoadsTypeOK, WorkerInv, WorkerNext
  PROVE  WorkerInv'
BY HourPassesInv, WakeUpInv, UnknownStrategyInv, ReadPricesInv, ReadCompanyInv,
   SaveResearchScoresInv, RankRaisesInv, PublishResearchInv, CycleEndsInv, CycleStopsInv
   DEF WorkerNext, WorkerStep, WorkerFails

-----------------------------------------------------------------------------
\* The system: whichever component takes a step, the others stand still.
LEMMA SystemNextInv ==
  ASSUME SystemInv, [SystemNext]_systemVars
  PROVE  SystemInv'
<1>1. CASE DeployNext /\ UNCHANGED <<loadVars, workerVars>>
  BY <1>1, DeployNextInv, LoadsUnchangedInv, WorkerUnchangedInv DEF SystemInv
<1>2. CASE LoadsNext /\ UNCHANGED <<deployVars, workerVars>>
  BY <1>2, DeployUnchangedInv, LoadsNextInv, WorkerUnchangedInv DEF SystemInv
<1>3. CASE WorkerNext /\ UNCHANGED <<deployVars, loadVars>>
  <2>1. LoadsTypeOK
    BY DEF SystemInv, LoadsInv
  <2> QED BY <1>3, <2>1, DeployUnchangedInv, LoadsUnchangedInv, WorkerNextInv DEF SystemInv
<1>4. CASE UNCHANGED systemVars
  BY <1>4, DeployUnchangedInv, LoadsUnchangedInv, WorkerUnchangedInv DEF SystemInv, systemVars
<1> QED BY <1>1, <1>2, <1>3, <1>4 DEF SystemNext

\* The three components keep what they promise each other, however their steps
\* interleave and wherever one stops (storage/migrate.py, bootstrap.py, worker.py).
THEOREM SystemInvariant == SystemSpec => []SystemInv
<1>1. SystemInit => SystemInv
  BY DeployInitInv, LoadsInitInv, WorkerInitInv DEF SystemInit, SystemInv
<1>2. SystemInv /\ [SystemNext]_systemVars => SystemInv'
  BY SystemNextInv
<1> QED BY <1>1, <1>2, PTL DEF SystemSpec

=============================================================================
