------------------------ MODULE ArbostarImportProofs ------------------------
(***************************************************************************)
(* What holds of the import whatever the exports say, however many runs     *)
(* there are, and wherever they crash: a photo that is marked as uploaded   *)
(* has its object, what was made in the app stays, and projects keep their  *)
(* past.  The bounds MaxRuns and MaxAppSteps play no part.                  *)
(***************************************************************************)
EXTENDS ArbostarImport, FiniteSetTheorems, SequenceTheorems, TLAPS

(***************************************************************************)
(* Sequences, numbers and new ids                                          *)
(***************************************************************************)

(* What is appended comes last.                                            *)
LEMMA AppendedIsLast ==
  ASSUME NEW T, NEW s \in Seq(T), NEW d \in T
  PROVE  Append(s, d) \in Seq(T) /\ Last(Append(s, d)) = d
<1> DEFINE t == Append(s, d)
<1>1. t \in Seq(T) /\ Len(t) = Len(s) + 1 /\ t[Len(s) + 1] = d
  BY AppendProperties
<1> QED BY <1>1 DEF Last

LEMMA SingletonIsLast ==
  ASSUME NEW T, NEW s \in Seq(T), NEW d \in T
  PROVE  s \o <<d>> \in Seq(T) /\ Last(s \o <<d>>) = d
<1> DEFINE t == <<d>>
           u == s \o t
<1>1. t \in Seq(T) /\ Len(t) = 1 /\ t[1] = d OBVIOUS
<1> HIDE DEF t
<1>2. u \in Seq(T) /\ Len(u) = Len(s) + 1 /\ u[Len(s) + 1] = d
  BY <1>1, ConcatProperties
<1> QED BY <1>2 DEF Last, t

(* A number of the set that none exceeds is its largest.                   *)
LEMMA LargestNumber ==
  ASSUME NEW S \in SUBSET Nat, NEW m \in S, \A y \in S : y <= m
  PROVE  Max(S) = m
<1>1. m \in Nat /\ \A y \in S : m >= y OBVIOUS
<1>2. Max(S) \in S /\ \A y \in S : Max(S) >= y BY <1>1 DEF Max
<1>3. Max(S) >= m /\ m >= Max(S) BY <1>1, <1>2
<1>4. Max(S) \in Nat BY <1>2
<1> HIDE DEF Max
<1> QED BY <1>1, <1>3, <1>4

(* The library's order of a finite set leaves no member out.               *)
LEMMA OrderOfASet ==
  ASSUME NEW S, IsFiniteSet(S)
  PROVE  /\ Cardinality(S) \in Nat
         /\ SetToSeq(S) \in [1..Cardinality(S) -> S]
         /\ \A x \in S : \E k \in 1..Cardinality(S) : SetToSeq(S)[k] = x
<1> DEFINE n == Cardinality(S)
           o == SetToSeq(S)
<1>1. n \in Nat BY FS_CardinalityType
<1>2. PICK f : f \in Bijection(1..n, S) BY FS_CardinalityType DEF ExistsBijection
<1>3. f \in [1..n -> S] /\ IsInjective(f) BY <1>2 DEF Bijection, Injection
<1>4. o \in [1..n -> S] /\ IsInjective(o) BY <1>3, Zenon DEF SetToSeq
<1>5. o \in Injection(1..n, S) BY <1>4 DEF Injection
<1>6. IsFiniteSet(1..n) /\ Cardinality(1..n) = n BY <1>1, FS_Interval
<1>7. o \in Surjection(1..n, S) BY <1>5, <1>6, FS_Injection
<1> QED BY <1>1, <1>4, <1>7, Zenon DEF Surjection

(* New ids come after the last one.                                        *)
LEMMA NewIdsAreNew ==
  ASSUME NEW S, IsFiniteSet(S), last_id \in Nat
  PROVE  /\ Cardinality(S) \in Nat
         /\ DOMAIN NewIds(S) = S
         /\ \A x \in S : NewIds(S)[x] \in (last_id + 1)..(last_id + Cardinality(S))
<1> DEFINE n == Cardinality(S)
           o == SetToSeq(S)
           place(x) == CHOOSE k \in DOMAIN o : o[k] = x
<1>1. n \in Nat /\ DOMAIN o = 1..n BY OrderOfASet
<1>2. NewIds(S) = [x \in S |-> last_id + place(x)] BY DEF NewIds
<1>3. ASSUME NEW x \in S PROVE place(x) \in 1..n
  BY <1>1, OrderOfASet, Zenon
<1> HIDE DEF place, n, o
<1>4. ASSUME NEW x \in S PROVE NewIds(S)[x] \in (last_id + 1)..(last_id + n)
  BY <1>1, <1>2, <1>3
<1> QED BY <1>1, <1>2, <1>4 DEF n

(***************************************************************************)
(* The inductive invariant                                                 *)
(***************************************************************************)

(* Records have the fields that the actions assign.                        *)
IsRun(x) ==
    x \in [export : {x.export}, done : {x.done}, crashed : {x.crashed}, context : {x.context},
           refused : {x.refused}, line_of : {x.line_of}, photo_of : {x.photo_of}, doomed : {x.doomed},
           tried : {x.tried}, stored : {x.stored}, removed : {x.removed}]
IsContext(x) ==
    x \in [photos : {x.photos}, employees : {x.employees}, contacts : {x.contacts}, clients : {x.clients},
           skills : {x.skills}, projects : {x.projects}, lines : {x.lines}, invoices : {x.invoices},
           payments : {x.payments}]
IsPhoto(x) == x \in [image : {x.image}, project : {x.project}, line : {x.line}, uploaded : BOOLEAN]
Documents == {"lead_unqualified", "lead_qualified", "estimate", "work_order", "void", "declined_proposal"}
IsProject(x) ==
    x \in [client : {x.client}, document : Documents, history : Seq(Documents), closed : BOOLEAN,
           closed_at : {x.closed_at}, in_app : {x.in_app}]

(* The phases of a run end in order, and what it stored is in the store.    *)
RunIsSound ==
    /\ IsRun(run) /\ IsContext(run.context)
    /\ run.export # None => run.export \in Exports
    /\ \A phase \in run.done : Awaits(phase) \subseteq run.done
    /\ run.stored # {} => "image_objects" \in run.done
    /\ \A p \in run.stored : run.photo_of[p] \in store

(* Ids are never given again: those of photos that are gone are remembered, *)
(* and a photo that the context knows is the same one still.               *)
IdsAreGivenOnce ==
    /\ last_id \in Nat
    /\ \A r \in DOMAIN photos \union run.doomed \union DOMAIN run.context.photos : r \in Nat /\ r <= last_id
    /\ \A r \in DOMAIN run.context.photos \cap DOMAIN photos :
         run.context.photos[r].image = photos[r].image

(* Only photos without a row lose their objects.                           *)
PhotosAreSound ==
    /\ \A r \in DOMAIN photos : /\ IsPhoto(photos[r])
                                /\ photos[r].image = None => photos[r].uploaded
    /\ run.doomed \cap DOMAIN photos = {}
    /\ UploadedPhotosHaveObjects

(* Until the phase writes the projects, the closing dates are as they were  *)
(* read.                                                                   *)
ProjectsAreSound ==
    /\ \A n \in DOMAIN projects : IsProject(projects[n])
    /\ "rows_read" \in run.done /\ "projects" \notin run.done =>
         \A n \in DOMAIN run.context.projects :
           n \in DOMAIN projects /\ run.context.projects[n].closed_at = projects[n].closed_at
    /\ HistoryEndsAtTheDocument

(* Numbers from the raised allocator are in no export.                     *)
LateNumbersAreTheApps ==
    /\ allocator \in [next : Nat, raised : BOOLEAN]
    /\ allocator.raised => \A x \in Exports : \A l \in DOMAIN x.leads : l < allocator.next
    /\ \A n \in Row(projects, "in_app", "late") : \A x \in Exports : n \notin DOMAIN x.leads

IInv == RunIsSound /\ IdsAreGivenOnce /\ PhotosAreSound /\ ProjectsAreSound /\ LateNumbersAreTheApps


(***************************************************************************)
(* Runs                                                                    *)
(***************************************************************************)

(* The end of a phase changes nothing else of the run.                     *)
LEMMA EndedPhase ==
  ASSUME IsRun(run), NEW phase
  PROVE  LET e == Ended(phase)
         IN  /\ IsRun(e) /\ e.done = run.done \union {phase}
             /\ e.export = run.export /\ e.crashed = run.crashed /\ e.context = run.context
             /\ e.refused = run.refused /\ e.line_of = run.line_of /\ e.photo_of = run.photo_of
             /\ e.doomed = run.doomed /\ e.tried = run.tried /\ e.stored = run.stored
             /\ e.removed = run.removed
BY DEF IsRun, Ended

(* What a step of the import makes of the run: the parts it leaves alone.   *)
Goes(phases) ==
    /\ IsRun(run') /\ run'.done = run.done \union phases
    /\ run'.export = run.export /\ run'.line_of = run.line_of /\ run'.removed = run.removed
    /\ run'.tried = run.tried
GoesOn(phases) ==
    /\ Goes(phases) /\ run'.context = run.context /\ run'.photo_of = run.photo_of
    /\ run'.doomed = run.doomed /\ run'.stored = run.stored


(* Steps of the import that leave the work of the company alone: a phase    *)
(* about people or money, one that is refused, and a crash.                *)
AsidePhases == {"employees", "clients", "work_skills", "invoices", "payments"}
Aside ==
    /\ \E phases \in SUBSET AsidePhases :
         GoesOn(phases) /\ \A phase \in phases : Begins(phase)
    /\ UNCHANGED work
    /\ last_id' \in Nat /\ last_id' >= last_id

LEMMA RefusedIsAside ==
  ASSUME RunIsSound, IdsAreGivenOnce, Refuse, UNCHANGED <<work, last_id>>
  PROVE  Aside
<1>1. GoesOn({}) BY DEF RunIsSound, IsRun, Refuse, GoesOn, Goes
<1> QED BY <1>1 DEF Aside, IdsAreGivenOnce

LEMMA CrashIsAside ==
  ASSUME RunIsSound, IdsAreGivenOnce, Crash
  PROVE  Aside
<1>1. GoesOn({}) BY DEF RunIsSound, IsRun, Crash, GoesOn, Goes
<1> QED BY <1>1 DEF Aside, IdsAreGivenOnce, Crash

LEMMA StutterIsAside ==
  ASSUME RunIsSound, IdsAreGivenOnce, UNCHANGED vars
  PROVE  Aside
<1>1. GoesOn({}) BY DEF RunIsSound, vars, GoesOn, Goes, IsRun
<1> QED BY <1>1 DEF Aside, IdsAreGivenOnce, vars

LEMMA EndedIsAside ==
  ASSUME RunIsSound, NEW phase \in AsidePhases, Begins(phase), run' = Ended(phase),
         UNCHANGED work, last_id' \in Nat, last_id' >= last_id
  PROVE  Aside
<1>1. GoesOn({phase}) BY EndedPhase DEF RunIsSound, GoesOn, Goes, IsRun
<1> QED BY <1>1 DEF Aside

(* What an export holds is finite.                                         *)
LEMMA TheExport ==
  ASSUME RunIsSound, Running
  PROVE  /\ export \in Exports
         /\ IsFiniteSet(DOMAIN export.users) /\ IsFiniteSet(DOMAIN export.clients)
         /\ \A c \in DOMAIN export.clients : IsFiniteSet(DOMAIN export.clients[c])
         /\ DOMAIN export.leads \subseteq Nat
         /\ IsFiniteSet(DOMAIN export.items) /\ IsFiniteSet(DOMAIN export.photos)
         /\ None \notin DOMAIN export.items /\ None \notin DOMAIN export.photos
<1>1. export \in Exports BY DEF RunIsSound, Running, export
<1> QED BY <1>1, ExportsAssumption

LEMMA EmployeesAreAside ==
  ASSUME RunIsSound, IdsAreGivenOnce, ImportEmployees
  PROVE  Aside
<1> DEFINE new == {i \in DOMAIN export.users : Matches[i] = {}}
<1>1. /\ Begins("employees") /\ UNCHANGED work
      /\ \/ Refuse /\ UNCHANGED last_id
         \/ run' = Ended("employees") /\ last_id' = last_id + Cardinality(new)
  BY Zenon DEF ImportEmployees
<1>2. IsFiniteSet(new)
  BY <1>1, TheExport, FS_Subset DEF Begins
<1>3. Cardinality(new) \in Nat BY <1>2, FS_CardinalityType
<1>4. CASE Refuse /\ UNCHANGED last_id BY <1>1, <1>4, RefusedIsAside
<1>5. CASE run' = Ended("employees") /\ last_id' = last_id + Cardinality(new)
  <2> HIDE DEF new
  <2>1. last_id' \in Nat /\ last_id' >= last_id BY <1>3, <1>5 DEF IdsAreGivenOnce
  <2> QED BY <2>1, <1>1, <1>5, EndedIsAside DEF AsidePhases
<1> QED BY <1>1, <1>4, <1>5

LEMMA ClientsAreAside ==
  ASSUME RunIsSound, IdsAreGivenOnce, ImportClients
  PROVE  Aside
<1> DEFINE C == DOMAIN export.clients
           places(c) == {<<c, i>> : i \in DOMAIN export.clients[c]}
           incoming == UNION {places(c) : c \in C}
           contact(x) == export.clients[x[1]][x[2]]
           new == {x \in incoming : Row(context.contacts, "contact", contact(x)) = {}}
           bare == {c \in C : /\ export.clients[c] = <<>>
                              /\ ~\E r \in Row(context.contacts, "client", c) : context.contacts[r].primary}
<1>1. /\ Begins("clients") /\ UNCHANGED work
      /\ \/ Refuse /\ UNCHANGED last_id
         \/ run' = Ended("clients") /\ last_id' = last_id + Cardinality(new \union bare)
  BY Zenon DEF ImportClients
<1>2. IsFiniteSet(C) /\ \A c \in C : IsFiniteSet(DOMAIN export.clients[c])
  BY <1>1, TheExport DEF Begins
<1>3. ASSUME NEW c \in C PROVE IsFiniteSet(places(c))
  <2> DEFINE f == [i \in DOMAIN export.clients[c] |-> <<c, i>>]
  <2>1. f \in Surjection(DOMAIN export.clients[c], places(c)) BY DEF Surjection
  <2> QED BY <2>1, <1>2, FS_Surjection
<1>4. IsFiniteSet({places(c) : c \in C})
  <2> DEFINE f == [c \in C |-> places(c)]
  <2> HIDE DEF places
  <2>1. f \in Surjection(C, {places(c) : c \in C}) BY DEF Surjection
  <2> QED BY <2>1, <1>2, FS_Surjection
<1>5. IsFiniteSet(incoming) BY <1>3, <1>4, FS_UNION
<1>6. IsFiniteSet(new) /\ IsFiniteSet(bare)
  <2> HIDE DEF incoming
  <2> QED BY <1>2, <1>5, FS_Subset
<1>7. Cardinality(new \union bare) \in Nat
  <2> HIDE DEF new, bare
  <2> QED BY <1>6, FS_Union, FS_CardinalityType
<1>8. CASE Refuse /\ UNCHANGED last_id BY <1>1, <1>8, RefusedIsAside
<1>9. CASE run' = Ended("clients") /\ last_id' = last_id + Cardinality(new \union bare)
  <2> HIDE DEF new, bare
  <2>1. last_id' \in Nat /\ last_id' >= last_id BY <1>7, <1>9 DEF IdsAreGivenOnce
  <2> QED BY <2>1, <1>1, <1>9, EndedIsAside DEF AsidePhases
<1> QED BY <1>1, <1>8, <1>9

LEMMA MoneyIsAside ==
  ASSUME RunIsSound, IdsAreGivenOnce, ImportWorkSkills \/ ImportInvoices \/ ImportPayments
  PROVE  Aside
<1>1. CASE ImportWorkSkills
  BY <1>1, EndedIsAside DEF ImportWorkSkills, AsidePhases, IdsAreGivenOnce
<1>2. CASE ImportInvoices
  <2>1. /\ Begins("invoices") /\ UNCHANGED <<work, last_id>>
        /\ Refuse \/ run' = Ended("invoices")
    BY <1>2, Zenon DEF ImportInvoices
  <2> QED BY <2>1, RefusedIsAside, EndedIsAside DEF AsidePhases, IdsAreGivenOnce
<1>3. CASE ImportPayments
  BY <1>3, EndedIsAside DEF ImportPayments, AsidePhases, IdsAreGivenOnce
<1> QED BY <1>1, <1>2, <1>3


(* A phase that begins ends after those it awaits.                         *)
LEMMA PhasesEndInOrder ==
  ASSUME RunIsSound, NEW phases, \A phase \in phases : Begins(phase), run'.done = run.done \union phases
  PROVE  \A phase \in run'.done : Awaits(phase) \subseteq run'.done
BY DEF RunIsSound, Begins

LEMMA AsideKeepsTheInvariant ==
  ASSUME IInv, Aside
  PROVE  IInv'
<1>1. PICK phases \in SUBSET AsidePhases : GoesOn(phases) /\ \A phase \in phases : Begins(phase)
  BY DEF Aside
<1>2. UNCHANGED work /\ last_id' \in Nat /\ last_id' >= last_id BY DEF Aside
<1>3. RunIsSound'
  <2>1. \A phase \in run'.done : Awaits(phase) \subseteq run'.done
    BY <1>1, PhasesEndInOrder DEF IInv, GoesOn, Goes
  <2>2. IsRun(run)' /\ IsContext(run.context)'
    BY <1>1 DEF IInv, RunIsSound, GoesOn, Goes, IsRun, IsContext
  <2>3. store' = store BY <1>2 DEF work
  <2> QED BY <1>1, <2>1, <2>2, <2>3 DEF IInv, RunIsSound, GoesOn, Goes
<1>4. photos' = photos /\ store' = store /\ projects' = projects /\ allocator' = allocator
  BY <1>2 DEF work
<1>5. IdsAreGivenOnce'
  BY <1>1, <1>2, <1>4 DEF IInv, IdsAreGivenOnce, GoesOn
<1>6. PhotosAreSound'
  <2>1. UploadedPhotosHaveObjects' BY <1>4 DEF IInv, PhotosAreSound, UploadedPhotosHaveObjects
  <2> QED BY <1>1, <1>4, <2>1 DEF IInv, PhotosAreSound, GoesOn
<1>7. ProjectsAreSound'
  <2>1. HistoryEndsAtTheDocument' BY <1>4 DEF IInv, ProjectsAreSound, HistoryEndsAtTheDocument, Undated
  <2>2. "rows_read" \in run'.done <=> "rows_read" \in run.done
    BY <1>1 DEF GoesOn, Goes, AsidePhases
  <2>3. "projects" \in run'.done <=> "projects" \in run.done
    BY <1>1 DEF GoesOn, Goes, AsidePhases
  <2> QED BY <1>1, <1>4, <2>1, <2>2, <2>3 DEF IInv, ProjectsAreSound, GoesOn
<1>8. LateNumbersAreTheApps'
  BY <1>4 DEF IInv, LateNumbersAreTheApps, Row
<1> QED BY <1>3, <1>5, <1>6, <1>7, <1>8 DEF IInv

(***************************************************************************)
(* Starting and reading                                                    *)
(***************************************************************************)

LEMMA StartKeepsTheInvariant ==
  ASSUME IInv, NEW exported \in Exports, Start(exported)
  PROVE  IInv'
<1>1. /\ run' = [Idle EXCEPT !.export = exported] /\ UNCHANGED <<work, last_id>>
  BY DEF Start
<1>2. /\ IsRun(run)' /\ run'.export = exported /\ run'.done = {} /\ run'.context = NothingRead
      /\ run'.doomed = {} /\ run'.stored = {}
  BY <1>1 DEF Idle, IsRun
<1>3. DOMAIN NothingRead.photos = {} /\ IsContext(NothingRead)
  BY DEF NothingRead, Nothing, IsContext
<1>4. photos' = photos /\ store' = store /\ projects' = projects /\ allocator' = allocator
  BY <1>1 DEF work
<1>5. RunIsSound'
  BY <1>2, <1>3 DEF RunIsSound
<1>6. IdsAreGivenOnce'
  BY <1>1, <1>2, <1>3, <1>4 DEF IInv, IdsAreGivenOnce
<1>7. PhotosAreSound'
  <2>1. UploadedPhotosHaveObjects' BY <1>4 DEF IInv, PhotosAreSound, UploadedPhotosHaveObjects
  <2> QED BY <1>2, <1>4, <2>1 DEF IInv, PhotosAreSound
<1>8. ProjectsAreSound'
  <2>1. HistoryEndsAtTheDocument' BY <1>4 DEF IInv, ProjectsAreSound, HistoryEndsAtTheDocument, Undated
  <2> QED BY <1>2, <1>4, <2>1 DEF IInv, ProjectsAreSound
<1>9. LateNumbersAreTheApps'
  BY <1>4 DEF IInv, LateNumbersAreTheApps, Row
<1> QED BY <1>5, <1>6, <1>7, <1>8, <1>9 DEF IInv

LEMMA ReadPhotosKeepsTheInvariant ==
  ASSUME IInv, ReadPhotos
  PROVE  IInv'
<1> DEFINE linked == [r \in {r \in DOMAIN photos : photos[r].line # None} |-> photos[r]]
           e == Ended("photos_read")
<1>1. /\ Begins("photos_read") /\ run' = [e EXCEPT !.context.photos = linked]
      /\ UNCHANGED <<work, last_id>>
  BY DEF ReadPhotos
<1>2. /\ IsRun(e) /\ e.done = run.done \union {"photos_read"} /\ e.export = run.export
      /\ e.context = run.context /\ e.doomed = run.doomed /\ e.stored = run.stored /\ e.photo_of = run.photo_of
  BY EndedPhase DEF IInv, RunIsSound
<1>3. /\ IsRun(run)' /\ run'.done = e.done /\ run'.export = e.export
      /\ run'.doomed = e.doomed /\ run'.stored = e.stored /\ run'.photo_of = e.photo_of
      /\ run'.context = [e.context EXCEPT !.photos = linked]
  <2> HIDE DEF e, linked
  <2> QED BY <1>1, <1>2 DEF IsRun
<1>4. IsContext(run.context)' /\ run'.context.photos = linked /\ run'.context.projects = run.context.projects
  <2>1. IsContext(run.context) BY DEF IInv, RunIsSound
  <2> HIDE DEF linked
  <2> QED BY <1>2, <1>3, <2>1 DEF IsContext
<1>5. photos' = photos /\ store' = store /\ projects' = projects /\ allocator' = allocator
  BY <1>1 DEF work
<1>6. RunIsSound'
  <2>1. \A phase \in run'.done : Awaits(phase) \subseteq run'.done
    BY <1>1, <1>2, <1>3, PhasesEndInOrder, ZenonT(60) DEF IInv
  <2> QED BY <1>2, <1>3, <1>4, <1>5, <2>1 DEF IInv, RunIsSound
<1>7. IdsAreGivenOnce'
  BY <1>1, <1>2, <1>3, <1>4, <1>5 DEF IInv, IdsAreGivenOnce
<1>8. PhotosAreSound'
  <2>1. UploadedPhotosHaveObjects' BY <1>5 DEF IInv, PhotosAreSound, UploadedPhotosHaveObjects
  <2> QED BY <1>2, <1>3, <1>5, <2>1 DEF IInv, PhotosAreSound
<1>9. ProjectsAreSound'
  <2>1. HistoryEndsAtTheDocument' BY <1>5 DEF IInv, ProjectsAreSound, HistoryEndsAtTheDocument, Undated
  <2> QED BY <1>2, <1>3, <1>4, <1>5, <2>1 DEF IInv, ProjectsAreSound
<1>10. LateNumbersAreTheApps'
  BY <1>5 DEF IInv, LateNumbersAreTheApps, Row
<1> QED BY <1>6, <1>7, <1>8, <1>9, <1>10 DEF IInv

LEMMA ReadRowsKeepsTheInvariant ==
  ASSUME IInv, ReadRows
  PROVE  IInv'
<1> DEFINE e == Ended("rows_read")
<1>1. /\ Begins("rows_read") /\ UNCHANGED <<work, last_id>>
      /\ run' = [e EXCEPT !.context =
                   [photos |-> @.photos, employees |-> employees, contacts |-> contacts, clients |-> clients,
                    skills |-> skills, projects |-> projects, lines |-> lines,
                    invoices |-> invoices, payments |-> payments]]
  BY DEF ReadRows
<1>2. /\ IsRun(e) /\ e.done = run.done \union {"rows_read"} /\ e.export = run.export
      /\ e.context = run.context /\ e.doomed = run.doomed /\ e.stored = run.stored /\ e.photo_of = run.photo_of
  BY EndedPhase DEF IInv, RunIsSound
<1>3. /\ IsRun(run)' /\ run'.done = e.done /\ run'.export = e.export
      /\ run'.doomed = e.doomed /\ run'.stored = e.stored /\ run'.photo_of = e.photo_of
      /\ run'.context = [photos |-> e.context.photos, employees |-> employees, contacts |-> contacts,
                         clients |-> clients, skills |-> skills, projects |-> projects, lines |-> lines,
                         invoices |-> invoices, payments |-> payments]
  <2> HIDE DEF e
  <2> QED BY <1>1, <1>2 DEF IsRun
<1>4. IsContext(run.context)' /\ run'.context.photos = run.context.photos /\ run'.context.projects = projects
  BY <1>2, <1>3 DEF IsContext
<1>5. photos' = photos /\ store' = store /\ projects' = projects /\ allocator' = allocator
  BY <1>1 DEF work
<1>6. RunIsSound'
  <2>1. \A phase \in run'.done : Awaits(phase) \subseteq run'.done
    BY <1>1, <1>2, <1>3, PhasesEndInOrder DEF IInv
  <2> QED BY <1>2, <1>3, <1>4, <1>5, <2>1 DEF IInv, RunIsSound
<1>7. IdsAreGivenOnce'
  BY <1>1, <1>2, <1>3, <1>4, <1>5 DEF IInv, IdsAreGivenOnce
<1>8. PhotosAreSound'
  <2>1. UploadedPhotosHaveObjects' BY <1>5 DEF IInv, PhotosAreSound, UploadedPhotosHaveObjects
  <2> QED BY <1>2, <1>3, <1>5, <2>1 DEF IInv, PhotosAreSound
<1>9. ProjectsAreSound'
  <2>1. HistoryEndsAtTheDocument' BY <1>5 DEF IInv, ProjectsAreSound, HistoryEndsAtTheDocument, Undated
  <2> QED BY <1>4, <1>5, <2>1 DEF IInv, ProjectsAreSound
<1>10. LateNumbersAreTheApps'
  BY <1>5 DEF IInv, LateNumbersAreTheApps, Row
<1> QED BY <1>6, <1>7, <1>8, <1>9, <1>10 DEF IInv


(***************************************************************************)
(* Projects                                                                *)
(***************************************************************************)

(* The history that is written for a lead ends at its document.            *)
LEMMA ChainEndsAtTheDocument ==
  ASSUME NEW lead
  PROVE  /\ ProjectDocument(lead) \in Documents
         /\ DocumentChain(lead) \in Seq(Documents)
         /\ Last(DocumentChain(lead)) = ProjectDocument(lead)
<1> DEFINE document == ProjectDocument(lead)
           first == <<"lead_unqualified">>
           ends == {"declined_proposal", "work_order", "void", "lead_qualified"}
           middle == IF lead.estimates # {} THEN <<"estimate">> ELSE <<>>
           end == IF document \in ends THEN <<document>> ELSE <<>>
<1>1. /\ document \in ends \union {"estimate", "lead_unqualified"}
      /\ document = "estimate" => lead.estimates # {}
      /\ document = "lead_unqualified" => lead.estimates = {}
  BY DEF ProjectDocument
<1>2. DocumentChain(lead) = first \o middle \o end
  BY DEF DocumentChain
<1>3. document \in Documents BY <1>1 DEF Documents
<1>4. /\ first \in Seq(Documents) /\ Last(first) = "lead_unqualified"
      /\ middle \in Seq(Documents)
  <2>1. "lead_unqualified" \in Documents /\ "estimate" \in Documents BY DEF Documents
  <2>2. <<"estimate">> \in Seq(Documents) /\ <<>> \in Seq(Documents) BY <2>1
  <2> QED BY <2>1, <2>2 DEF Last
<1> HIDE DEF first, middle
<1>5. first \o middle \in Seq(Documents) BY <1>4, ConcatProperties
<1> HIDE DEF document
<1>6. CASE document \in ends
  <2>1. end = <<document>>
    BY <1>6
  <2> DEFINE before == first \o middle
  <2>2. DocumentChain(lead) = before \o <<document>> /\ before \in Seq(Documents)
    BY <1>2, <1>5, <2>1
  <2> HIDE DEF before, ends, end
  <2> QED BY <1>3, <2>2, SingletonIsLast DEF document
<1>7. CASE document = "estimate"
  <2>1. DocumentChain(lead) = first \o <<"estimate">>
    BY <1>1, <1>2, <1>5, <1>7, ConcatEmptySeq DEF middle
  <2> QED BY <1>3, <1>4, <1>7, <2>1, SingletonIsLast DEF document
<1>8. CASE document = "lead_unqualified"
  <2>1. DocumentChain(lead) = first
    BY <1>1, <1>2, <1>4, <1>5, <1>8, ConcatEmptySeq DEF middle
  <2> QED BY <1>3, <1>4, <1>8, <2>1 DEF document
<1> QED BY <1>1, <1>6, <1>7, <1>8

(* The allocator is raised above every number that ArboStar has given or   *)
(* gives until the next export, and never lowered.                         *)
LEMMA RaisedIsAbove ==
  ASSUME IInv, Running
  PROVE  /\ Raised \in [next : Nat, raised : BOOLEAN]
         /\ Raised.raised => \A x \in Exports : \A l \in DOMAIN x.leads : l < Raised.next
<1> DEFINE D == DOMAIN export.leads
           number == Max(D) + Gap
<1>1. allocator \in [next : Nat, raised : BOOLEAN]
      /\ (allocator.raised => \A x \in Exports : \A l \in DOMAIN x.leads : l < allocator.next)
  BY DEF IInv, LateNumbersAreTheApps
<1>2. export \in Exports BY TheExport DEF IInv
<1>3. CASE D = {} BY <1>1, <1>3 DEF Raised
<1>4. CASE D # {}
  <2>1. D \in SUBSET Nat BY <1>2, ExportsAssumption
  <2>2. PICK most \in D \union {0} : \A l \in D : l <= most BY <1>2, ExportsAssumption
  <2>3. most \in D BY <1>4, <2>1, <2>2
  <2>4. Max(D) = most BY <2>1, <2>2, <2>3, LargestNumber
  <2>5. number \in Nat /\ number = most + Gap BY <2>1, <2>3, <2>4, ImportAssumption
  <2>6. \A x \in Exports : \A l \in DOMAIN x.leads : l \in Nat /\ l < number
    <3> SUFFICES ASSUME NEW x \in Exports, NEW l \in DOMAIN x.leads PROVE l \in Nat /\ l < number
      OBVIOUS
    <3>1. PICK k \in D : l < k + Gap BY <1>2, <1>4, GapAssumption
    <3>2. l \in Nat /\ k \in Nat /\ k <= most BY <2>1, <2>2, ExportsAssumption
    <3> QED BY <2>3, <2>1, <2>5, <3>1, <3>2, ImportAssumption
  <2> DEFINE above == Max({allocator.next, number})
  <2>7. Raised = [next |-> above, raised |-> TRUE] BY <1>4 DEF Raised
  <2>8. above \in Nat /\ above >= number
    <3> HIDE DEF number
    <3> DEFINE both == {allocator.next, number}
    <3>1. allocator.next \in Nat /\ number \in Nat BY <1>1, <2>5
    <3>2. CASE allocator.next <= number
      <4>1. both \in SUBSET Nat /\ number \in both /\ \A y \in both : y <= number BY <3>1, <3>2
      <4> QED BY <3>1, <4>1, LargestNumber
    <3>3. CASE number <= allocator.next
      <4>1. both \in SUBSET Nat /\ allocator.next \in both /\ \A y \in both : y <= allocator.next BY <3>1, <3>3
      <4> QED BY <3>1, <3>3, <4>1, LargestNumber
    <3> QED BY <3>1, <3>2, <3>3
  <2> HIDE DEF number, above
  <2> QED BY <2>5, <2>6, <2>7, <2>8
<1> QED BY <1>3, <1>4

(* What becomes of the project of a lead.                                  *)
LEMMA ProjectOfALead ==
  ASSUME NEW l
  PROVE  LET new == NewProject(l)
         IN  /\ IsProject(new) /\ new.in_app = None
             /\ export.leads[l].created => Last(new.history) = new.document
<1> DEFINE lead == export.leads[l]
           new == NewProject(l)
<1>1. /\ ProjectDocument(lead) \in Documents /\ DocumentChain(lead) \in Seq(Documents)
      /\ Last(DocumentChain(lead)) = ProjectDocument(lead)
  BY ChainEndsAtTheDocument
<1>2. Closes(lead) \in BOOLEAN BY DEF Closes
<1>3. new = [client |-> lead.client, document |-> ProjectDocument(lead),
             history |-> IF lead.created THEN DocumentChain(lead) ELSE <<>>,
             closed |-> Closes(lead), closed_at |-> ClosingDate(lead), in_app |-> None]
  BY DEF NewProject
<1>4. /\ new.document = ProjectDocument(lead) /\ new.in_app = None
      /\ new.history = IF lead.created THEN DocumentChain(lead) ELSE <<>>
  BY <1>3
<1>5. IsProject(new) BY <1>1, <1>2, <1>3 DEF IsProject
<1> QED BY <1>1, <1>4, <1>5

LEMMA ProjectOfAKnownLead ==
  ASSUME NEW l, IsProject(projects[l])
  PROVE  LET old == projects[l]
             new == UpdatedProject(l)
         IN  /\ IsProject(new) /\ new.in_app = old.in_app
             /\ old.closed => new.closed
             /\ context.projects[l].closed_at # None => new.closed_at = old.closed_at
             /\ export.leads[l].created => Last(new.history) = new.document
<1> DEFINE lead == export.leads[l]
           old == projects[l]
           new == UpdatedProject(l)
<1>1. /\ ProjectDocument(lead) \in Documents /\ DocumentChain(lead) \in Seq(Documents)
      /\ Last(DocumentChain(lead)) = ProjectDocument(lead)
  BY ChainEndsAtTheDocument
<1>2. Closes(lead) \in BOOLEAN BY DEF Closes
<1>3. old \in [client : {old.client}, document : Documents, history : Seq(Documents), closed : BOOLEAN,
               closed_at : {old.closed_at}, in_app : {old.in_app}]
  BY DEF IsProject
<1> DEFINE chain == DocumentChain(lead)
           document == ProjectDocument(lead)
           closes == Closes(lead)
           date == ClosingDate(lead)
           dated == context.projects[l].closed_at # None
<1>4. new = [old EXCEPT !.client = lead.client, !.document = document,
                        !.history = IF lead.created THEN chain ELSE @,
                        !.closed = @ \/ closes,
                        !.closed_at = IF closes /\ ~dated THEN date ELSE @]
  BY DEF UpdatedProject
<1> HIDE DEF new, old, chain, document, closes, date, dated
<1>5. /\ new \in [client : {lead.client}, document : {document}, history : {chain, old.history},
                  closed : BOOLEAN, closed_at : {date, old.closed_at}, in_app : {old.in_app}]
      /\ new.history = IF lead.created THEN chain ELSE old.history
      /\ old.closed => new.closed
      /\ dated => new.closed_at = old.closed_at
  BY <1>2, <1>3, <1>4 DEF closes
<1>6. IsProject(new) BY <1>1, <1>3, <1>5 DEF IsProject, chain, document
<1> QED BY <1>1, <1>5, <1>6 DEF new, old, chain, document, dated


(* What a step does to the projects there are: it closes them or leaves     *)
(* them, and the import leaves alone those with numbers of the app's.       *)
ClosesOnly ==
    \A n \in DOMAIN projects :
      /\ n \in DOMAIN projects'
      /\ projects[n].closed => projects'[n].closed
      /\ projects[n].closed_at # None => projects'[n].closed_at = projects[n].closed_at
LateProjectsStay == \A n \in Row(projects, "in_app", "late") : projects'[n] = projects[n]

(* A project that the import knows has its closing date still.             *)
LEMMA ClosingDatesAreAsRead ==
  ASSUME IInv, Begins("projects"), NEW n \in DOMAIN context.projects
  PROVE  n \in DOMAIN projects /\ context.projects[n].closed_at = projects[n].closed_at
<1>1. "employees" \in run.done /\ "projects" \notin run.done
  BY DEF Begins, Awaits
<1>2. Awaits("employees") \subseteq run.done BY <1>1 DEF IInv, RunIsSound
<1>3. "rows_read" \in run.done BY <1>2 DEF Awaits
<1> QED BY <1>1, <1>3 DEF IInv, ProjectsAreSound, context

LEMMA ImportProjectsKeepsTheInvariant ==
  ASSUME IInv, ImportProjects
  PROVE  IInv' /\ ClosesOnly /\ LateProjectsStay
<1> DEFINE new == Importable \ DOMAIN context.projects
<1>1. /\ Begins("projects") /\ UNCHANGED <<photos, store, last_id, lines>>
      /\ \/ Refuse /\ UNCHANGED <<projects, allocator>>
         \/ /\ new \cap DOMAIN projects = {}
            /\ projects' = [n \in DOMAIN projects \union new |->
                                 IF n \in new THEN NewProject(n)
                                 ELSE IF n \in Importable THEN UpdatedProject(n) ELSE projects[n]]
            /\ allocator' = Raised
            /\ run' = Ended("projects")
  BY DEF ImportProjects
<1>2. CASE Refuse /\ UNCHANGED <<projects, allocator>>
  <2>1. UNCHANGED <<work, last_id>> BY <1>1, <1>2 DEF work
  <2>2. Aside BY <1>2, <2>1, RefusedIsAside DEF IInv
  <2> QED BY <1>2, <2>2, AsideKeepsTheInvariant DEF ClosesOnly, LateProjectsStay
<1>3. CASE /\ new \cap DOMAIN projects = {}
           /\ projects' = [n \in DOMAIN projects \union new |->
                                 IF n \in new THEN NewProject(n)
                                 ELSE IF n \in Importable THEN UpdatedProject(n) ELSE projects[n]]
           /\ allocator' = Raised
           /\ run' = Ended("projects")
  <2>1. Running /\ "projects" \notin run.done BY <1>1 DEF Begins
  <2>2. export \in Exports /\ Importable \subseteq DOMAIN export.leads
    BY <2>1, TheExport DEF IInv, Importable
  <2>3. /\ IsRun(run)' /\ run'.done = run.done \union {"projects"} /\ run'.export = run.export
        /\ run'.context = run.context /\ run'.doomed = run.doomed /\ run'.stored = run.stored
        /\ run'.photo_of = run.photo_of
    BY <1>3, EndedPhase DEF IInv, RunIsSound, IsRun
  <2>4. ASSUME NEW n \in new
        PROVE  /\ n \in DOMAIN projects' /\ projects'[n] = NewProject(n)
               /\ IsProject(projects'[n]) /\ projects'[n].in_app = None
               /\ export.leads[n].created => Last(projects'[n].history) = projects'[n].document
    <3>1. n \in DOMAIN projects' /\ projects'[n] = NewProject(n) BY <1>3
    <3> QED BY <3>1, ProjectOfALead
  <2>5. ASSUME NEW n \in DOMAIN projects, n \in Importable
        PROVE  /\ n \in DOMAIN projects'
               /\ IsProject(projects'[n]) /\ projects'[n].in_app = projects[n].in_app
               /\ projects[n].closed => projects'[n].closed
               /\ projects[n].closed_at # None => projects'[n].closed_at = projects[n].closed_at
               /\ export.leads[n].created => Last(projects'[n].history) = projects'[n].document
    <3>1. n \notin new /\ n \in DOMAIN context.projects BY <1>3, <2>5
    <3>2. projects'[n] = UpdatedProject(n) /\ n \in DOMAIN projects' BY <1>3, <2>5, <3>1
    <3>3. IsProject(projects[n]) BY DEF IInv, ProjectsAreSound
    <3>4. context.projects[n].closed_at = projects[n].closed_at
      BY <1>1, <3>1, ClosingDatesAreAsRead
    <3> QED BY <3>2, <3>3, <3>4, ProjectOfAKnownLead
  <2>6. ASSUME NEW n \in DOMAIN projects, n \notin Importable
        PROVE  n \in DOMAIN projects' /\ projects'[n] = projects[n]
    BY <1>3, <2>6
  <2>7. DOMAIN projects' = DOMAIN projects \union new BY <1>3
  <2> HIDE DEF new
  <2>8. ClosesOnly BY <2>5, <2>6 DEF ClosesOnly
  <2>9. LateProjectsStay
    <3> SUFFICES ASSUME NEW n \in Row(projects, "in_app", "late") PROVE projects'[n] = projects[n]
      BY DEF LateProjectsStay
    <3>1. n \in DOMAIN projects /\ n \notin DOMAIN export.leads
      BY <2>2 DEF Row, IInv, LateNumbersAreTheApps
    <3> QED BY <2>2, <2>6, <3>1
  <2>10. RunIsSound'
    <3>1. \A phase \in run'.done : Awaits(phase) \subseteq run'.done
      BY <1>1, <2>3, PhasesEndInOrder DEF IInv
    <3> QED BY <1>1, <2>3, <3>1 DEF IInv, RunIsSound
  <2>11. IdsAreGivenOnce' BY <1>1, <2>3 DEF IInv, IdsAreGivenOnce
  <2>12. PhotosAreSound'
    <3>1. UploadedPhotosHaveObjects' BY <1>1 DEF IInv, PhotosAreSound, UploadedPhotosHaveObjects
    <3> QED BY <1>1, <2>3, <3>1 DEF IInv, PhotosAreSound
  <2>13. ProjectsAreSound'
    <3>1. ASSUME NEW n \in DOMAIN projects' PROVE IsProject(projects'[n])
      BY <2>4, <2>5, <2>6, <2>7 DEF IInv, ProjectsAreSound
    <3>2. ASSUME NEW n \in DOMAIN projects', n \notin Undated'
          PROVE  Last(projects'[n].history) = projects'[n].document
      <4>1. \A x \in Exports : n \in DOMAIN x.leads => x.leads[n].created BY <3>2 DEF Undated
      <4>2. n \in Importable => export.leads[n].created BY <2>2, <4>1
      <4>3. CASE n \in new BY <2>4, <4>2, <4>3 DEF new
      <4>4. CASE n \in DOMAIN projects /\ n \in Importable BY <2>5, <4>2, <4>4
      <4>5. CASE n \in DOMAIN projects /\ n \notin Importable
        <5>1. n \in DOMAIN projects \ Undated BY <4>1, <4>5 DEF Undated
        <5> QED BY <2>6, <4>5, <5>1 DEF IInv, ProjectsAreSound, HistoryEndsAtTheDocument
      <4> QED BY <2>7, <4>3, <4>4, <4>5
    <3>3. HistoryEndsAtTheDocument' BY <3>2 DEF HistoryEndsAtTheDocument
    <3> QED BY <2>3, <3>1, <3>3 DEF ProjectsAreSound
  <2>14. LateNumbersAreTheApps'
    <3>1. ASSUME NEW n \in Row(projects, "in_app", "late")' PROVE \A x \in Exports : n \notin DOMAIN x.leads
      <4>1. n \in DOMAIN projects' /\ projects'[n].in_app = "late" BY DEF Row
      <4>2. n \notin new BY <2>4, <4>1, ImportAssumption
      <4>3. n \in DOMAIN projects /\ projects[n].in_app = "late" BY <2>5, <2>6, <2>7, <4>1, <4>2
      <4>4. n \in Row(projects, "in_app", "late") BY <4>3 DEF Row
      <4> QED BY <4>4 DEF IInv, LateNumbersAreTheApps
    <3> QED BY <1>3, <2>1, <3>1, RaisedIsAbove DEF LateNumbersAreTheApps
  <2> QED BY <2>8, <2>9, <2>10, <2>11, <2>12, <2>13, <2>14 DEF IInv
<1> QED BY <1>1, <1>2, <1>3


(***************************************************************************)
(* Photos and their objects                                                *)
(***************************************************************************)

(* What was made in the app stays in place.                                *)
AppLinesStay == \A r \in Row(lines, "item", None) : r \in DOMAIN lines' /\ lines'[r] = lines[r]
AppPhotosStay ==
    \A r \in Row(photos, "image", None) :
      /\ r \in DOMAIN photos' \cap store'
      /\ photos'[r].line \in {photos[r].line, None}
      /\ photos[r].line \in DOMAIN lines' => photos'[r] = photos[r]

LEMMA ProjectsAreLeftAlone ==
  ASSUME IInv, UNCHANGED <<projects, allocator>>, run'.context = run.context,
         NEW phases, phases \cap {"rows_read", "projects"} = {}, run'.done = run.done \union phases
  PROVE  ProjectsAreSound' /\ LateNumbersAreTheApps'
<1>1. HistoryEndsAtTheDocument' BY DEF IInv, ProjectsAreSound, HistoryEndsAtTheDocument, Undated
<1>2. /\ "rows_read" \in run'.done <=> "rows_read" \in run.done
      /\ "projects" \in run'.done <=> "projects" \in run.done
  OBVIOUS
<1>3. ProjectsAreSound' BY <1>1, <1>2 DEF IInv, ProjectsAreSound
<1> QED BY <1>3 DEF IInv, LateNumbersAreTheApps, Row

(* The photos of the app have objects.                                     *)
LEMMA AppPhotosAreStored ==
  ASSUME IInv, NEW r \in Row(photos, "image", None)
  PROVE  r \in DOMAIN photos /\ IsPhoto(photos[r]) /\ photos[r].image = None /\ photos[r].uploaded
         /\ r \in store
BY DEF IInv, PhotosAreSound, UploadedPhotosHaveObjects, Row

LEMMA DeleteObjectsKeepsTheInvariant ==
  ASSUME IInv, NEW phase \in {"line_objects", "image_objects"}, DeleteObjects(phase)
  PROVE  IInv' /\ AppLinesStay /\ AppPhotosStay
<1> DEFINE e == Ended(phase)
<1>1. /\ Begins(phase) /\ store' = store \ run.doomed /\ run' = [e EXCEPT !.doomed = {}]
      /\ photos' = photos /\ last_id' = last_id /\ lines' = lines /\ UNCHANGED <<projects, allocator>>
  BY DEF DeleteObjects
<1>2. /\ IsRun(e) /\ e.done = run.done \union {phase} /\ e.export = run.export
      /\ e.context = run.context /\ e.stored = run.stored /\ e.photo_of = run.photo_of
  BY EndedPhase DEF IInv, RunIsSound
<1> HIDE DEF e
<1>3. /\ IsRun(run)' /\ run'.done = run.done \union {phase} /\ run'.export = run.export
      /\ run'.context = run.context /\ run'.stored = run.stored /\ run'.photo_of = run.photo_of
      /\ run'.doomed = {}
  BY <1>1, <1>2 DEF IsRun
<1>4. run.stored = {}
  <2>1. phase \notin run.done BY <1>1 DEF Begins
  <2>2. CASE phase = "image_objects" BY <2>1, <2>2 DEF IInv, RunIsSound
  <2>3. CASE phase = "line_objects"
    <3>1. \A p \in run.done : Awaits(p) \subseteq run.done BY DEF IInv, RunIsSound
    <3>2. "image_rows" \notin run.done BY <2>1, <2>3, <3>1 DEF Awaits
    <3>3. "image_objects" \notin run.done BY <3>1, <3>2 DEF Awaits
    <3> QED BY <3>3 DEF IInv, RunIsSound
  <2> QED BY <2>2, <2>3
<1>5. RunIsSound'
  <2>1. \A p \in run'.done : Awaits(p) \subseteq run'.done
    BY <1>1, <1>3, PhasesEndInOrder DEF IInv
  <2> QED BY <1>3, <1>4, <2>1 DEF IInv, RunIsSound
<1>6. IdsAreGivenOnce' BY <1>1, <1>3 DEF IInv, IdsAreGivenOnce
<1>7. PhotosAreSound'
  <2>1. UploadedPhotosHaveObjects' BY <1>1 DEF IInv, PhotosAreSound, UploadedPhotosHaveObjects
  <2> QED BY <1>1, <1>3, <2>1 DEF IInv, PhotosAreSound
<1>8. ProjectsAreSound' /\ LateNumbersAreTheApps'
  BY <1>1, <1>3, ProjectsAreLeftAlone
<1>9. AppPhotosStay
  <2> SUFFICES ASSUME NEW r \in Row(photos, "image", None)
               PROVE  r \in DOMAIN photos' \cap store' /\ photos'[r] = photos[r]
    BY DEF AppPhotosStay
  <2> QED BY <1>1, AppPhotosAreStored DEF IInv, PhotosAreSound
<1>10. AppLinesStay BY <1>1 DEF AppLinesStay, Row
<1> QED BY <1>5, <1>6, <1>7, <1>8, <1>9, <1>10 DEF IInv

LEMMA UploadKeepsTheInvariant ==
  ASSUME IInv, NEW p, NEW succeeds \in BOOLEAN, Upload(p, succeeds)
  PROVE  IInv' /\ AppLinesStay /\ AppPhotosStay
<1> DEFINE stored == IF succeeds THEN run.stored \union {p} ELSE run.stored
<1>1. /\ Begins("images")
      /\ run' = [run EXCEPT !.tried = @ \union {p}, !.stored = IF succeeds THEN @ \union {p} ELSE @]
      /\ store' = IF succeeds THEN store \union {run.photo_of[p]} ELSE store
      /\ photos' = photos /\ last_id' = last_id /\ lines' = lines /\ UNCHANGED <<projects, allocator>>
  BY DEF Upload
<1>2. /\ IsRun(run)' /\ run'.done = run.done /\ run'.export = run.export
      /\ run'.context = run.context /\ run'.stored = stored /\ run'.photo_of = run.photo_of
      /\ run'.doomed = run.doomed
  BY <1>1 DEF IsRun, IInv, RunIsSound
<1>3. "image_objects" \in run.done BY <1>1 DEF Begins, Awaits
<1>4. RunIsSound'
  <2>1. \A q \in stored : run.photo_of[q] \in store' BY <1>1 DEF IInv, RunIsSound
  <2> QED BY <1>2, <1>3, <2>1 DEF IInv, RunIsSound
<1>5. IdsAreGivenOnce' BY <1>1, <1>2 DEF IInv, IdsAreGivenOnce
<1>6. PhotosAreSound'
  <2>1. UploadedPhotosHaveObjects' BY <1>1 DEF IInv, PhotosAreSound, UploadedPhotosHaveObjects
  <2> QED BY <1>1, <1>2, <2>1 DEF IInv, PhotosAreSound
<1>7. ProjectsAreSound' /\ LateNumbersAreTheApps'
  <2> DEFINE phases == {}
  <2>1. phases \cap {"rows_read", "projects"} = {} /\ run'.done = run.done \union phases BY <1>2
  <2> HIDE DEF phases
  <2> QED BY <1>1, <1>2, <2>1, ProjectsAreLeftAlone
<1>8. AppPhotosStay BY <1>1, AppPhotosAreStored DEF AppPhotosStay
<1>9. AppLinesStay BY <1>1 DEF AppLinesStay, Row
<1> QED BY <1>4, <1>5, <1>6, <1>7, <1>8, <1>9 DEF IInv

LEMMA StoreKeysKeepsTheInvariant ==
  ASSUME IInv, StoreKeys
  PROVE  IInv' /\ AppLinesStay /\ AppPhotosStay
<1> DEFINE Uploaded(r) == \E p \in run.stored : run.photo_of[p] = r
<1>1. /\ Begins("images") /\ run' = Ended("images")
      /\ photos' = [r \in DOMAIN photos |->
                      IF Uploaded(r) THEN [photos[r] EXCEPT !.uploaded = TRUE] ELSE photos[r]]
      /\ store' = store /\ last_id' = last_id /\ lines' = lines /\ UNCHANGED <<projects, allocator>>
  BY DEF StoreKeys
<1>2. /\ IsRun(run)' /\ run'.done = run.done \union {"images"} /\ run'.export = run.export
      /\ run'.context = run.context /\ run'.stored = run.stored /\ run'.photo_of = run.photo_of
      /\ run'.doomed = run.doomed
  BY <1>1, EndedPhase DEF IInv, RunIsSound, IsRun
<1>3. DOMAIN photos' = DOMAIN photos BY <1>1
<1>4. ASSUME NEW r \in DOMAIN photos
      PROVE  /\ IsPhoto(photos'[r]) /\ photos'[r].image = photos[r].image /\ photos'[r].line = photos[r].line
             /\ photos[r].uploaded => photos'[r] = photos[r]
             /\ photos'[r].uploaded => photos[r].uploaded \/ Uploaded(r)
  <2>1. photos[r] \in [image : {photos[r].image}, project : {photos[r].project},
                       line : {photos[r].line}, uploaded : BOOLEAN]
    BY DEF IInv, PhotosAreSound, IsPhoto
  <2>2. CASE ~Uploaded(r) BY <1>1, <2>1, <2>2 DEF IsPhoto
  <2>3. CASE Uploaded(r)
    <3> DEFINE old == photos[r]
               new == photos'[r]
    <3>1. new = [old EXCEPT !.uploaded = TRUE] BY <1>1, <2>3
    <3> HIDE DEF old, new
    <3>2. old \in [image : {old.image}, project : {old.project}, line : {old.line}, uploaded : BOOLEAN]
      BY <2>1 DEF old
    <3>3. /\ new.image = old.image /\ new.line = old.line
          /\ new \in [image : {new.image}, project : {new.project}, line : {new.line}, uploaded : BOOLEAN]
          /\ old.uploaded => new = old
      BY <3>1, <3>2
    <3> QED BY <2>3, <3>3 DEF old, new, IsPhoto
  <2> QED BY <2>2, <2>3
<1>5. ASSUME NEW r, Uploaded(r) PROVE r \in store BY <1>5 DEF IInv, RunIsSound
<1> HIDE DEF Uploaded
<1>6. RunIsSound'
  <2>1. \A p \in run'.done : Awaits(p) \subseteq run'.done
    BY <1>1, <1>2, PhasesEndInOrder DEF IInv
  <2> QED BY <1>1, <1>2, <2>1 DEF IInv, RunIsSound
<1>7. IdsAreGivenOnce' BY <1>1, <1>2, <1>3, <1>4 DEF IInv, IdsAreGivenOnce
<1>8. PhotosAreSound'
  <2>1. UploadedPhotosHaveObjects'
    BY <1>1, <1>3, <1>4, <1>5 DEF IInv, PhotosAreSound, UploadedPhotosHaveObjects
  <2>2. ASSUME NEW r \in DOMAIN photos, photos'[r].image = None PROVE photos'[r].uploaded
    BY <1>4, <2>2 DEF IInv, PhotosAreSound
  <2> QED BY <1>2, <1>3, <1>4, <2>1, <2>2 DEF IInv, PhotosAreSound
<1>9. ProjectsAreSound' /\ LateNumbersAreTheApps'
  <2> DEFINE phases == {"images"}
  <2>1. phases \cap {"rows_read", "projects"} = {} /\ run'.done = run.done \union phases BY <1>2
  <2> HIDE DEF phases
  <2> QED BY <1>1, <1>2, <2>1, ProjectsAreLeftAlone
<1>10. AppPhotosStay
  <2> SUFFICES ASSUME NEW r \in Row(photos, "image", None)
               PROVE  r \in DOMAIN photos' \cap store' /\ photos'[r] = photos[r]
    BY DEF AppPhotosStay
  <2> QED BY <1>1, <1>3, <1>4, AppPhotosAreStored
<1>11. AppLinesStay BY <1>1 DEF AppLinesStay, Row
<1> QED BY <1>6, <1>7, <1>8, <1>9, <1>10, <1>11 DEF IInv


(* A photo whose link is cut is the same but for its line.                 *)
LEMMA CutPhoto ==
  ASSUME NEW old, IsPhoto(old)
  PROVE  LET new == [old EXCEPT !.line = None]
         IN  IsPhoto(new) /\ new.image = old.image /\ new.uploaded = old.uploaded /\ new.line = None
<1> DEFINE new == [old EXCEPT !.line = None]
<1>1. old \in [image : {old.image}, project : {old.project}, line : {old.line}, uploaded : BOOLEAN]
  BY DEF IsPhoto
<1>2. new = [old EXCEPT !.line = None] OBVIOUS
<1> HIDE DEF new
<1>3. /\ new.image = old.image /\ new.uploaded = old.uploaded /\ new.line = None
      /\ new \in [image : {new.image}, project : {new.project}, line : {new.line}, uploaded : BOOLEAN]
  BY <1>1, <1>2
<1> QED BY <1>3 DEF new, IsPhoto

LEMMA ImportLineItemsKeepsTheInvariant ==
  ASSUME IInv, ImportLineItems
  PROVE  IInv' /\ AppLinesStay /\ AppPhotosStay
<1> DEFINE ids == NewIds(NewItems)
           known == {r \in DOMAIN lines : r \in DOMAIN context.lines /\ lines[r].item \in Items}
           kept == [r \in DOMAIN lines |-> IF r \in known THEN LineFields(lines[r].item) ELSE lines[r]]
           table == Joined(kept, Inserted(ids, LineFields))
           stale == {r \in DOMAIN table : /\ table[r].item # None
                                          /\ table[r].project \in Importable
                                          /\ table[r].item \notin Items}
           gone == {r \in DOMAIN photos : photos[r].line \in stale /\ photos[r].image # None}
           line_of == Joined(ids, [i \in Known(context.lines, "item") |-> Named(context.lines, "item", i)])
           doomed == {r \in gone : photos[r].uploaded}
           e == Ended("line_items")
<1>1. /\ Begins("line_items") /\ UNCHANGED <<projects, allocator, store>>
      /\ \/ Refuse /\ UNCHANGED <<lines, photos, last_id>>
         \/ /\ lines' = [r \in DOMAIN table \ stale |-> table[r]]
            /\ photos' = [r \in DOMAIN photos \ gone |->
                            IF photos[r].line \in stale THEN [photos[r] EXCEPT !.line = None] ELSE photos[r]]
            /\ last_id' = last_id + Cardinality(NewItems)
            /\ run' = [e EXCEPT !.line_of = line_of, !.doomed = doomed]
  BY Zenon DEF ImportLineItems
<1>2. CASE Refuse /\ UNCHANGED <<lines, photos, last_id>>
  <2>1. UNCHANGED <<work, last_id>> BY <1>1, <1>2 DEF work
  <2>2. Aside BY <1>2, <2>1, RefusedIsAside DEF IInv
  <2>3. lines' = lines /\ photos' = photos /\ store' = store BY <1>1, <1>2
  <2>4. AppLinesStay BY <2>3 DEF AppLinesStay, Row
  <2>5. AppPhotosStay BY <2>3, AppPhotosAreStored DEF AppPhotosStay
  <2> QED BY <2>2, <2>4, <2>5, AsideKeepsTheInvariant
<1>3. CASE /\ lines' = [r \in DOMAIN table \ stale |-> table[r]]
           /\ photos' = [r \in DOMAIN photos \ gone |->
                            IF photos[r].line \in stale THEN [photos[r] EXCEPT !.line = None] ELSE photos[r]]
           /\ last_id' = last_id + Cardinality(NewItems)
           /\ run' = [e EXCEPT !.line_of = line_of, !.doomed = doomed]
  <2>1. /\ IsFiniteSet(DOMAIN export.items) /\ None \notin DOMAIN export.items
        /\ Items \subseteq DOMAIN export.items /\ NewItems \subseteq Items
    BY <1>1, TheExport DEF Begins, IInv, Items, NewItems
  <2>2. last_id' \in Nat /\ last_id' >= last_id
    <3>1. Cardinality(NewItems) \in Nat BY <2>1, FS_Subset, FS_CardinalityType
    <3>2. last_id' = last_id + Cardinality(NewItems) BY <1>3
    <3>3. last_id \in Nat BY DEF IInv, IdsAreGivenOnce
    <3> QED BY <3>1, <3>2, <3>3
  <2>3. ASSUME NEW r \in Row(lines, "item", None)
        PROVE  r \in DOMAIN table \ stale /\ table[r] = lines[r]
    <3>1. r \in DOMAIN lines /\ lines[r].item = None BY DEF Row
    <3>2. r \notin known BY <2>1, <3>1
    <3>3. kept[r] = lines[r] /\ r \in DOMAIN kept BY <3>1, <3>2
    <3> HIDE DEF kept
    <3>4. r \in DOMAIN table /\ table[r] = kept[r] BY <3>3 DEF Joined
    <3> HIDE DEF table
    <3> QED BY <3>1, <3>3, <3>4
  <2> HIDE DEF table, known, kept
  <2>4. AppLinesStay BY <1>3, <2>3 DEF AppLinesStay
  <2>5. DOMAIN lines' = DOMAIN table \ stale BY <1>3
  <2>6. /\ IsRun(e) /\ e.done = run.done \union {"line_items"} /\ e.export = run.export
        /\ e.context = run.context /\ e.stored = run.stored /\ e.photo_of = run.photo_of
    BY EndedPhase DEF IInv, RunIsSound
  <2>7. /\ IsRun(run)' /\ run'.done = run.done \union {"line_items"} /\ run'.export = run.export
        /\ run'.context = run.context /\ run'.stored = run.stored /\ run'.photo_of = run.photo_of
        /\ run'.doomed = doomed
    <3> HIDE DEF e, line_of, doomed
    <3> QED BY <1>3, <2>6 DEF IsRun
  <2> HIDE DEF stale
  <2>8. DOMAIN photos' = DOMAIN photos \ gone /\ doomed \subseteq gone /\ gone \subseteq DOMAIN photos
    BY <1>3
  <2>9. ASSUME NEW r \in DOMAIN photos'
        PROVE  /\ IsPhoto(photos'[r]) /\ photos'[r].image = photos[r].image
               /\ photos'[r].uploaded = photos[r].uploaded
               /\ photos'[r].line \in {photos[r].line, None}
               /\ photos[r].line \notin stale => photos'[r] = photos[r]
    <3>1. IsPhoto(photos[r]) BY <2>8 DEF IInv, PhotosAreSound
    <3>2. photos'[r] = IF photos[r].line \in stale THEN [photos[r] EXCEPT !.line = None] ELSE photos[r]
      BY <1>3, <2>8
    <3> QED BY <3>1, <3>2, CutPhoto
  <2>10. ASSUME NEW r \in Row(photos, "image", None)
         PROVE  r \in DOMAIN photos' \cap store'
    BY <1>1, <2>8, AppPhotosAreStored
  <2> HIDE DEF gone, doomed
  <2>11. AppPhotosStay
    <3> SUFFICES ASSUME NEW r \in Row(photos, "image", None)
                 PROVE  /\ r \in DOMAIN photos' \cap store'
                        /\ photos'[r].line \in {photos[r].line, None}
                        /\ photos[r].line \in DOMAIN lines' => photos'[r] = photos[r]
      BY DEF AppPhotosStay
    <3> QED BY <2>5, <2>9, <2>10
  <2>12. RunIsSound'
    <3>1. \A p \in run'.done : Awaits(p) \subseteq run'.done
      <4> DEFINE phases == {"line_items"}
      <4>1. run'.done = run.done \union phases /\ \A p \in phases : Begins(p) BY <1>1, <2>7
      <4> HIDE DEF phases
      <4> QED BY <4>1, PhasesEndInOrder DEF IInv
    <3> QED BY <1>1, <2>7, <3>1 DEF IInv, RunIsSound
  <2>13. IdsAreGivenOnce'
    <3>1. last_id \in Nat BY DEF IInv, IdsAreGivenOnce
    <3>2. ASSUME NEW r \in DOMAIN photos' \union run'.doomed \union DOMAIN run'.context.photos
          PROVE  r \in Nat /\ r <= last_id'
      <4>1. r \in DOMAIN photos \union DOMAIN run.context.photos BY <2>7, <2>8
      <4>2. r \in Nat /\ r <= last_id BY <4>1 DEF IInv, IdsAreGivenOnce
      <4> QED BY <2>2, <3>1, <4>2
    <3>3. ASSUME NEW r \in DOMAIN run'.context.photos \cap DOMAIN photos'
          PROVE  run'.context.photos[r].image = photos'[r].image
      BY <2>7, <2>8, <2>9 DEF IInv, IdsAreGivenOnce
    <3> QED BY <2>2, <3>2, <3>3 DEF IdsAreGivenOnce
  <2>14. PhotosAreSound'
    <3>1. UploadedPhotosHaveObjects'
      BY <1>1, <2>8, <2>9 DEF IInv, PhotosAreSound, UploadedPhotosHaveObjects
    <3>2. ASSUME NEW r \in DOMAIN photos'
          PROVE  IsPhoto(photos'[r]) /\ (photos'[r].image = None => photos'[r].uploaded)
      BY <2>8, <2>9 DEF IInv, PhotosAreSound
    <3> QED BY <2>7, <2>8, <3>1, <3>2 DEF PhotosAreSound
  <2>15. ProjectsAreSound' /\ LateNumbersAreTheApps'
    <3> DEFINE phases == {"line_items"}
    <3>1. phases \cap {"rows_read", "projects"} = {} /\ run'.done = run.done \union phases BY <2>7
    <3> HIDE DEF phases
    <3> QED BY <1>1, <2>7, <3>1, ProjectsAreLeftAlone
  <2> QED BY <2>4, <2>11, <2>12, <2>13, <2>14, <2>15 DEF IInv
<1> QED BY <1>1, <1>2, <1>3


(* A photo moved to where the export has it is the same one still.         *)
LEMMA MovedPhoto ==
  ASSUME NEW old, IsPhoto(old)
  PROVE  LET new == [PhotoFields(old.image) EXCEPT
                       !.uploaded = old.uploaded, !.line = IF old.line = None THEN None ELSE @]
         IN  IsPhoto(new) /\ new.image = old.image /\ new.uploaded = old.uploaded
<1> DEFINE base == PhotoFields(old.image)
           uploaded == old.uploaded
           cut == old.line = None
           new == [base EXCEPT !.uploaded = uploaded, !.line = IF cut THEN None ELSE @]
<1>1. uploaded \in BOOLEAN BY DEF IsPhoto
<1>2. /\ base.image = old.image
      /\ base \in [image : {base.image}, project : {base.project}, line : {base.line}, uploaded : {base.uploaded}]
  BY DEF PhotoFields
<1>3. new = [base EXCEPT !.uploaded = uploaded, !.line = IF cut THEN None ELSE @] OBVIOUS
<1> HIDE DEF base, uploaded, cut, new
<1>4. /\ new.image = old.image /\ new.uploaded = uploaded
      /\ new \in [image : {new.image}, project : {new.project}, line : {new.line}, uploaded : BOOLEAN]
  BY <1>1, <1>2, <1>3
<1> QED BY <1>4 DEF new, base, uploaded, cut, IsPhoto

(* The images of the phase are those of the export, and a known one has a   *)
(* row that the context names.                                             *)
LEMMA KnownImagesHaveRows ==
  ASSUME IInv, Begins("image_rows")
  PROVE  /\ None \notin Images /\ IsFiniteSet(NewImages) /\ NewImages \subseteq Images
         /\ \A p \in KnownImages : /\ Named(context.photos, "image", p) \in DOMAIN context.photos
                                   /\ context.photos[Named(context.photos, "image", p)].image = p
<1>1. /\ IsFiniteSet(DOMAIN export.photos) /\ None \notin DOMAIN export.photos
      /\ Images \subseteq DOMAIN export.photos
  BY TheExport DEF Begins, IInv, Images
<1>2. NewImages \in SUBSET DOMAIN export.photos BY <1>1 DEF NewImages
<1>3. ASSUME NEW p \in KnownImages
      PROVE  /\ Named(context.photos, "image", p) \in DOMAIN context.photos
             /\ context.photos[Named(context.photos, "image", p)].image = p
  <2>1. Row(context.photos, "image", p) # {} BY DEF KnownImages, Known, Row
  <2>2. Named(context.photos, "image", p) \in Row(context.photos, "image", p) BY <2>1, Zenon DEF Named
  <2> QED BY <2>2 DEF Row
<1> QED BY <1>1, <1>2, <1>3, FS_Subset DEF NewImages

LEMMA ImportImagesKeepsTheInvariant ==
  ASSUME IInv, ImportImages
  PROVE  IInv' /\ AppLinesStay /\ AppPhotosStay
<1> DEFINE ids == NewIds(NewImages)
           row_of == Joined(ids, [p \in KnownImages |-> Named(context.photos, "image", p)])
           Moves(r) == \E p \in KnownImages : row_of[p] = r
           moved == [r \in DOMAIN photos |->
                       IF Moves(r)
                       THEN [PhotoFields(photos[r].image) EXCEPT
                               !.uploaded = photos[r].uploaded, !.line = IF photos[r].line = None THEN None ELSE @]
                       ELSE photos[r]]
           inserted == Inserted(ids, PhotoFields)
           table == Joined(moved, inserted)
           doomed == {r \in StalePhotos : context.photos[r].uploaded}
           e == Ended("image_rows")
<1>1. /\ Begins("image_rows") /\ UNCHANGED <<projects, allocator, store, lines>>
      /\ \/ Refuse /\ UNCHANGED <<photos, last_id>>
         \/ /\ photos' = [r \in DOMAIN table \ StalePhotos |-> table[r]]
            /\ last_id' = last_id + Cardinality(NewImages)
            /\ run' = [e EXCEPT !.photo_of = row_of, !.doomed = doomed]
  BY Zenon DEF ImportImages
<1>2. AppLinesStay BY <1>1 DEF AppLinesStay, Row
<1>3. CASE Refuse /\ UNCHANGED <<photos, last_id>>
  <2>1. UNCHANGED <<work, last_id>> BY <1>1, <1>3 DEF work
  <2>2. Aside BY <1>3, <2>1, RefusedIsAside DEF IInv
  <2>3. AppPhotosStay BY <1>1, <1>3, AppPhotosAreStored DEF AppPhotosStay
  <2> QED BY <1>2, <2>2, <2>3, AsideKeepsTheInvariant
<1>4. CASE /\ photos' = [r \in DOMAIN table \ StalePhotos |-> table[r]]
           /\ last_id' = last_id + Cardinality(NewImages)
           /\ run' = [e EXCEPT !.photo_of = row_of, !.doomed = doomed]
  <2>1. /\ None \notin Images /\ IsFiniteSet(NewImages) /\ NewImages \subseteq Images
        /\ \A p \in KnownImages : /\ Named(context.photos, "image", p) \in DOMAIN context.photos
                                  /\ context.photos[Named(context.photos, "image", p)].image = p
    BY <1>1, KnownImagesHaveRows
  <2>2. last_id \in Nat BY DEF IInv, IdsAreGivenOnce
  <2>3. /\ Cardinality(NewImages) \in Nat /\ DOMAIN ids = NewImages
        /\ \A p \in NewImages : ids[p] \in (last_id + 1)..(last_id + Cardinality(NewImages))
    BY <2>1, <2>2, NewIdsAreNew
  <2>4. last_id' = last_id + Cardinality(NewImages) BY <1>4
  <2> HIDE DEF ids
  <2>5. ASSUME NEW p \in KnownImages
        PROVE  row_of[p] \in DOMAIN context.photos /\ context.photos[row_of[p]].image = p /\ p # None
    <3>1. p \notin NewImages BY DEF NewImages
    <3>2. row_of[p] = Named(context.photos, "image", p) BY <2>3, <3>1 DEF Joined
    <3> QED BY <2>1, <3>2 DEF KnownImages
  <2> HIDE DEF row_of
  <2>6. ASSUME NEW r \in DOMAIN photos, Moves(r) PROVE photos[r].image # None
    <3>1. PICK p \in KnownImages : row_of[p] = r BY <2>6
    <3> QED BY <2>5, <3>1 DEF IInv, IdsAreGivenOnce, context
  <2>7. ASSUME NEW r \in DOMAIN photos
        PROVE  /\ IsPhoto(moved[r]) /\ moved[r].image = photos[r].image
               /\ moved[r].uploaded = photos[r].uploaded
               /\ photos[r].image = None => moved[r] = photos[r]
    <3>1. IsPhoto(photos[r]) BY DEF IInv, PhotosAreSound
    <3>2. CASE ~Moves(r) BY <3>1, <3>2
    <3>3. CASE Moves(r)
      <4>1. moved[r] = [PhotoFields(photos[r].image) EXCEPT
                          !.uploaded = photos[r].uploaded, !.line = IF photos[r].line = None THEN None ELSE @]
        BY <3>3
      <4> HIDE DEF moved
      <4> QED BY <2>6, <3>1, <3>3, <4>1, MovedPhoto
    <3> QED BY <3>2, <3>3
  <2>8. DOMAIN moved = DOMAIN photos OBVIOUS
  <2> HIDE DEF moved, Moves
  <2>9. ASSUME NEW r \in DOMAIN inserted
        PROVE  /\ r \in (last_id + 1)..last_id'
               /\ IsPhoto(inserted[r]) /\ inserted[r].image # None /\ inserted[r].uploaded = FALSE
    <3> DEFINE p == CHOOSE p \in DOMAIN ids : ids[p] = r
    <3>1. \E q \in DOMAIN ids : ids[q] = r BY DEF Inserted
    <3>2. p \in DOMAIN ids /\ ids[p] = r BY <3>1, Zenon
    <3>3. inserted[r] = PhotoFields(p) BY DEF Inserted
    <3> HIDE DEF p
    <3>4. /\ PhotoFields(p).image = p /\ PhotoFields(p).uploaded = FALSE
          /\ IsPhoto(PhotoFields(p))
      BY DEF PhotoFields, IsPhoto
    <3> QED BY <2>1, <2>3, <2>4, <3>2, <3>3, <3>4
  <2> HIDE DEF inserted
  <2>10. /\ DOMAIN table = DOMAIN photos \union DOMAIN inserted
         /\ \A r \in DOMAIN table : table[r] = IF r \in DOMAIN photos THEN moved[r] ELSE inserted[r]
    BY <2>8 DEF Joined
  <2> HIDE DEF table
  <2>11. /\ DOMAIN photos' = (DOMAIN photos \union DOMAIN inserted) \ StalePhotos
         /\ \A r \in DOMAIN photos' : photos'[r] = IF r \in DOMAIN photos THEN moved[r] ELSE inserted[r]
    BY <1>4, <2>10
  <2>12. StalePhotos \subseteq DOMAIN run.context.photos /\ doomed \subseteq StalePhotos
    BY DEF StalePhotos, context
  <2>13. ASSUME NEW r \in DOMAIN photos'
         PROVE  /\ IsPhoto(photos'[r])
                /\ photos'[r].image = None => photos'[r].uploaded
                /\ photos'[r].uploaded => r \in store
    <3>1. CASE r \in DOMAIN photos
      BY <2>7, <2>11, <3>1 DEF IInv, PhotosAreSound, UploadedPhotosHaveObjects
    <3>2. CASE r \in DOMAIN inserted /\ r \notin DOMAIN photos BY <2>9, <2>11, <3>2
    <3> QED BY <2>11, <3>1, <3>2
  <2>14. /\ IsRun(e) /\ e.done = run.done \union {"image_rows"} /\ e.export = run.export
         /\ e.context = run.context /\ e.stored = run.stored
    BY EndedPhase DEF IInv, RunIsSound
  <2>15. /\ IsRun(run)' /\ run'.done = run.done \union {"image_rows"} /\ run'.export = run.export
         /\ run'.context = run.context /\ run'.stored = run.stored /\ run'.doomed = doomed
    <3> HIDE DEF e, doomed
    <3> QED BY <1>4, <2>14 DEF IsRun
  <2> HIDE DEF doomed
  <2>16. AppPhotosStay
    <3> SUFFICES ASSUME NEW r \in Row(photos, "image", None)
                 PROVE  r \in DOMAIN photos' \cap store' /\ photos'[r] = photos[r]
      BY DEF AppPhotosStay
    <3>1. r \in DOMAIN photos /\ photos[r].image = None /\ r \in store BY AppPhotosAreStored
    <3>2. r \notin StalePhotos BY <3>1 DEF StalePhotos, context, IInv, IdsAreGivenOnce
    <3> QED BY <1>1, <2>7, <2>11, <3>1, <3>2
  <2>17. RunIsSound'
    <3>1. \A p \in run'.done : Awaits(p) \subseteq run'.done
      <4> DEFINE phases == {"image_rows"}
      <4>1. run'.done = run.done \union phases /\ \A p \in phases : Begins(p) BY <1>1, <2>15
      <4> HIDE DEF phases
      <4> QED BY <4>1, PhasesEndInOrder DEF IInv
    <3>2. "image_rows" \notin run.done BY <1>1 DEF Begins
    <3>3. "image_objects" \notin run.done BY <3>2 DEF IInv, RunIsSound, Awaits
    <3> QED BY <1>1, <2>15, <3>1, <3>3 DEF IInv, RunIsSound
  <2>18. IdsAreGivenOnce'
    <3>1. last_id' \in Nat /\ last_id' >= last_id BY <2>2, <2>3, <2>4
    <3>2. ASSUME NEW r \in DOMAIN photos' \union run'.doomed \union DOMAIN run'.context.photos
          PROVE  r \in Nat /\ r <= last_id'
      <4>1. CASE r \in DOMAIN photos \union DOMAIN run.context.photos
        <5>1. r \in Nat /\ r <= last_id BY <4>1 DEF IInv, IdsAreGivenOnce
        <5> QED BY <2>2, <3>1, <5>1
      <4>2. CASE r \in DOMAIN inserted
        <5>1. r \in (last_id + 1)..last_id' BY <2>9, <4>2
        <5> QED BY <2>2, <3>1, <5>1
      <4> QED BY <2>11, <2>12, <2>15, <4>1, <4>2
    <3>3. ASSUME NEW r \in DOMAIN run'.context.photos \cap DOMAIN photos'
          PROVE  run'.context.photos[r].image = photos'[r].image
      <4>1. r \in DOMAIN run.context.photos /\ run'.context = run.context BY <2>15
      <4>2. r \in Nat /\ r <= last_id BY <4>1 DEF IInv, IdsAreGivenOnce
      <4>3. r \notin DOMAIN inserted
        <5>1. r \in DOMAIN inserted => r \in (last_id + 1)..last_id' BY <2>9
        <5> QED BY <2>2, <3>1, <4>2, <5>1
      <4> QED BY <2>7, <2>11, <4>1, <4>3 DEF IInv, IdsAreGivenOnce
    <3> QED BY <3>1, <3>2, <3>3 DEF IdsAreGivenOnce
  <2>19. PhotosAreSound'
    <3>1. UploadedPhotosHaveObjects' BY <1>1, <2>13 DEF UploadedPhotosHaveObjects
    <3> QED BY <2>11, <2>12, <2>13, <2>15, <3>1 DEF PhotosAreSound
  <2>20. ProjectsAreSound' /\ LateNumbersAreTheApps'
    <3> DEFINE phases == {"image_rows"}
    <3>1. phases \cap {"rows_read", "projects"} = {} /\ run'.done = run.done \union phases BY <2>15
    <3> HIDE DEF phases
    <3> QED BY <1>1, <2>15, <3>1, ProjectsAreLeftAlone
  <2> QED BY <1>2, <2>16, <2>17, <2>18, <2>19, <2>20 DEF IInv
<1> QED BY <1>1, <1>3, <1>4


(***************************************************************************)
(* The users of the app                                                    *)
(***************************************************************************)

LEMMA CreateLeadKeepsTheInvariant ==
  ASSUME IInv, NEW c, CreateLead(c)
  PROVE  IInv' /\ ClosesOnly
<1> DEFINE n == allocator.next
           word == IF allocator.raised THEN "late" ELSE "early"
           lead == [client |-> c, document |-> "lead_unqualified", history |-> <<"lead_unqualified">>,
                    closed |-> FALSE, closed_at |-> None, in_app |-> word]
<1>1. /\ n \notin DOMAIN projects /\ projects' = WithRow(projects, n, lead)
      /\ allocator' = [allocator EXCEPT !.next = @ + 1]
      /\ UNCHANGED <<photos, store, run, last_id>>
  BY DEF CreateLead
<1>2. allocator \in [next : Nat, raised : BOOLEAN] BY DEF IInv, LateNumbersAreTheApps
<1>3. /\ allocator' \in [next : Nat, raised : BOOLEAN] /\ allocator'.raised = allocator.raised
      /\ allocator'.next = n + 1 /\ n \in Nat
  BY <1>1, <1>2
<1>4. IsProject(lead) /\ Last(lead.history) = lead.document /\ lead.in_app = word
  <2>1. "lead_unqualified" \in Documents BY DEF Documents
  <2>2. <<"lead_unqualified">> \in Seq(Documents) /\ Last(<<"lead_unqualified">>) = "lead_unqualified"
    BY <2>1 DEF Last
  <2> QED BY <2>1, <2>2 DEF IsProject
<1> HIDE DEF lead, n
<1>5. /\ DOMAIN projects' = DOMAIN projects \union {n} /\ projects'[n] = lead
      /\ \A m \in DOMAIN projects : projects'[m] = projects[m]
  BY <1>1 DEF WithRow
<1>6. ClosesOnly BY <1>5 DEF ClosesOnly
<1>7. RunIsSound' BY <1>1 DEF IInv, RunIsSound, IsRun, IsContext
<1>8. IdsAreGivenOnce' BY <1>1 DEF IInv, IdsAreGivenOnce
<1>9. PhotosAreSound'
  <2>1. UploadedPhotosHaveObjects' BY <1>1 DEF IInv, PhotosAreSound, UploadedPhotosHaveObjects
  <2> QED BY <1>1, <2>1 DEF IInv, PhotosAreSound
<1>10. ProjectsAreSound'
  <2>1. HistoryEndsAtTheDocument'
    BY <1>4, <1>5 DEF IInv, ProjectsAreSound, HistoryEndsAtTheDocument, Undated
  <2>2. \A m \in DOMAIN projects' : IsProject(projects'[m])
    BY <1>4, <1>5 DEF IInv, ProjectsAreSound
  <2>3. ASSUME "rows_read" \in run.done, "projects" \notin run.done, NEW m \in DOMAIN run.context.projects
        PROVE  m \in DOMAIN projects' /\ run.context.projects[m].closed_at = projects'[m].closed_at
    BY <1>5, <2>3 DEF IInv, ProjectsAreSound
  <2> QED BY <1>1, <2>1, <2>2, <2>3 DEF ProjectsAreSound
<1>11. LateNumbersAreTheApps'
  <2>1. ASSUME NEW x \in Exports, NEW l \in DOMAIN x.leads, allocator.raised PROVE l < n /\ l \in Nat
    BY <2>1, ExportsAssumption DEF IInv, LateNumbersAreTheApps, n
  <2>2. ASSUME allocator.raised PROVE \A x \in Exports : \A l \in DOMAIN x.leads : l < n + 1
    BY <1>3, <2>1, <2>2
  <2>3. ASSUME NEW m \in Row(projects, "in_app", "late")', NEW x \in Exports PROVE m \notin DOMAIN x.leads
    <3>1. m \in DOMAIN projects' /\ projects'[m].in_app = "late" BY DEF Row
    <3>2. CASE m = n
      <4>1. allocator.raised BY <1>4, <1>5, <3>1, <3>2
      <4> QED BY <1>3, <2>1, <3>2, <4>1
    <3>3. CASE m # n
      <4>1. m \in Row(projects, "in_app", "late") BY <1>5, <3>1, <3>3 DEF Row
      <4> QED BY <4>1 DEF IInv, LateNumbersAreTheApps
    <3> QED BY <3>2, <3>3
  <2> QED BY <1>3, <2>2, <2>3 DEF LateNumbersAreTheApps
<1> QED BY <1>6, <1>7, <1>8, <1>9, <1>10, <1>11 DEF IInv

(* A project that moves gets the document, and its history gets it too.     *)
LEMMA MovedProject ==
  ASSUME NEW old, IsProject(old), NEW document \in Documents
  PROVE  LET new == [old EXCEPT !.document = document, !.history = Append(@, document)]
         IN  /\ IsProject(new) /\ Last(new.history) = new.document
             /\ new.closed = old.closed /\ new.closed_at = old.closed_at /\ new.in_app = old.in_app
<1> DEFINE history == Append(old.history, document)
           new == [old EXCEPT !.document = document, !.history = Append(@, document)]
<1>1. old \in [client : {old.client}, document : Documents, history : Seq(Documents), closed : BOOLEAN,
               closed_at : {old.closed_at}, in_app : {old.in_app}]
  BY DEF IsProject
<1>2. history \in Seq(Documents) /\ Last(history) = document BY <1>1, AppendedIsLast
<1>3. new = [old EXCEPT !.document = document, !.history = history] BY <1>1
<1> HIDE DEF new, history
<1>4. /\ new.document = document /\ new.history = history /\ new.closed = old.closed
      /\ new.closed_at = old.closed_at /\ new.in_app = old.in_app
      /\ new \in [client : {new.client}, document : {document}, history : {history}, closed : BOOLEAN,
                  closed_at : {new.closed_at}, in_app : {new.in_app}]
  BY <1>1, <1>3
<1>5. IsProject(new) BY <1>2, <1>4 DEF IsProject
<1> QED BY <1>2, <1>4, <1>5 DEF new

LEMMA MoveDocumentKeepsTheInvariant ==
  ASSUME IInv, NEW n \in DOMAIN projects, NEW document \in {"estimate", "work_order"},
         MoveDocument(n, document)
  PROVE  IInv' /\ ClosesOnly
<1> DEFINE old == projects[n]
           new == [old EXCEPT !.document = document, !.history = Append(@, document)]
<1>1. /\ projects' = [projects EXCEPT ![n].document = document, ![n].history = Append(@, document)]
      /\ UNCHANGED <<allocator, photos, store, run, last_id>>
  BY DEF MoveDocument
<1>2. document \in Documents BY DEF Documents
<1>3. /\ IsProject(new) /\ Last(new.history) = new.document
      /\ new.closed = old.closed /\ new.closed_at = old.closed_at /\ new.in_app = old.in_app
  BY <1>2, MovedProject DEF IInv, ProjectsAreSound
<1>4. /\ DOMAIN projects' = DOMAIN projects /\ projects'[n] = new
      /\ \A m \in DOMAIN projects \ {n} : projects'[m] = projects[m]
  BY <1>1
<1> HIDE DEF new
<1>5. ClosesOnly BY <1>3, <1>4 DEF ClosesOnly
<1>6. RunIsSound' BY <1>1 DEF IInv, RunIsSound, IsRun, IsContext
<1>7. IdsAreGivenOnce' BY <1>1 DEF IInv, IdsAreGivenOnce
<1>8. PhotosAreSound'
  <2>1. UploadedPhotosHaveObjects' BY <1>1 DEF IInv, PhotosAreSound, UploadedPhotosHaveObjects
  <2> QED BY <1>1, <2>1 DEF IInv, PhotosAreSound
<1>9. ProjectsAreSound'
  <2>1. HistoryEndsAtTheDocument'
    BY <1>3, <1>4 DEF IInv, ProjectsAreSound, HistoryEndsAtTheDocument, Undated
  <2>2. \A m \in DOMAIN projects' : IsProject(projects'[m])
    BY <1>3, <1>4 DEF IInv, ProjectsAreSound
  <2>3. ASSUME "rows_read" \in run.done, "projects" \notin run.done, NEW m \in DOMAIN run.context.projects
        PROVE  m \in DOMAIN projects' /\ run.context.projects[m].closed_at = projects'[m].closed_at
    BY <1>3, <1>4, <2>3 DEF IInv, ProjectsAreSound
  <2> QED BY <1>1, <2>1, <2>2, <2>3 DEF ProjectsAreSound
<1>10. LateNumbersAreTheApps'
  <2>1. ASSUME NEW m \in Row(projects, "in_app", "late")' PROVE m \in Row(projects, "in_app", "late")
    BY <1>3, <1>4 DEF Row
  <2> QED BY <1>1, <2>1 DEF IInv, LateNumbersAreTheApps
<1> QED BY <1>5, <1>6, <1>7, <1>8, <1>9, <1>10 DEF IInv

LEMMA AddLineItemKeepsTheInvariant ==
  ASSUME IInv, NEW n, AddLineItem(n)
  PROVE  IInv' /\ ClosesOnly
<1>1. last_id' = last_id + 1 /\ last_id \in Nat /\ UNCHANGED <<projects, allocator, photos, store, run>>
  BY DEF AddLineItem, IInv, IdsAreGivenOnce
<1>2. RunIsSound' BY <1>1 DEF IInv, RunIsSound, IsRun, IsContext
<1>3. IdsAreGivenOnce'
  <2>1. last_id' \in Nat /\ last_id' >= last_id BY <1>1
  <2> QED BY <1>1, <2>1 DEF IInv, IdsAreGivenOnce
<1>4. PhotosAreSound'
  <2>1. UploadedPhotosHaveObjects' BY <1>1 DEF IInv, PhotosAreSound, UploadedPhotosHaveObjects
  <2> QED BY <1>1, <2>1 DEF IInv, PhotosAreSound
<1>5. ProjectsAreSound' /\ LateNumbersAreTheApps'
  <2> DEFINE phases == {}
  <2>1. phases \cap {"rows_read", "projects"} = {} /\ run'.done = run.done \union phases BY <1>1
  <2> HIDE DEF phases
  <2> QED BY <1>1, <2>1, ProjectsAreLeftAlone
<1>6. ClosesOnly BY <1>1 DEF ClosesOnly
<1> QED BY <1>2, <1>3, <1>4, <1>5, <1>6 DEF IInv

LEMMA AddPhotoKeepsTheInvariant ==
  ASSUME IInv, NEW line, AddPhoto(line)
  PROVE  IInv' /\ ClosesOnly
<1> DEFINE id == last_id + 1
           photo == [image |-> None, project |-> lines[line].project, line |-> line, uploaded |-> TRUE]
<1>1. /\ last_id' = id /\ last_id \in Nat /\ photos' = WithRow(photos, id, photo)
      /\ store' = store \union {id} /\ UNCHANGED <<projects, allocator, run>>
  BY DEF AddPhoto, IInv, IdsAreGivenOnce
<1>2. IsPhoto(photo) /\ photo.uploaded = TRUE BY DEF IsPhoto
<1>3. /\ id \notin DOMAIN photos /\ id \notin run.doomed /\ id \notin DOMAIN run.context.photos
      /\ id \in Nat /\ id >= last_id
  BY <1>1 DEF IInv, IdsAreGivenOnce
<1> HIDE DEF id, photo
<1>4. /\ DOMAIN photos' = DOMAIN photos \union {id} /\ photos'[id] = photo
      /\ \A r \in DOMAIN photos : photos'[r] = photos[r]
  BY <1>1, <1>3 DEF WithRow
<1>5. RunIsSound' BY <1>1 DEF IInv, RunIsSound, IsRun, IsContext
<1>6. IdsAreGivenOnce'
  <2>1. ASSUME NEW r \in DOMAIN photos' \union run.doomed \union DOMAIN run.context.photos
        PROVE  r \in Nat /\ r <= id
    <3>1. CASE r = id BY <1>3, <3>1
    <3>2. CASE r # id
      <4>1. r \in Nat /\ r <= last_id BY <1>4, <3>2 DEF IInv, IdsAreGivenOnce
      <4> QED BY <1>1, <1>3, <4>1
    <3> QED BY <3>1, <3>2
  <2>2. ASSUME NEW r \in DOMAIN run.context.photos \cap DOMAIN photos'
        PROVE  run.context.photos[r].image = photos'[r].image
    BY <1>3, <1>4 DEF IInv, IdsAreGivenOnce
  <2> QED BY <1>1, <1>3, <2>1, <2>2 DEF IdsAreGivenOnce
<1>7. PhotosAreSound'
  <2>1. UploadedPhotosHaveObjects' BY <1>1, <1>4 DEF IInv, PhotosAreSound, UploadedPhotosHaveObjects
  <2>2. ASSUME NEW r \in DOMAIN photos'
        PROVE  IsPhoto(photos'[r]) /\ (photos'[r].image = None => photos'[r].uploaded)
    BY <1>2, <1>4 DEF IInv, PhotosAreSound
  <2> QED BY <1>1, <1>3, <1>4, <2>1, <2>2 DEF IInv, PhotosAreSound
<1>8. ProjectsAreSound' /\ LateNumbersAreTheApps'
  <2> DEFINE phases == {}
  <2>1. phases \cap {"rows_read", "projects"} = {} /\ run'.done = run.done \union phases BY <1>1
  <2> HIDE DEF phases
  <2> QED BY <1>1, <2>1, ProjectsAreLeftAlone
<1>9. ClosesOnly BY <1>1 DEF ClosesOnly
<1> QED BY <1>5, <1>6, <1>7, <1>8, <1>9 DEF IInv

LEMMA RemoveLineItemKeepsTheInvariant ==
  ASSUME IInv, NEW line, RemoveLineItem(line)
  PROVE  IInv' /\ ClosesOnly
<1>1. /\ photos' = [r \in DOMAIN photos |->
                      IF photos[r].line = line THEN [photos[r] EXCEPT !.line = None] ELSE photos[r]]
      /\ run' = [run EXCEPT !.removed = @ \union {line}]
      /\ UNCHANGED <<projects, allocator, store, last_id>>
  BY DEF RemoveLineItem
<1>2. /\ IsRun(run)' /\ run'.done = run.done /\ run'.export = run.export
      /\ run'.context = run.context /\ run'.stored = run.stored /\ run'.photo_of = run.photo_of
      /\ run'.doomed = run.doomed
  BY <1>1 DEF IsRun, IInv, RunIsSound
<1>3. DOMAIN photos' = DOMAIN photos BY <1>1
<1>4. ASSUME NEW r \in DOMAIN photos
      PROVE  IsPhoto(photos'[r]) /\ photos'[r].image = photos[r].image /\ photos'[r].uploaded = photos[r].uploaded
  <2>1. IsPhoto(photos[r]) BY DEF IInv, PhotosAreSound
  <2>2. photos'[r] = IF photos[r].line = line THEN [photos[r] EXCEPT !.line = None] ELSE photos[r]
    BY <1>1
  <2> QED BY <2>1, <2>2, CutPhoto
<1>5. RunIsSound' BY <1>1, <1>2 DEF IInv, RunIsSound
<1>6. IdsAreGivenOnce' BY <1>1, <1>2, <1>3, <1>4 DEF IInv, IdsAreGivenOnce
<1>7. PhotosAreSound'
  <2>1. UploadedPhotosHaveObjects' BY <1>1, <1>3, <1>4 DEF IInv, PhotosAreSound, UploadedPhotosHaveObjects
  <2> QED BY <1>2, <1>3, <1>4, <2>1 DEF IInv, PhotosAreSound
<1>8. ProjectsAreSound' /\ LateNumbersAreTheApps'
  <2> DEFINE phases == {}
  <2>1. phases \cap {"rows_read", "projects"} = {} /\ run'.done = run.done \union phases BY <1>2
  <2> HIDE DEF phases
  <2> QED BY <1>1, <1>2, <2>1, ProjectsAreLeftAlone
<1>9. ClosesOnly BY <1>1 DEF ClosesOnly
<1> QED BY <1>5, <1>6, <1>7, <1>8, <1>9 DEF IInv


(***************************************************************************)
(* The whole                                                               *)
(***************************************************************************)

LEMMA InitEstablishesTheInvariant ==
  ASSUME Init
  PROVE  IInv
<1>1. /\ photos = Nothing /\ projects = Nothing /\ allocator = [next |-> 1, raised |-> FALSE]
      /\ run = Idle /\ last_id = Cardinality(DOMAIN Staff)
  BY DEF Init
<1>2. /\ IsRun(run) /\ run.export = None /\ run.done = {} /\ run.context = NothingRead
      /\ run.doomed = {} /\ run.stored = {}
  BY <1>1 DEF Idle, IsRun
<1>3. IsContext(NothingRead) /\ DOMAIN NothingRead.photos = {}
  BY DEF NothingRead, Nothing, IsContext
<1>4. DOMAIN photos = {} /\ DOMAIN projects = {} BY <1>1 DEF Nothing
<1>5. last_id \in Nat BY <1>1, ImportAssumption, FS_CardinalityType
<1>6. RunIsSound BY <1>2, <1>3 DEF RunIsSound
<1>7. IdsAreGivenOnce BY <1>2, <1>3, <1>4, <1>5 DEF IdsAreGivenOnce
<1>8. PhotosAreSound BY <1>2, <1>4 DEF PhotosAreSound, UploadedPhotosHaveObjects
<1>9. ProjectsAreSound BY <1>2, <1>4 DEF ProjectsAreSound, HistoryEndsAtTheDocument
<1>10. LateNumbersAreTheApps BY <1>1, <1>4 DEF LateNumbersAreTheApps, Row
<1> QED BY <1>6, <1>7, <1>8, <1>9, <1>10 DEF IInv

(* A step that leaves the work alone keeps all of it.                      *)
LEMMA AsideKeepsTheWork ==
  ASSUME IInv, Aside
  PROVE  ClosesOnly /\ LateProjectsStay /\ AppLinesStay /\ AppPhotosStay
<1>1. UNCHANGED <<projects, lines, photos, store>> BY DEF Aside, work
<1>2. ClosesOnly /\ LateProjectsStay BY <1>1 DEF ClosesOnly, LateProjectsStay, Row
<1>3. AppLinesStay BY <1>1 DEF AppLinesStay, Row
<1>4. AppPhotosStay BY <1>1, AppPhotosAreStored DEF AppPhotosStay
<1> QED BY <1>2, <1>3, <1>4

LEMMA ImportStepsKeepTheInvariant ==
  ASSUME IInv, ImportStep
  PROVE  IInv' /\ ClosesOnly /\ LateProjectsStay /\ AppLinesStay /\ AppPhotosStay
<1>1. ASSUME UNCHANGED projects PROVE ClosesOnly /\ LateProjectsStay
  BY <1>1 DEF ClosesOnly, LateProjectsStay, Row
<1>2. ASSUME UNCHANGED <<lines, photos, store>> PROVE AppLinesStay /\ AppPhotosStay
  BY <1>2, AppPhotosAreStored DEF AppLinesStay, AppPhotosStay, Row
<1>3. RunIsSound /\ IdsAreGivenOnce BY DEF IInv
<1>4. CASE ReadPhotos
  <2>1. UNCHANGED <<projects, lines, photos, store>> BY <1>4 DEF ReadPhotos, work
  <2> QED BY <1>1, <1>2, <1>4, <2>1, ReadPhotosKeepsTheInvariant
<1>5. CASE ReadRows
  <2>1. UNCHANGED <<projects, lines, photos, store>> BY <1>5 DEF ReadRows, work
  <2> QED BY <1>1, <1>2, <1>5, <2>1, ReadRowsKeepsTheInvariant
<1>6. CASE ImportEmployees
  BY <1>3, <1>6, EmployeesAreAside, AsideKeepsTheInvariant, AsideKeepsTheWork
<1>7. CASE ImportClients
  BY <1>3, <1>7, ClientsAreAside, AsideKeepsTheInvariant, AsideKeepsTheWork
<1>8. CASE ImportWorkSkills \/ ImportInvoices \/ ImportPayments
  BY <1>3, <1>8, MoneyIsAside, AsideKeepsTheInvariant, AsideKeepsTheWork
<1>9. CASE ImportProjects
  <2>1. UNCHANGED <<lines, photos, store>> BY <1>9 DEF ImportProjects
  <2> QED BY <1>2, <1>9, <2>1, ImportProjectsKeepsTheInvariant
<1>10. CASE ImportLineItems
  <2>1. UNCHANGED projects BY <1>10, Zenon DEF ImportLineItems
  <2> QED BY <1>1, <1>10, <2>1, ImportLineItemsKeepsTheInvariant
<1>11. CASE ImportImages
  <2>1. UNCHANGED projects BY <1>11, Zenon DEF ImportImages
  <2> QED BY <1>1, <1>11, <2>1, ImportImagesKeepsTheInvariant
<1>12. ASSUME NEW phase \in {"line_objects", "image_objects"}, DeleteObjects(phase)
       PROVE  IInv' /\ ClosesOnly /\ LateProjectsStay /\ AppLinesStay /\ AppPhotosStay
  <2>1. UNCHANGED projects BY <1>12 DEF DeleteObjects
  <2> QED BY <1>1, <1>12, <2>1, DeleteObjectsKeepsTheInvariant
<1>13. ASSUME NEW p \in DOMAIN run.photo_of, NEW succeeds \in BOOLEAN, Upload(p, succeeds)
       PROVE  IInv' /\ ClosesOnly /\ LateProjectsStay /\ AppLinesStay /\ AppPhotosStay
  <2>1. UNCHANGED projects BY <1>13 DEF Upload
  <2> QED BY <1>1, <1>13, <2>1, UploadKeepsTheInvariant
<1>14. CASE StoreKeys
  <2>1. UNCHANGED projects BY <1>14 DEF StoreKeys
  <2> QED BY <1>1, <1>14, <2>1, StoreKeysKeepsTheInvariant
<1> QED BY <1>4, <1>5, <1>6, <1>7, <1>8, <1>9, <1>10, <1>11, <1>12, <1>13, <1>14 DEF ImportStep

LEMMA AppStepsKeepTheInvariant ==
  ASSUME IInv, AppAction
  PROVE  IInv' /\ ClosesOnly /\ AppStep
<1>1. ASSUME NEW c \in clients, CreateLead(c) PROVE IInv' /\ ClosesOnly /\ AppStep
  BY <1>1, CreateLeadKeepsTheInvariant DEF CreateLead
<1>2. ASSUME NEW n \in DOMAIN projects, NEW document \in {"estimate", "work_order"}, MoveDocument(n, document)
      PROVE  IInv' /\ ClosesOnly /\ AppStep
  BY <1>2, MoveDocumentKeepsTheInvariant DEF MoveDocument
<1>3. ASSUME NEW n \in DOMAIN projects, AddLineItem(n) PROVE IInv' /\ ClosesOnly /\ AppStep
  BY <1>3, AddLineItemKeepsTheInvariant DEF AddLineItem
<1>4. ASSUME NEW r \in DOMAIN lines, AddPhoto(r) PROVE IInv' /\ ClosesOnly /\ AppStep
  BY <1>4, AddPhotoKeepsTheInvariant DEF AddPhoto
<1>5. ASSUME NEW r \in DOMAIN lines, RemoveLineItem(r) PROVE IInv' /\ ClosesOnly /\ AppStep
  BY <1>5, RemoveLineItemKeepsTheInvariant DEF RemoveLineItem
<1> QED BY <1>1, <1>2, <1>3, <1>4, <1>5 DEF AppAction

(* What any step keeps, and what it leaves alone unless it is the app's.    *)
LEMMA StepsKeepTheInvariant ==
  ASSUME IInv, [Next]_vars
  PROVE  /\ IInv' /\ ClosesOnly
         /\ AppStep \/ (LateProjectsStay /\ AppLinesStay /\ AppPhotosStay)
<1>1. RunIsSound /\ IdsAreGivenOnce BY DEF IInv
<1>2. ASSUME NEW exported \in Exports, Start(exported)
      PROVE  IInv' /\ ClosesOnly /\ LateProjectsStay /\ AppLinesStay /\ AppPhotosStay
  <2>1. UNCHANGED <<projects, lines, photos, store>> BY <1>2 DEF Start, work
  <2>2. ClosesOnly /\ LateProjectsStay /\ AppLinesStay
    BY <2>1 DEF ClosesOnly, LateProjectsStay, AppLinesStay, Row
  <2>3. AppPhotosStay BY <2>1, AppPhotosAreStored DEF AppPhotosStay
  <2> QED BY <1>2, <2>2, <2>3, StartKeepsTheInvariant
<1>3. CASE ImportStep BY <1>3, ImportStepsKeepTheInvariant
<1>4. CASE Crash BY <1>1, <1>4, CrashIsAside, AsideKeepsTheInvariant, AsideKeepsTheWork
<1>5. CASE AppAction BY <1>5, AppStepsKeepTheInvariant
<1>6. CASE UNCHANGED vars BY <1>1, <1>6, StutterIsAside, AsideKeepsTheInvariant, AsideKeepsTheWork
<1> QED BY <1>2, <1>3, <1>4, <1>5, <1>6 DEF Next

(* The steps of the app are counted.                                       *)
StepsAreCounted == app_steps \in Nat
LEMMA StepsAreCountedAlways == Spec => []StepsAreCounted
<1>1. Init => StepsAreCounted BY DEF Init, StepsAreCounted
<1>2. StepsAreCounted /\ [Next]_vars => StepsAreCounted'
  <2> SUFFICES ASSUME app_steps \in Nat, [Next]_vars PROVE app_steps' \in Nat
    BY DEF StepsAreCounted
  <2>1. CASE \E exported \in Exports : Start(exported) BY <2>1 DEF Start
  <2>2. CASE ImportStep
    <3>1. ReadPhotos \/ ReadRows \/ ImportEmployees \/ ImportClients \/ ImportWorkSkills => UNCHANGED app_steps
      BY Zenon DEF ReadPhotos, ReadRows, ImportEmployees, ImportClients, ImportWorkSkills
    <3>2. ImportProjects \/ ImportLineItems \/ ImportImages => UNCHANGED app_steps
      BY Zenon DEF ImportProjects, ImportLineItems, ImportImages
    <3>3. \A phase : DeleteObjects(phase) => UNCHANGED app_steps BY DEF DeleteObjects
    <3>4. \A p, succeeds : Upload(p, succeeds) => UNCHANGED app_steps BY DEF Upload
    <3>5. StoreKeys \/ ImportInvoices \/ ImportPayments => UNCHANGED app_steps
      BY Zenon DEF StoreKeys, ImportInvoices, ImportPayments
    <3> QED BY <2>2, <3>1, <3>2, <3>3, <3>4, <3>5 DEF ImportStep
  <2>3. CASE Crash BY <2>3 DEF Crash
  <2>4. CASE AppAction
    <3>1. AppStep
      BY <2>4, Zenon DEF AppAction, CreateLead, MoveDocument, AddLineItem, AddPhoto, RemoveLineItem
    <3> QED BY <3>1 DEF AppStep
  <2>5. CASE UNCHANGED vars BY <2>5 DEF vars
  <2> QED BY <2>1, <2>2, <2>3, <2>4, <2>5 DEF Next
<1> QED BY <1>1, <1>2, PTL DEF Spec

LEMMA InvariantAlways == Spec => []IInv
<1>1. Init => IInv BY InitEstablishesTheInvariant
<1>2. IInv /\ [Next]_vars => IInv' BY StepsKeepTheInvariant
<1> QED BY <1>1, <1>2, PTL DEF Spec

(* However many imports run, fail or crash, and whatever the users of the   *)
(* app do in between, no row points at a missing object (images.ts:239).    *)
THEOREM PhotosKeepTheirObjects == Spec => []UploadedPhotosHaveObjects
<1>1. IInv => UploadedPhotosHaveObjects BY DEF IInv, PhotosAreSound
<1> QED BY <1>1, InvariantAlways, PTL

(* No import ever changes a line item or a photo that was made in the app,  *)
(* nor, as long as ArboStar stays below the gap, a lead made there since    *)
(* the first import.                                                       *)
THEOREM AppRowsStay == Spec => InAppRowsStay
<1> DEFINE Stays ==
      app_steps' = app_steps =>
         /\ \A r \in Row(lines, "item", None) : r \in DOMAIN lines' /\ lines'[r] = lines[r]
         /\ \A r \in Row(photos, "image", None) :
              /\ r \in DOMAIN photos' \cap store'
              /\ photos'[r].line \in {photos[r].line, None}
              /\ photos[r].line \in DOMAIN lines' => photos'[r] = photos[r]
         /\ \A n \in Row(projects, "in_app", "late") : projects'[n] = projects[n]
<1>1. IInv /\ StepsAreCounted /\ [Next]_vars => [Stays]_vars
  <2> SUFFICES ASSUME IInv, StepsAreCounted, [Next]_vars, app_steps' = app_steps
               PROVE  AppLinesStay /\ AppPhotosStay /\ LateProjectsStay
    BY DEF AppLinesStay, AppPhotosStay, LateProjectsStay
  <2>1. ~AppStep BY DEF AppStep, StepsAreCounted
  <2> QED BY <2>1, StepsKeepTheInvariant
<1>2. Spec => [][Stays]_vars
  <2> HIDE DEF Stays
  <2> QED BY <1>1, InvariantAlways, StepsAreCountedAlways, PTL DEF Spec
<1> QED BY <1>2 DEF InAppRowsStay

(* No step reopens a project or moves its closing date, and its history     *)
(* ends at the document it is on, for any leads that ArboStar exports.      *)
THEOREM ProjectsPast == Spec => ProjectsKeepTheirPast
<1> DEFINE Closes1 ==
      \A n \in DOMAIN projects :
         /\ projects[n].closed => projects'[n].closed
         /\ projects[n].closed_at # None => projects'[n].closed_at = projects[n].closed_at
<1>1. IInv /\ [Next]_vars => [Closes1]_vars
  BY StepsKeepTheInvariant DEF ClosesOnly
<1>2. IInv => HistoryEndsAtTheDocument BY DEF IInv, ProjectsAreSound
<1>3. Spec => [][Closes1]_vars
  <2> HIDE DEF Closes1
  <2> QED BY <1>1, InvariantAlways, PTL DEF Spec
<1>4. Spec => ClosingIsForGood BY <1>3 DEF ClosingIsForGood
<1>5. Spec => []HistoryEndsAtTheDocument BY <1>2, InvariantAlways, PTL
<1> QED BY <1>4, <1>5 DEF ProjectsKeepTheirPast

=============================================================================
