---------------------------- MODULE PartsProofs -----------------------------
(***************************************************************************)
(* Proofs about the parts that MCPages and MCOutcomes check together: the  *)
(* settings, the page to receive, the claims of the Atomiq gateway and the *)
(* tabs that follow swaps, each with its inductive invariant.  They hold   *)
(* for any languages and currencies, invoices, callers, swaps and tabs.    *)
(***************************************************************************)
EXTENDS MCPages, MCOutcomes, WellFoundedInduction, FiniteSetTheorems, TLAPS

(***************************************************************************)
(* Settings.                                                               *)
(***************************************************************************)

\* A row whose default currency is one of those preferred.
Consistent(r) == \E i \in DOMAIN r.preferred : r.preferred[i] = r.default

\* What a request holds is a consistent row.  A read has no body, and writes
\* nothing but a row that it creates.
JobFits(e) ==
  /\ e \in S!Job /\ Consistent(e.entity)
  /\ e.op = "get" => e.body = S!NoBody
  /\ e.op = "get" /\ e.pc = "found" => e.fresh /\ e.entity = S!Created

RowFits(r) == r \in S!Row \cup {NoRow} /\ (r # NoRow => Consistent(r))

Puts == {j \in S!Jobs : job[j].op = "put"}

\* A page asks once at a time while it loads, changes nothing before it has
\* loaded, and asks for nothing afterwards.
PageLoads ==
  /\ \A j, k \in S!Jobs :
       job[j].page /\ job[j].op = "get" /\ job[k].page /\ job[k].op = "get" => j = k
  /\ boot = "done" => \A j \in S!Jobs : ~(job[j].page /\ job[j].op = "get")
  /\ boot # "done" => loadingLangs = {}

\* Unless the history says otherwise, one change is under way at most.
OneChange ==
  /\ \A j \in Puts : job[j].page /\ boot = "done" /\ loadingLangs = {}
  /\ \A j, k \in Puts : j = k
  /\ \A l, m \in loadingLangs : l = m

ShowsRow(r) == r.language = currentLang /\ S!CurrentFiat(r) = currentFiat

\* A change that was sent will make the row what the page shows.
WillShow(j) ==
  /\ job[j].pc = "sent" =>
       \/ job[j].body = S!LanguageBody(currentLang) /\ S!CurrentFiat(settings) = currentFiat
       \/ job[j].body = S!FiatBody(currentFiat) /\ settings.language = currentLang
  /\ job[j].pc = "found" => ~job[j].fresh /\ ShowsRow(job[j].entity)
  /\ job[j].pc = "answered" => ShowsRow(settings)

\* What the page has been told is the row, which has, or will have, what the
\* page shows.
Follows ==
  /\ \A j \in S!Jobs :
       job[j].page /\ job[j].op = "get" /\ job[j].pc = "answered" =>
         settings # NoRow /\ job[j].entity = settings
  /\ boot = "currency" => settings # NoRow /\ settings.language = currentLang
  /\ boot = "done" =>
       /\ settings # NoRow
       /\ Puts = {} => ShowsRow(settings)
       /\ \A j \in Puts : WillShow(j)

SettingsInv ==
  /\ S!TypeOK /\ RowFits(settings) /\ PageLoads
  /\ \A j \in S!Jobs : JobFits(job[j])
  /\ ~diverged => OneChange /\ Follows


Preferred == {<<"USD">>, <<"EUR">>, <<"EUR", "USD">>}

Bodies == S!OtherBodies \cup {S!NoBody}

\* The row of a user who has never been there.
LEMMA CreatedRow == S!Created \in S!Row /\ Consistent(S!Created)
  BY DEF S!Created, S!Row, S!Language, S!Fiat, Consistent

\* The fields of a body, where it has them, are of their types.
LEMMA BodyFields ==
  ASSUME NEW body \in Bodies
  PROVE  /\ S!Has(body, "preferred") => body.preferred \in Preferred
         /\ S!Has(body, "default") => body.default \in S!Fiat
         /\ S!Has(body, "language") => body.language \in S!Language
  BY DEF Bodies, S!OtherBodies, S!NoBody, S!LanguageBody, S!FiatBody, S!Has, S!Language, S!Fiat,
         Preferred

\* A row with other preferred currencies is a row, and keeps its language.
LEMMA PreferredRow ==
  ASSUME NEW e \in S!Row, Consistent(e), NEW body \in Bodies
  PROVE  /\ S!WithPreferred(e, body) \in S!Row
         /\ Consistent(S!WithPreferred(e, body))
         /\ S!WithPreferred(e, body).language = e.language
         /\ S!WithPreferred(e, body).preferred
              = IF S!Has(body, "preferred") THEN body.preferred ELSE e.preferred
<1>1. CASE ~S!Has(body, "preferred")
  BY <1>1 DEF S!WithPreferred
<1>2. CASE S!Has(body, "preferred")
  <2>1. PICK p \in Preferred : p = body.preferred
    BY <1>2, BodyFields
  <2>2. e.default \in S!Fiat /\ e.language \in S!Language
    BY DEF S!Row
  <2>3. \A f \in S!Fiat :
          LET d == IF \E i \in DOMAIN p : p[i] = f THEN f ELSE Head(p)
          IN  d \in S!Fiat /\ \E i \in DOMAIN p : p[i] = d
    BY <2>1 DEF Preferred, S!Fiat
  <2> DEFINE d == IF \E i \in DOMAIN p : p[i] = e.default THEN e.default ELSE Head(p)
  <2>4. S!WithPreferred(e, body) = [language |-> e.language, preferred |-> p, default |-> d]
    BY <1>2, <2>1 DEF S!WithPreferred, S!SetPreferredCurrencies, S!Row
  <2>5. d \in S!Fiat /\ \E i \in DOMAIN p : p[i] = d
    BY <2>2, <2>3
  <2> QED
    BY <1>2, <2>1, <2>2, <2>4, <2>5 DEF Consistent, S!Row, Preferred
<1> QED
  BY <1>1, <1>2

\* So is a row that is updated, consistent if the update is not refused.
LEMMA UpdatedRow ==
  ASSUME NEW e \in S!Row, Consistent(e), NEW body \in Bodies
  PROVE  /\ S!Updated(e, body) \in S!Row
         /\ ~S!Refused(e, body) => Consistent(S!Updated(e, body))
         /\ S!Updated(e, body).preferred = e.preferred
         /\ S!Updated(e, body).language
              = IF S!Has(body, "language") THEN body.language ELSE e.language
<1> DEFINE d == IF S!Has(body, "default") THEN body.default ELSE e.default
           l == IF S!Has(body, "language") THEN body.language ELSE e.language
<1>1. S!Updated(e, body) = [language |-> l, preferred |-> e.preferred, default |-> d]
  <2>1. S!Updated(e, body) = [e EXCEPT !.default = d, !.language = l]
    BY DEF S!Updated
  <2> HIDE DEF d, l
  <2> QED
    BY <2>1 DEF S!Row
<1>2. l \in S!Language /\ d \in S!Fiat /\ e.preferred \in Preferred
  BY BodyFields DEF S!Row, Preferred
<1>3. ~S!Refused(e, body) => \E i \in DOMAIN e.preferred : e.preferred[i] = d
  BY DEF S!Refused, Consistent
<1> QED
  BY <1>1, <1>2, <1>3 DEF Consistent, S!Row, Preferred

\* A request without a body leaves the row as it was read.
LEMMA ReadRow ==
  ASSUME NEW e \in S!Row
  PROVE  /\ S!WithPreferred(e, S!NoBody) = e /\ ~S!Refused(e, S!NoBody)
         /\ S!Updated(e, S!NoBody) = e
<1>1. ~S!Has(S!NoBody, "preferred") /\ ~S!Has(S!NoBody, "default") /\ ~S!Has(S!NoBody, "language")
  BY DEF S!Has, S!NoBody
<1> QED
  BY <1>1 DEF S!WithPreferred, S!Refused, S!Updated, S!Row

LEMMA NoJobFields ==
  S!NoJob \in [op : {"none"}, page : {FALSE}, body : {S!NoBody}, pc : {"sent"},
               fresh : {FALSE}, entity : {S!Created}]
  BY DEF S!NoJob

\* A request that is sent.
LEMMA SentJob ==
  ASSUME NEW verb \in {"none", "get", "put"}, NEW byPage \in BOOLEAN, NEW body \in Bodies,
         verb = "get" => body = S!NoBody
  PROVE  LET e == S!Sent(verb, byPage, body) IN
         /\ JobFits(e)
         /\ e.op = verb /\ e.page = byPage /\ e.body = body /\ e.pc = "sent"
<1> DEFINE e == S!Sent(verb, byPage, body)
<1>2. e = [S!NoJob EXCEPT !.op = verb, !.page = byPage, !.body = body]
  BY DEF S!Sent
<1> HIDE DEF e
<1>3. e = [op |-> verb, page |-> byPage, body |-> body, pc |-> "sent", fresh |-> FALSE,
           entity |-> S!Created]
  BY <1>2, NoJobFields
<1>4. /\ JobFits(e)
      /\ e.op = verb /\ e.page = byPage /\ e.body = body /\ e.pc = "sent"
  BY <1>3, CreatedRow DEF S!Job, Bodies, JobFits
<1> QED
  BY <1>4 DEF e

\* The same of the page, and of another tab or device.
LEMMA PageAsks ==
  ASSUME NEW verb \in {"get", "put"}, NEW body \in Bodies, verb = "get" => body = S!NoBody
  PROVE  LET e == S!Sent(verb, TRUE, body) IN
         /\ JobFits(e)
         /\ e.op = verb /\ e.page /\ e.body = body /\ e.pc = "sent"
<1> DEFINE e == S!Sent(verb, TRUE, body)
<1>1. e = [S!NoJob EXCEPT !.op = verb, !.page = TRUE, !.body = body]
  BY DEF S!Sent
<1> HIDE DEF e
<1>2. e = [op |-> verb, page |-> TRUE, body |-> body, pc |-> "sent", fresh |-> FALSE,
           entity |-> S!Created]
  BY <1>1, NoJobFields
<1>3. /\ JobFits(e)
      /\ e.op = verb /\ e.page /\ e.body = body /\ e.pc = "sent"
  BY <1>2, CreatedRow DEF S!Job, Bodies, JobFits
<1> QED
  BY <1>3 DEF e

LEMMA OtherAsks ==
  ASSUME NEW verb \in {"get", "put"}, NEW body \in Bodies, verb = "get" => body = S!NoBody
  PROVE  LET e == S!Sent(verb, FALSE, body) IN
         /\ JobFits(e)
         /\ e.op = verb /\ ~e.page /\ e.body = body /\ e.pc = "sent"
<1> DEFINE e == S!Sent(verb, FALSE, body)
<1>1. e = [S!NoJob EXCEPT !.op = verb, !.page = FALSE, !.body = body]
  BY DEF S!Sent
<1> HIDE DEF e
<1>2. e = [op |-> verb, page |-> FALSE, body |-> body, pc |-> "sent", fresh |-> FALSE,
           entity |-> S!Created]
  BY <1>1, NoJobFields
<1>3. /\ JobFits(e)
      /\ e.op = verb /\ ~e.page /\ e.body = body /\ e.pc = "sent"
  BY <1>2, CreatedRow DEF S!Job, Bodies, JobFits
<1> QED
  BY <1>3 DEF e

LEMMA PageReads ==
  LET e == S!Sent("get", TRUE, S!NoBody) IN
    JobFits(e) /\ e.op = "get" /\ e.page /\ e.pc = "sent"
<1> DEFINE e == S!Sent("get", TRUE, S!NoBody)
<1>1. S!NoBody \in Bodies
  BY DEF Bodies
<1>2. JobFits(e)
  BY <1>1, PageAsks
<1>3. e.op = "get" /\ e.pc = "sent"
  BY <1>1, PageAsks
<1>4. e.page
  BY <1>1, PageAsks
<1> QED
  BY <1>2, <1>3, <1>4

\* A slot that is free again.
LEMMA FreeJob == JobFits(S!NoJob) /\ S!NoJob.op = "none"
  BY CreatedRow DEF S!NoJob, JobFits, S!Job

\* A request that is over.
LEMMA OverJob ==
  ASSUME NEW f \in S!Job, NEW pc \in {"answered", "failed"},
         pc = "answered" /\ f.op = "get" => Consistent(f.entity)
  PROVE  LET e == S!Over(f, pc) IN
         /\ JobFits(e)
         /\ e.op = f.op /\ e.page = f.page /\ e.pc = pc
         /\ e.entity = IF pc = "answered" /\ f.op = "get" THEN f.entity ELSE S!Created
<1> DEFINE n == IF pc = "answered" /\ f.op = "get" THEN f.entity ELSE S!Created
           g == S!Sent(f.op, f.page, S!NoBody)
           e == S!Over(f, pc)
<1>1. f.op \in {"none", "get", "put"} /\ f.page \in BOOLEAN /\ n \in S!Row /\ Consistent(n)
  BY CreatedRow DEF S!Job
<1>2. /\ g \in S!Job
      /\ g.op = f.op /\ g.page = f.page /\ g.body = S!NoBody /\ g.pc = "sent"
  BY <1>1, SentJob DEF Bodies, JobFits
<1>3. e = [g EXCEPT !.pc = pc, !.entity = n]
  BY DEF S!Over
<1>4. /\ e \in S!Job
      /\ e.op = f.op /\ e.page = f.page /\ e.pc = pc /\ e.body = S!NoBody /\ e.entity = n
  <2> HIDE DEF n, g, e
  <2> QED
    BY <1>1, <1>2, <1>3 DEF S!Job
<1> QED
  BY <1>1, <1>4 DEF JobFits

\* One request changes.
LEMMA JobUpdate ==
  ASSUME S!TypeOK, \A i \in S!Jobs : JobFits(job[i]),
         NEW j \in S!Jobs, NEW n, JobFits(n), job' = [job EXCEPT ![j] = n]
  PROVE  /\ job' \in [S!Jobs -> S!Job]
         /\ \A i \in S!Jobs : JobFits(job'[i])
         /\ job'[j] = n
         /\ \A i \in S!Jobs : i # j => job'[i] = job[i]
  BY DEF S!TypeOK, JobFits

\* The page is loaded again.
LEMMA LoadKeeps == ASSUME S!SettingsAssumption, SettingsInv, S!Load PROVE SettingsInv'
<1>0. /\ settings' = settings /\ boot' = "language" /\ currentLang' = "en" /\ currentFiat' = "USD"
      /\ loadingLangs' = {} /\ diverged' = (Puts # {})
  BY DEF S!Load, Puts
<1>1. PICK j \in S!Jobs :
        /\ job[j].op = "none"
        /\ job' = [i \in S!Jobs |-> IF i = j THEN S!Sent("get", TRUE, S!NoBody)
                                    ELSE [job[i] EXCEPT !.page = FALSE]]
  BY DEF S!Load
<1>2. /\ JobFits(job'[j])
      /\ job'[j].op = "get" /\ job'[j].page /\ job'[j].pc = "sent"
  <2> DEFINE n == S!Sent("get", TRUE, S!NoBody)
  <2>1. job'[j] = n
    BY <1>1
  <2>2. JobFits(n) /\ n.op = "get" /\ n.page /\ n.pc = "sent"
    BY PageReads
  <2> HIDE DEF n
  <2> QED
    BY <2>1, <2>2
<1>3. \A i \in S!Jobs \ {j} :
        /\ JobFits(job'[i]) /\ ~job'[i].page
        /\ job'[i].op = job[i].op
  BY <1>1 DEF SettingsInv, S!Job, JobFits
<1>4. \A i \in S!Jobs : JobFits(job'[i])
  BY <1>2, <1>3
<1>5. job' \in [S!Jobs -> S!Job]
  BY <1>1, <1>4 DEF JobFits
<1>6. S!TypeOK' /\ RowFits(settings)'
  BY <1>0, <1>5 DEF SettingsInv, S!TypeOK, S!Language, S!Fiat
<1>7. PageLoads'
  BY <1>0, <1>2, <1>3 DEF PageLoads
<1>8. ~diverged' => OneChange' /\ Follows'
  <2> SUFFICES ASSUME ~diverged' PROVE OneChange' /\ Follows'
    OBVIOUS
  <2>1. Puts' = {}
    BY <1>0, <1>2, <1>3 DEF Puts
  <2> QED
    BY <1>0, <1>2, <1>3, <2>1 DEF OneChange, Follows
<1> QED
  BY <1>4, <1>6, <1>7, <1>8 DEF SettingsInv

LEMMA InitLanguageKeeps ==
  ASSUME S!SettingsAssumption, SettingsInv, NEW j \in S!Jobs, S!InitLanguage(j) PROVE SettingsInv'
<1> DEFINE n == S!Sent("get", TRUE, S!NoBody)
<1>0. /\ boot = "language" /\ boot' = "currency"
      /\ job[j].page /\ job[j].op = "get" /\ job[j].pc \in {"answered", "failed"}
      /\ job' = [job EXCEPT ![j] = n]
      /\ diverged' = (diverged \/ job[j].pc = "failed")
      /\ settings' = settings /\ currentFiat' = currentFiat /\ loadingLangs' = loadingLangs
  BY DEF S!InitLanguage, S!Heard
<1>1. JobFits(n) /\ n.op = "get" /\ n.page /\ n.pc = "sent"
  BY PageReads
<1> HIDE DEF n
<1>2. /\ job' \in [S!Jobs -> S!Job]
      /\ \A i \in S!Jobs : JobFits(job'[i])
      /\ job'[j] = n
      /\ \A i \in S!Jobs : i # j => job'[i] = job[i]
  BY <1>0, <1>1, JobUpdate DEF SettingsInv
<1>3. currentLang' \in S!Language
  BY DEF S!InitLanguage, S!SettingsAssumption, SettingsInv, JobFits, S!Job, S!Row
<1>4. S!TypeOK' /\ RowFits(settings)'
  BY <1>0, <1>2, <1>3 DEF SettingsInv, S!TypeOK
<1>5. PageLoads'
  BY <1>0, <1>1, <1>2 DEF SettingsInv, PageLoads
<1>6. ~diverged' => OneChange' /\ Follows'
  <2> SUFFICES ASSUME ~diverged' PROVE OneChange' /\ Follows'
    OBVIOUS
  <2>1. ~diverged /\ job[j].pc = "answered"
    BY <1>0
  <2>2. settings # NoRow /\ currentLang' = settings.language
    BY <1>0, <2>1 DEF SettingsInv, Follows, S!InitLanguage
  <2>3. Puts' = Puts
    BY <1>0, <1>1, <1>2 DEF Puts
  <2>4. Puts = {}
    BY <1>0, <2>1 DEF SettingsInv, OneChange
  <2> QED
    BY <1>0, <1>1, <1>2, <2>1, <2>2, <2>3, <2>4 DEF SettingsInv, OneChange, Follows
<1> QED
  BY <1>2, <1>4, <1>5, <1>6 DEF SettingsInv

LEMMA InitCurrencyKeeps ==
  ASSUME S!SettingsAssumption, SettingsInv, NEW j \in S!Jobs, S!InitCurrency(j) PROVE SettingsInv'
<1> DEFINE n == S!NoJob
<1>0. /\ boot = "currency" /\ boot' = "done"
      /\ job[j].page /\ job[j].op = "get" /\ job[j].pc \in {"answered", "failed"}
      /\ job' = [job EXCEPT ![j] = n]
      /\ diverged' = (diverged \/ job[j].pc = "failed")
      /\ settings' = settings /\ currentLang' = currentLang /\ loadingLangs' = loadingLangs
  BY DEF S!InitCurrency, S!Heard
<1>1. JobFits(n) /\ n.op = "none"
  BY FreeJob
<1> HIDE DEF n
<1>2. /\ job' \in [S!Jobs -> S!Job]
      /\ \A i \in S!Jobs : JobFits(job'[i])
      /\ job'[j] = n
      /\ \A i \in S!Jobs : i # j => job'[i] = job[i]
  BY <1>0, <1>1, JobUpdate DEF SettingsInv
<1>3. currentFiat' \in S!Fiat
  BY DEF S!InitCurrency, S!CurrentFiat, SettingsInv, S!TypeOK, JobFits, S!Job, S!Row, S!Fiat
<1>4. S!TypeOK' /\ RowFits(settings)'
  BY <1>0, <1>2, <1>3 DEF SettingsInv, S!TypeOK
<1>5. PageLoads'
  BY <1>0, <1>1, <1>2 DEF SettingsInv, PageLoads
<1>6. ~diverged' => OneChange' /\ Follows'
  <2> SUFFICES ASSUME ~diverged' PROVE OneChange' /\ Follows'
    OBVIOUS
  <2>1. ~diverged /\ job[j].pc = "answered"
    BY <1>0
  <2>2. settings # NoRow /\ ShowsRow(settings)'
    BY <1>0, <2>1 DEF SettingsInv, Follows, S!InitCurrency, ShowsRow, S!CurrentFiat
  <2>3. Puts' = Puts
    BY <1>0, <1>1, <1>2 DEF Puts
  <2>4. Puts = {}
    BY <1>0, <2>1 DEF SettingsInv, OneChange
  <2>5. \A i \in S!Jobs : ~(job'[i].page /\ job'[i].op = "get")
    BY <1>0, <1>5 DEF PageLoads
  <2> QED
    BY <1>0, <1>1, <1>2, <2>1, <2>2, <2>3, <2>4, <2>5 DEF SettingsInv, OneChange, Follows
<1> QED
  BY <1>2, <1>4, <1>5, <1>6 DEF SettingsInv

LEMMA SetLangKeeps ==
  ASSUME S!SettingsAssumption, SettingsInv, NEW l \in S!Language, S!SetLang(l) PROVE SettingsInv'
<1>0. /\ boot = "done" /\ boot' = "done" /\ loadingLangs' = loadingLangs \cup {l}
      /\ diverged' = (diverged \/ loadingLangs # {} \/ Puts # {})
      /\ settings' = settings /\ job' = job
      /\ currentLang' = currentLang /\ currentFiat' = currentFiat
  BY DEF S!SetLang, S!Updating, Puts
<1>1. S!TypeOK' /\ RowFits(settings)' /\ PageLoads' /\ \A j \in S!Jobs : JobFits(job'[j])
  BY <1>0 DEF SettingsInv, S!TypeOK, PageLoads
<1>2. ~diverged' => OneChange' /\ Follows'
  <2> SUFFICES ASSUME ~diverged' PROVE OneChange' /\ Follows'
    OBVIOUS
  <2>1. ~diverged /\ loadingLangs = {} /\ Puts = {} /\ Puts' = {}
    BY <1>0 DEF Puts
  <2> QED
    BY <1>0, <2>1 DEF SettingsInv, OneChange, Follows, ShowsRow
<1> QED
  BY <1>1, <1>2 DEF SettingsInv

LEMMA ApplyLangKeeps ==
  ASSUME S!SettingsAssumption, SettingsInv, NEW l \in S!Language, S!ApplyLang(l) PROVE SettingsInv'
<1> DEFINE n == S!Sent("put", TRUE, S!LanguageBody(l))
<1>3. PICK j \in S!Jobs : job[j].op = "none" /\ job' = [job EXCEPT ![j] = n]
  BY DEF S!ApplyLang, S!Ask
<1>0. /\ l \in loadingLangs /\ loadingLangs' = loadingLangs \ {l} /\ currentLang' = l
      /\ diverged' = diverged /\ settings' = settings /\ boot' = boot
      /\ currentFiat' = currentFiat
  BY DEF S!ApplyLang
<1>1. JobFits(n) /\ n.op = "put" /\ n.page /\ n.pc = "sent" /\ n.body = S!LanguageBody(l)
  <2>1. S!LanguageBody(l) \in Bodies
    BY DEF Bodies, S!OtherBodies
  <2>2. JobFits(n)
    BY <2>1, PageAsks
  <2>3. n.op = "put" /\ n.pc = "sent" /\ n.body = S!LanguageBody(l)
    BY <2>1, PageAsks
  <2>4. n.page
    BY <2>1, PageAsks
  <2> QED
    BY <2>2, <2>3, <2>4
<1> HIDE DEF n
<1>2. /\ job' \in [S!Jobs -> S!Job]
      /\ \A i \in S!Jobs : JobFits(job'[i])
      /\ job'[j] = n
      /\ \A i \in S!Jobs : i # j => job'[i] = job[i]
  BY <1>3, <1>1, JobUpdate DEF SettingsInv
<1>4. S!TypeOK' /\ RowFits(settings)'
  BY <1>0, <1>2 DEF SettingsInv, S!TypeOK
<1>5. PageLoads'
  BY <1>0, <1>1, <1>2 DEF SettingsInv, PageLoads
<1>6. ~diverged' => OneChange' /\ Follows'
  <2> SUFFICES ASSUME ~diverged' PROVE OneChange' /\ Follows'
    OBVIOUS
  <2>1. ~diverged /\ OneChange /\ Follows /\ boot = "done"
    BY <1>0 DEF SettingsInv, PageLoads
  <2>2. Puts = {} /\ loadingLangs' = {} /\ Puts' = {j}
    BY <1>0, <1>1, <1>2, <2>1 DEF OneChange, Puts
  <2>3. settings # NoRow /\ S!CurrentFiat(settings) = currentFiat
    BY <2>1, <2>2 DEF Follows, ShowsRow
  <2>4. WillShow(j)'
    BY <1>0, <1>1, <1>2, <2>3 DEF WillShow
  <2> QED
    BY <1>0, <1>1, <1>2, <2>1, <2>2, <2>3, <2>4 DEF OneChange, Follows
<1> QED
  BY <1>2, <1>4, <1>5, <1>6 DEF SettingsInv

LEMMA SetPreferredFiatKeeps ==
  ASSUME S!SettingsAssumption, SettingsInv, NEW f \in S!Fiat, S!SetPreferredFiat(f)
  PROVE  SettingsInv'
<1> DEFINE n == S!Sent("put", TRUE, S!FiatBody(f))
<1>3. PICK j \in S!Jobs : job[j].op = "none" /\ job' = [job EXCEPT ![j] = n]
  BY DEF S!SetPreferredFiat, S!Ask
<1>0. /\ boot = "done" /\ boot' = "done" /\ currentFiat' = f
      /\ diverged' = (diverged \/ loadingLangs # {} \/ Puts # {})
      /\ settings' = settings /\ currentLang' = currentLang /\ loadingLangs' = loadingLangs
  BY DEF S!SetPreferredFiat, S!Updating, Puts
<1>1. JobFits(n) /\ n.op = "put" /\ n.page /\ n.pc = "sent" /\ n.body = S!FiatBody(f)
  <2>1. S!FiatBody(f) \in Bodies
    BY DEF Bodies, S!OtherBodies
  <2>2. JobFits(n)
    BY <2>1, PageAsks
  <2>3. n.op = "put" /\ n.pc = "sent" /\ n.body = S!FiatBody(f)
    BY <2>1, PageAsks
  <2>4. n.page
    BY <2>1, PageAsks
  <2> QED
    BY <2>2, <2>3, <2>4
<1> HIDE DEF n
<1>2. /\ job' \in [S!Jobs -> S!Job]
      /\ \A i \in S!Jobs : JobFits(job'[i])
      /\ job'[j] = n
      /\ \A i \in S!Jobs : i # j => job'[i] = job[i]
  BY <1>3, <1>1, JobUpdate DEF SettingsInv
<1>4. S!TypeOK' /\ RowFits(settings)'
  BY <1>0, <1>2 DEF SettingsInv, S!TypeOK
<1>5. PageLoads'
  BY <1>0, <1>1, <1>2 DEF SettingsInv, PageLoads
<1>6. ~diverged' => OneChange' /\ Follows'
  <2> SUFFICES ASSUME ~diverged' PROVE OneChange' /\ Follows'
    OBVIOUS
  <2>1. ~diverged /\ OneChange /\ Follows /\ Puts = {} /\ loadingLangs = {}
    BY <1>0 DEF SettingsInv
  <2>2. Puts' = {j}
    BY <1>1, <1>2, <2>1 DEF Puts
  <2>3. settings # NoRow /\ settings.language = currentLang
    BY <1>0, <2>1 DEF Follows, ShowsRow
  <2>4. WillShow(j)'
    BY <1>0, <1>1, <1>2, <2>3 DEF WillShow
  <2> QED
    BY <1>0, <1>1, <1>2, <2>1, <2>2, <2>3, <2>4 DEF OneChange, Follows
<1> QED
  BY <1>2, <1>4, <1>5, <1>6 DEF SettingsInv

LEMMA HearUpdateKeeps ==
  ASSUME S!SettingsAssumption, SettingsInv, NEW j \in S!Jobs, S!HearUpdate(j) PROVE SettingsInv'
<1> DEFINE n == S!NoJob
<1>0. /\ job[j].page /\ job[j].op = "put" /\ job[j].pc \in {"answered", "failed"}
      /\ job' = [job EXCEPT ![j] = n]
      /\ diverged' = (diverged \/ job[j].pc = "failed")
      /\ settings' = settings /\ currentLang' = currentLang /\ currentFiat' = currentFiat
      /\ boot' = boot /\ loadingLangs' = loadingLangs
  BY DEF S!HearUpdate, S!Heard, S!page
<1>1. JobFits(n) /\ n.op = "none"
  BY FreeJob
<1> HIDE DEF n
<1>2. /\ job' \in [S!Jobs -> S!Job]
      /\ \A i \in S!Jobs : JobFits(job'[i])
      /\ job'[j] = n
      /\ \A i \in S!Jobs : i # j => job'[i] = job[i]
  BY <1>0, <1>1, JobUpdate DEF SettingsInv
<1>4. S!TypeOK' /\ RowFits(settings)'
  BY <1>0, <1>2 DEF SettingsInv, S!TypeOK
<1>5. PageLoads'
  BY <1>0, <1>1, <1>2 DEF SettingsInv, PageLoads
<1>6. ~diverged' => OneChange' /\ Follows'
  <2> SUFFICES ASSUME ~diverged' PROVE OneChange' /\ Follows'
    OBVIOUS
  <2>1. ~diverged /\ OneChange /\ Follows /\ j \in Puts /\ job[j].pc = "answered"
    BY <1>0 DEF SettingsInv, Puts
  <2>2. Puts' = {}
    BY <1>1, <1>2, <2>1 DEF Puts, OneChange
  <2>3. boot = "done" /\ settings # NoRow /\ ShowsRow(settings)
    BY <2>1 DEF Follows, OneChange, WillShow
  <2> QED
    BY <1>0, <1>1, <1>2, <2>1, <2>2, <2>3 DEF OneChange, Follows, ShowsRow
<1> QED
  BY <1>2, <1>4, <1>5, <1>6 DEF SettingsInv

\* What another tab or device does.
LEMMA OtherReadsKeeps ==
  ASSUME S!SettingsAssumption, SettingsInv, S!OtherReads PROVE SettingsInv'
<1> DEFINE n == S!Sent("get", FALSE, S!NoBody)
<1>3. PICK j \in S!Jobs : job[j].op = "none" /\ job' = [job EXCEPT ![j] = n]
  BY DEF S!OtherReads, S!Ask
<1>0. /\ settings' = settings /\ currentLang' = currentLang /\ currentFiat' = currentFiat
      /\ boot' = boot /\ loadingLangs' = loadingLangs /\ diverged' = diverged
  BY DEF S!OtherReads, S!page
<1>1. JobFits(n) /\ n.op = "get" /\ ~n.page
  <2>1. S!NoBody \in Bodies
    BY DEF Bodies
  <2>2. JobFits(n)
    BY <2>1, OtherAsks
  <2>3. n.op = "get"
    BY <2>1, OtherAsks
  <2>4. ~n.page
    BY <2>1, OtherAsks
  <2> QED
    BY <2>2, <2>3, <2>4
<1> HIDE DEF n
<1>2. /\ job' \in [S!Jobs -> S!Job]
      /\ \A i \in S!Jobs : JobFits(job'[i])
      /\ job'[j] = n
      /\ \A i \in S!Jobs : i # j => job'[i] = job[i]
  BY <1>3, <1>1, JobUpdate DEF SettingsInv
<1>4. S!TypeOK' /\ RowFits(settings)' /\ PageLoads'
  BY <1>0, <1>1, <1>2 DEF SettingsInv, S!TypeOK, PageLoads
<1>5. Puts' = Puts
  BY <1>1, <1>2, <1>3 DEF Puts
<1>6. ~diverged' => OneChange' /\ Follows'
  BY <1>0, <1>1, <1>2, <1>3, <1>5
     DEF SettingsInv, OneChange, Follows, WillShow, ShowsRow, Puts
<1> QED
  BY <1>2, <1>4, <1>6 DEF SettingsInv

LEMMA OtherUpdatesKeeps ==
  ASSUME S!SettingsAssumption, SettingsInv, NEW body \in S!OtherBodies, S!OtherUpdates(body)
  PROVE  SettingsInv'
<1> DEFINE n == S!Sent("put", FALSE, body)
<1>3. PICK j \in S!Jobs : job[j].op = "none" /\ job' = [job EXCEPT ![j] = n]
  BY DEF S!OtherUpdates, S!Ask
<1>0. /\ settings' = settings /\ currentLang' = currentLang /\ currentFiat' = currentFiat
      /\ boot' = boot /\ loadingLangs' = loadingLangs /\ diverged'
  BY DEF S!OtherUpdates, S!page
<1>1. JobFits(n) /\ n.op = "put" /\ ~n.page
  <2>1. body \in Bodies
    BY DEF Bodies
  <2>2. JobFits(n)
    BY <2>1, OtherAsks
  <2>3. n.op = "put"
    BY <2>1, OtherAsks
  <2>4. ~n.page
    BY <2>1, OtherAsks
  <2> QED
    BY <2>2, <2>3, <2>4
<1> HIDE DEF n
<1>2. /\ job' \in [S!Jobs -> S!Job]
      /\ \A i \in S!Jobs : JobFits(job'[i])
      /\ job'[j] = n
      /\ \A i \in S!Jobs : i # j => job'[i] = job[i]
  BY <1>3, <1>1, JobUpdate DEF SettingsInv
<1>4. S!TypeOK' /\ RowFits(settings)' /\ PageLoads'
  BY <1>0, <1>1, <1>2 DEF SettingsInv, S!TypeOK, PageLoads
<1> QED
  BY <1>0, <1>2, <1>4 DEF SettingsInv

LEMMA OtherHearsKeeps ==
  ASSUME S!SettingsAssumption, SettingsInv, NEW j \in S!Jobs, S!OtherHears(j) PROVE SettingsInv'
<1> DEFINE n == S!NoJob
<1>0. /\ ~job[j].page /\ job' = [job EXCEPT ![j] = n]
      /\ settings' = settings /\ currentLang' = currentLang /\ currentFiat' = currentFiat
      /\ boot' = boot /\ loadingLangs' = loadingLangs /\ diverged' = diverged
  BY DEF S!OtherHears, S!page
<1>1. JobFits(n) /\ n.op = "none"
  BY FreeJob
<1> HIDE DEF n
<1>2. /\ job' \in [S!Jobs -> S!Job]
      /\ \A i \in S!Jobs : JobFits(job'[i])
      /\ job'[j] = n
      /\ \A i \in S!Jobs : i # j => job'[i] = job[i]
  BY <1>0, <1>1, JobUpdate DEF SettingsInv
<1>4. S!TypeOK' /\ RowFits(settings)' /\ PageLoads'
  BY <1>0, <1>1, <1>2 DEF SettingsInv, S!TypeOK, PageLoads
<1>6. ~diverged' => OneChange' /\ Follows'
  <2> SUFFICES ASSUME ~diverged' PROVE OneChange' /\ Follows'
    OBVIOUS
  <2>1. OneChange /\ Follows
    BY <1>0 DEF SettingsInv
  <2>2. Puts' = Puts /\ j \notin Puts
    BY <1>0, <1>1, <1>2, <2>1 DEF Puts, OneChange
  <2> QED
    BY <1>0, <1>1, <1>2, <2>1, <2>2 DEF OneChange, Follows, WillShow, ShowsRow, Puts
<1> QED
  BY <1>2, <1>4, <1>6 DEF SettingsInv

\* The API serves a request and does not write.
LEMMA ServedKeeps ==
  ASSUME SettingsInv, NEW j \in S!Jobs, NEW n, JobFits(n), job' = [job EXCEPT ![j] = n],
         n.op = job[j].op, n.page = job[j].page,
         UNCHANGED <<settings, currentLang, currentFiat, boot, loadingLangs, diverged>>,
         n.op = "get" /\ n.pc = "answered" => settings # NoRow /\ n.entity = settings,
         ~diverged /\ n.op = "put" => WillShow(j)'
  PROVE  SettingsInv'
<1>2. /\ job' \in [S!Jobs -> S!Job]
      /\ \A i \in S!Jobs : JobFits(job'[i])
      /\ job'[j] = n
      /\ \A i \in S!Jobs : i # j => job'[i] = job[i]
  BY JobUpdate DEF SettingsInv
<1>4. S!TypeOK' /\ RowFits(settings)' /\ PageLoads'
  BY <1>2 DEF SettingsInv, S!TypeOK, PageLoads
<1>5. Puts' = Puts
  BY <1>2 DEF Puts
<1>6. ~diverged' => OneChange' /\ Follows'
  <2> SUFFICES ASSUME ~diverged' PROVE OneChange' /\ Follows'
    OBVIOUS
  <2>1. OneChange /\ Follows
    BY DEF SettingsInv
  <2>2. OneChange'
    BY <1>2, <1>5, <2>1 DEF OneChange, Puts
  <2>3. \A i \in Puts : WillShow(i)' \/ boot # "done"
    BY <1>2, <2>1 DEF Follows, WillShow, ShowsRow, Puts
  <2> QED
    BY <1>2, <1>5, <2>1, <2>2, <2>3 DEF Follows, ShowsRow
<1> QED
  BY <1>2, <1>4, <1>6 DEF SettingsInv

LEMMA RequestFailsKeeps ==
  ASSUME S!SettingsAssumption, SettingsInv, NEW j \in S!Jobs, S!RequestFails(j) PROVE SettingsInv'
<1> DEFINE n == S!Over(job[j], "failed")
<1>0. /\ job' = [job EXCEPT ![j] = n]
      /\ UNCHANGED <<settings, currentLang, currentFiat, boot, loadingLangs, diverged>>
  BY DEF S!RequestFails, S!Ends, S!page
<1>1. job[j] \in S!Job
  BY DEF SettingsInv, JobFits
<1>2. JobFits(n) /\ n.op = job[j].op /\ n.page = job[j].page /\ n.pc = "failed"
  BY <1>1, OverJob
<1> HIDE DEF n
<1>3. job'[j] = n
  BY <1>0 DEF SettingsInv, S!TypeOK
<1>4. WillShow(j)'
  BY <1>2, <1>3 DEF WillShow
<1> QED
  BY <1>0, <1>2, <1>4, ServedKeeps

LEMMA FindKeeps ==
  ASSUME S!SettingsAssumption, SettingsInv, NEW j \in S!Jobs, S!FindByAccountId(j)
  PROVE  SettingsInv'
<1> DEFINE found == IF settings = NoRow THEN S!Created ELSE settings
           e == S!WithPreferred(found, job[j].body)
           new == S!Updated(e, job[j].body)
           draft == [job[j] EXCEPT !.fresh = (settings = NoRow), !.pc = "found", !.entity = new]
           n == IF ~S!NeedsWrite(job[j].op) THEN S!Over(draft, "answered")
                ELSE IF S!Refused(e, job[j].body) THEN S!Over(draft, "failed") ELSE draft
<1>0. /\ job[j].op # "none" /\ job[j].pc = "sent"
      /\ job' = [job EXCEPT ![j] = n]
      /\ UNCHANGED <<settings, currentLang, currentFiat, boot, loadingLangs, diverged>>
  BY DEF S!FindByAccountId, S!page
<1>1. /\ JobFits(job[j]) /\ job[j].body \in Bodies /\ job[j].op \in {"get", "put"}
      /\ job[j] \in S!Job
  BY <1>0 DEF SettingsInv, JobFits, S!Job, Bodies
<1>2. found \in S!Row /\ Consistent(found)
  BY CreatedRow DEF SettingsInv, RowFits
<1>3. /\ e \in S!Row /\ Consistent(e) /\ e.language = found.language
      /\ e.preferred = IF S!Has(job[j].body, "preferred") THEN job[j].body.preferred
                       ELSE found.preferred
  BY <1>1, <1>2, PreferredRow
<1>4. job[j].op = "get" => e = found /\ new = found /\ ~S!Refused(e, job[j].body)
  BY <1>1, <1>2, ReadRow DEF JobFits
<1>5. /\ new \in S!Row /\ (~S!Refused(e, job[j].body) => Consistent(new))
      /\ new.preferred = e.preferred
      /\ new.language = IF S!Has(job[j].body, "language") THEN job[j].body.language
                        ELSE e.language
  BY <1>1, <1>3, UpdatedRow
<1>6. /\ draft \in S!Job
      /\ draft.op = job[j].op /\ draft.page = job[j].page /\ draft.body = job[j].body
      /\ draft.pc = "found" /\ draft.entity = new
  <2> HIDE DEF new
  <2> QED
    BY <1>1, <1>5 DEF S!Job
<1>7. draft.fresh = (settings = NoRow)
  <2> HIDE DEF new
  <2> QED
    BY <1>1 DEF S!Job
<1>8. job'[j] = n
  BY <1>0 DEF SettingsInv, S!TypeOK
<1>9. CASE ~S!NeedsWrite(job[j].op)
  <2>1. n = S!Over(draft, "answered")
    BY <1>9
  <2>2. job[j].op = "get" /\ settings # NoRow
    BY <1>1, <1>9 DEF S!NeedsWrite
  <2>3. draft.entity = settings /\ Consistent(draft.entity)
    BY <1>2, <1>4, <1>6, <2>2
  <2> HIDE DEF draft, n
  <2>4. /\ JobFits(n) /\ n.op = job[j].op /\ n.page = job[j].page /\ n.entity = settings
    BY <1>6, <2>1, <2>2, <2>3, OverJob
  <2> QED
    BY <1>0, <1>1, <2>2, <2>4, ServedKeeps
<1>10. CASE S!NeedsWrite(job[j].op) /\ S!Refused(e, job[j].body)
  <2>1. n = S!Over(draft, "failed")
    BY <1>10
  <2> HIDE DEF draft, n
  <2>2. JobFits(n) /\ n.op = job[j].op /\ n.page = job[j].page /\ n.pc = "failed"
    BY <1>6, <2>1, OverJob
  <2>3. WillShow(j)'
    BY <1>8, <2>2 DEF WillShow
  <2> QED
    BY <1>0, <2>2, <2>3, ServedKeeps
<1>11. CASE S!NeedsWrite(job[j].op) /\ ~S!Refused(e, job[j].body)
  <2>1. n = draft
    BY <1>11
  <2>2. job[j].op = "get" => draft.fresh /\ draft.entity = S!Created
    BY <1>4, <1>6, <1>7, <1>11 DEF S!NeedsWrite
  <2>3. JobFits(n)
    <3> HIDE DEF draft, new, e
    <3> QED
      BY <1>1, <1>5, <1>6, <1>11, <2>1, <2>2 DEF JobFits
  <2>4. ~diverged /\ job[j].op = "put" => WillShow(j)'
    <3> SUFFICES ASSUME ~diverged, job[j].op = "put" PROVE WillShow(j)'
      OBVIOUS
    <3>1. j \in Puts /\ boot = "done" /\ settings # NoRow /\ WillShow(j)
      BY DEF SettingsInv, OneChange, Follows, Puts
    <3>2. found = settings
      BY <3>1
    <3>3. new.language = currentLang /\ S!CurrentFiat(new) = currentFiat
      <4>1. CASE /\ job[j].body = S!LanguageBody(currentLang)
                 /\ S!CurrentFiat(settings) = currentFiat
        <5>1. /\ S!Has(job[j].body, "language") /\ ~S!Has(job[j].body, "preferred")
              /\ job[j].body.language = currentLang
          BY <4>1 DEF S!LanguageBody, S!Has
        <5> HIDE DEF new, e, found
        <5> QED
          BY <1>3, <1>5, <3>2, <4>1, <5>1 DEF S!CurrentFiat
      <4>2. CASE /\ job[j].body = S!FiatBody(currentFiat)
                 /\ settings.language = currentLang
        <5>1. /\ ~S!Has(job[j].body, "language") /\ S!Has(job[j].body, "preferred")
              /\ job[j].body.preferred = <<currentFiat>>
          BY <4>2 DEF S!FiatBody, S!Has
        <5> HIDE DEF new, e, found
        <5> QED
          BY <1>3, <1>5, <3>2, <4>2, <5>1 DEF S!CurrentFiat
      <4> QED
        BY <1>0, <3>1, <4>1, <4>2 DEF WillShow
    <3> HIDE DEF draft, new, n
    <3>4. /\ job'[j].pc = "found" /\ job'[j].entity = new
      BY <1>6, <1>8, <2>1
    <3>5. ~job'[j].fresh
      BY <1>7, <1>8, <2>1, <3>1
    <3> QED
      BY <1>0, <3>3, <3>4, <3>5 DEF WillShow, ShowsRow, S!CurrentFiat
  <2>5. n.op = job[j].op /\ n.page = job[j].page /\ n.pc = "found"
    BY <1>6, <2>1
  <2> HIDE DEF n
  <2> QED
    BY <1>0, <2>3, <2>4, <2>5, ServedKeeps
<1> QED
  BY <1>9, <1>10, <1>11

LEMMA SaveKeeps ==
  ASSUME S!SettingsAssumption, SettingsInv, NEW j \in S!Jobs, S!Save(j) PROVE SettingsInv'
<1>0. /\ job[j].op # "none" /\ job[j].pc = "found"
      /\ UNCHANGED <<currentLang, currentFiat, boot, loadingLangs, diverged>>
  BY DEF S!Save, S!SaveRow, S!page
<1>1. /\ JobFits(job[j]) /\ job[j] \in S!Job /\ Consistent(job[j].entity)
      /\ job[j].op \in {"get", "put"} /\ job[j].entity \in S!Row
  BY <1>0 DEF SettingsInv, JobFits, S!Job
<1>2. PICK pc \in {"answered", "failed"} :
        /\ job' = [job EXCEPT ![j] = S!Over(job[j], pc)]
        /\ \/ job[j].fresh /\ settings # NoRow /\ pc = "failed" /\ settings' = settings
           \/ ~(job[j].fresh /\ settings # NoRow) /\ settings' = job[j].entity
  BY DEF S!Save, S!SaveRow, S!Ends
<1> DEFINE n == S!Over(job[j], pc)
<1>3. /\ JobFits(n) /\ n.op = job[j].op /\ n.page = job[j].page /\ n.pc = pc
      /\ pc = "answered" /\ n.op = "get" => n.entity = job[j].entity
  BY <1>1, OverJob
<1> HIDE DEF n
<1>4. /\ job' \in [S!Jobs -> S!Job]
      /\ \A i \in S!Jobs : JobFits(job'[i])
      /\ job'[j] = n
      /\ \A i \in S!Jobs : i # j => job'[i] = job[i]
  BY <1>2, <1>3, JobUpdate DEF SettingsInv, n
<1>5. CASE job[j].fresh /\ settings # NoRow /\ pc = "failed" /\ settings' = settings
  <2>1. WillShow(j)'
    BY <1>3, <1>4, <1>5 DEF WillShow
  <2> QED
    BY <1>0, <1>2, <1>3, <1>5, <2>1, ServedKeeps DEF n
<1>6. CASE ~(job[j].fresh /\ settings # NoRow) /\ settings' = job[j].entity
  <2>1. settings' # NoRow /\ RowFits(settings)'
    BY <1>1, <1>6 DEF RowFits, S!SettingsAssumption
  <2>2. S!TypeOK' /\ PageLoads'
    BY <1>0, <1>1, <1>3, <1>4, <1>6 DEF SettingsInv, S!TypeOK, PageLoads
  <2>3. Puts' = Puts
    BY <1>3, <1>4 DEF Puts
  <2>4. ~diverged' => OneChange' /\ Follows'
    <3> SUFFICES ASSUME ~diverged' PROVE OneChange' /\ Follows'
      OBVIOUS
    <3>1. OneChange /\ Follows
      BY <1>0 DEF SettingsInv
    <3>2. OneChange'
      BY <1>0, <1>3, <1>4, <2>3, <3>1 DEF OneChange, Puts
    <3>3. CASE job[j].op = "get"
      <4>1. settings = NoRow /\ boot = "language"
        BY <1>0, <1>1, <1>6, <3>1, <3>3 DEF JobFits, Follows, SettingsInv, S!TypeOK
      <4> QED
        BY <1>0, <1>3, <1>4, <1>6, <2>1, <3>1, <3>2, <3>3, <4>1 DEF Follows
    <3>4. CASE job[j].op = "put"
      <4>1. j \in Puts /\ boot = "done" /\ WillShow(j) /\ \A i \in Puts : i = j
        BY <3>1, <3>4 DEF OneChange, Follows, Puts
      <4>2. ShowsRow(settings)'
        BY <1>0, <1>6, <4>1 DEF WillShow, ShowsRow
      <4>3. WillShow(j)'
        BY <1>2, <1>3, <1>4, <4>2 DEF WillShow
      <4>4. \A i \in S!Jobs : ~(job'[i].page /\ job'[i].op = "get")
        BY <1>0, <2>2, <4>1 DEF PageLoads
      <4> QED
        BY <1>0, <2>1, <2>3, <3>2, <4>1, <4>2, <4>3, <4>4 DEF Follows
    <3> QED
      BY <1>1, <3>3, <3>4
  <2> QED
    BY <1>4, <2>1, <2>2, <2>4 DEF SettingsInv
<1> QED
  BY <1>2, <1>5, <1>6

LEMMA SettingsInit ==
  ASSUME S!SettingsAssumption, S!Init \/ S!Closed PROVE SettingsInv
<1> DEFINE n == S!Sent("get", TRUE, S!NoBody)
           m == S!NoJob
<1>1. /\ settings \in {NoRow, S!Created} /\ currentFiat = "USD" /\ loadingLangs = {}
      /\ boot \in {"language", "currency"} /\ currentLang \in {"en", BrowserLang}
      /\ diverged \in BOOLEAN /\ (boot = "currency" => diverged)
      /\ job = [j \in S!Jobs |-> IF j = 1 /\ S!Init THEN n ELSE m]
  BY DEF S!Init, S!Closed
<1>2. JobFits(n) /\ n.op = "get" /\ n.page /\ n.pc = "sent"
  BY PageReads
<1>3. JobFits(m) /\ m.op = "none"
  BY FreeJob
<1> HIDE DEF n, m
<1>4. \A j \in S!Jobs : JobFits(job[j]) /\ (job[j].op = "none" \/ (j = 1 /\ job[j] = n))
  BY <1>1, <1>2, <1>3
<1>5. job \in [S!Jobs -> S!Job]
  BY <1>1, <1>4 DEF JobFits
<1>6. S!TypeOK /\ RowFits(settings)
  BY <1>1, <1>5, CreatedRow
     DEF S!TypeOK, S!SettingsAssumption, S!Language, S!Fiat, RowFits
<1>7. PageLoads
  BY <1>1, <1>2, <1>4 DEF PageLoads
<1>8. Puts = {}
  BY <1>2, <1>4 DEF Puts
<1>9. ~diverged => OneChange /\ Follows
  BY <1>1, <1>2, <1>4, <1>8 DEF OneChange, Follows
<1> QED
  BY <1>4, <1>6, <1>7, <1>9 DEF SettingsInv

LEMMA SettingsNext ==
  ASSUME S!SettingsAssumption, SettingsInv, S!Next \/ UNCHANGED preferences
  PROVE  SettingsInv'
<1>1. CASE UNCHANGED preferences
  BY <1>1 DEF preferences, SettingsInv, S!TypeOK, RowFits, PageLoads, OneChange, Follows, Puts,
              WillShow, ShowsRow
<1>2. CASE S!Next
  BY <1>2, LoadKeeps, OtherReadsKeeps, SetLangKeeps, ApplyLangKeeps, SetPreferredFiatKeeps,
     OtherUpdatesKeeps, InitLanguageKeeps, InitCurrencyKeeps, HearUpdateKeeps, OtherHearsKeeps,
     FindKeeps, SaveKeeps, RequestFailsKeeps
     DEF S!Next
<1> QED
  BY <1>1, <1>2

\* Of every run of the settings: the rows and the requests keep their types and
\* the relations above.
THEOREM SettingsHold == Spec => []SettingsInv
<1>1. Init => SettingsInv
  BY SettingsInit, PagesAssumption DEF Init
<1>2. SettingsInv /\ [Next]_all => SettingsInv'
  BY SettingsNext, PagesAssumption
     DEF Next, all, VisitReceive, VisitSettings, VisitPay, VisitRoutes, VisitProcess,
         preferences
<1> QED
  BY <1>1, <1>2, PTL DEF Spec

\* The default currency of a user is always one of those preferred
\* (UserSettings), in every order of the reads and writes of any number of
\* tabs and devices.
THEOREM DefaultAlwaysPreferred == Spec => []DefaultIsPreferred
<1>1. SettingsInv => DefaultIsPreferred
  BY DEF SettingsInv, RowFits, Consistent, DefaultIsPreferred, S!DefaultIsPreferred
<1> QED
  BY <1>1, SettingsHold, PTL

\* Once nothing is under way and unless the history excuses it, the page shows
\* the preferences that are saved.
THEOREM SavedAlwaysShown == Spec => []SavedIsShown
<1>1. SettingsInv => SavedIsShown
  BY DEF SettingsInv, Follows, Puts, ShowsRow, SavedIsShown, S!SavedIsShown
<1> QED
  BY <1>1, SettingsHold, PTL

(***************************************************************************)
(* Receive.                                                                *)
(***************************************************************************)

\* A swap with row r and commit c that may be paid with what d says.
Payable(d, c, r) ==
  d.network # "starknet" =>
    /\ r = IF d.network = "lightning" THEN "pending" ELSE "paid"
    /\ d.network = "bitcoin" => c = "succeeded"

\* The browser awaits only what is under way, which is asked for under its own
\* number, and what is answered may be paid.
AskFits(i, a, r) ==
  /\ a \in R!Ask
  /\ a.heard => a.pc \notin {"none", "done"}
  /\ a.pc \notin {"none", "done"} => a.data \in R!Data /\ a.data.id = i
  /\ a.pc = "answered" => Payable(a.data, a.commit, r)

ForPage(d) == d.network = network /\ d.sats = R!Rounded(amount) /\ d.prefix = useUriPrefix

\* The browser awaits one answer at most, and while it does it has no invoice;
\* unless the inputs were touched, the answer is for the page.
OneAwaited ==
  /\ \A i \in R!Asks : ask[i].heard => /\ isLoading
                                       /\ ~touched => ForPage(ask[i].data)
                                       /\ \A j \in R!Asks : ask[j].heard => i = j
  /\ isLoading => invoice = NoInvoice

\* The invoice that is held was answered, stored and polled, and its request
\* is over.
InvoiceFits ==
  invoice # NoInvoice =>
    /\ ask[invoice.id].pc = "done"
    /\ invoice.network # "starknet" => invoice.id \in tracked
    /\ Payable(invoice, ask[invoice.id].commit, row[invoice.id])

\* Without a page there is no code; a new page shows an invoice of an earlier
\* visit as touched.
PageFits ==
  /\ qr # NoInvoice => qr = invoice /\ (~touched => ForPage(qr))
  /\ ~onPage => sliding = "none" /\ (~touched => invoice = NoInvoice /\ ~isLoading)

ReceiveInv ==
  /\ R!TypeOK
  /\ \A i \in R!Asks : AskFits(i, ask[i], row[i])
  /\ OneAwaited /\ InvoiceFits /\ PageFits


\* Of one request that goes on, by itself or by the API: nothing else moves.
LEMMA GoesOnKeeps ==
  ASSUME R!ReceiveAssumption, ReceiveInv, NEW i \in R!Asks, NEW n,
         ask' = [ask EXCEPT ![i] = n],
         ask[i].pc \notin {"none", "done"},
         n.heard => ask[i].heard /\ n.data = ask[i].data,
         row' \in [R!Asks -> {"none", "pending", "committed", "paid"}],
         \A j \in R!Asks : j # i => row'[j] = row[j],
         AskFits(i, n, row'[i]),
         UNCHANGED <<R!page, R!receiveService, tracked, touched>>
  PROVE  ReceiveInv'
<1>1. /\ ask' \in [R!Asks -> R!Ask] /\ ask'[i] = n
      /\ \A j \in R!Asks : j # i => ask'[j] = ask[j]
  BY DEF ReceiveInv, R!TypeOK, AskFits
<1>2. R!TypeOK'
  BY <1>1 DEF ReceiveInv, R!TypeOK, R!page, R!receiveService
<1>3. \A j \in R!Asks : AskFits(j, ask'[j], row'[j])
  BY <1>1 DEF ReceiveInv
<1>4. OneAwaited'
  BY <1>1 DEF ReceiveInv, OneAwaited, ForPage, R!page, R!receiveService
<1>5. InvoiceFits'
  <2> SUFFICES ASSUME invoice' # NoInvoice
               PROVE  /\ ask'[invoice.id].pc = "done"
                      /\ invoice.network # "starknet" => invoice.id \in tracked
                      /\ Payable(invoice, ask'[invoice.id].commit, row'[invoice.id])
    BY DEF InvoiceFits, R!receiveService
  <2>1. invoice \in R!Data /\ invoice.id \in R!Asks /\ ask[invoice.id].pc = "done"
    BY DEF ReceiveInv, R!TypeOK, R!receiveService, R!Data, InvoiceFits
  <2>2. invoice.id # i
    BY <2>1
  <2> QED
    BY <1>1, <2>1, <2>2 DEF ReceiveInv, InvoiceFits, R!receiveService
<1>6. PageFits'
  BY DEF ReceiveInv, PageFits, ForPage, R!page, R!receiveService
<1> QED
  BY <1>2, <1>3, <1>4, <1>5, <1>6 DEF ReceiveInv

\* A request that moves to pc, or is over if nobody would hear of it.
LEMMA GoesFits ==
  ASSUME NEW i \in R!Asks, NEW a \in R!Ask, NEW pc \in {"quoted", "pending_commit", "signed",
           "submitted", "recorded", "answered", "failed"},
         NEW r, NEW old, AskFits(i, a, old), a.pc \notin {"none", "done"},
         pc = "answered" => Payable(a.data, a.commit, r),
         NEW n, n = IF a.heard \/ pc \notin R!Returned THEN [a EXCEPT !.pc = pc] ELSE R!Ended(a)
  PROVE  AskFits(i, n, r) /\ (n.heard => a.heard /\ n.data = a.data)
<1>1. CASE a.heard \/ pc \notin R!Returned
  <2>1. /\ n \in R!Ask /\ n.pc = pc /\ n.data = a.data /\ n.heard = a.heard
        /\ n.commit = a.commit
    BY <1>1 DEF R!Ask
  <2> QED
    BY <2>1 DEF AskFits
<1>2. CASE ~(a.heard \/ pc \notin R!Returned)
  <2>1. n = [a EXCEPT !.pc = "done", !.data = NoInvoice, !.heard = FALSE]
    BY <1>2 DEF R!Ended
  <2>2. n \in R!Ask /\ n.pc = "done" /\ ~n.heard
    BY <2>1 DEF R!Ask
  <2> QED
    BY <2>2 DEF AskFits
<1> QED
  BY <1>1, <1>2

LEMMA GoesKeeps ==
  ASSUME R!ReceiveAssumption, ReceiveInv, NEW i \in R!Asks,
         NEW pc \in {"quoted", "pending_commit", "signed", "submitted", "recorded", "answered",
                     "failed"},
         ask[i].pc \notin {"none", "done"}, R!Goes(i, pc),
         NEW r \in {"none", "pending", "committed", "paid"}, row' = [row EXCEPT ![i] = r],
         pc = "answered" => Payable(ask[i].data, ask[i].commit, r),
         UNCHANGED <<R!page, R!receiveService, tracked, touched>>
  PROVE  ReceiveInv'
<1> DEFINE a == ask[i]
           n == IF a.heard \/ pc \notin R!Returned THEN [a EXCEPT !.pc = pc] ELSE R!Ended(a)
<1>1. ask' = [ask EXCEPT ![i] = n]
  BY DEF R!Goes
<1>2. a \in R!Ask /\ AskFits(i, a, row[i])
  BY DEF ReceiveInv, AskFits
<1>3. AskFits(i, n, r) /\ (n.heard => a.heard /\ n.data = a.data)
  BY <1>2, GoesFits
<1>4. /\ row' \in [R!Asks -> {"none", "pending", "committed", "paid"}]
      /\ row'[i] = r /\ \A j \in R!Asks : j # i => row'[j] = row[j]
  BY DEF ReceiveInv, R!TypeOK
<1> HIDE DEF n
<1> QED
  BY <1>1, <1>3, <1>4, GoesOnKeeps

LEMMA ServeKeeps ==
  ASSUME R!ReceiveAssumption, ReceiveInv, NEW i \in R!Asks, R!Serve(i) PROVE ReceiveInv'
<1>1. CASE R!ReceiveStarknet(i)
  <2>1. Payable(ask[i].data, ask[i].commit, row[i])
    BY <1>1 DEF R!ReceiveStarknet, R!ServedAt, Payable
  <2>2. row' = [row EXCEPT ![i] = row[i]] /\ row[i] \in {"none", "pending", "committed", "paid"}
    BY <1>1 DEF R!ReceiveStarknet, ReceiveInv, R!TypeOK
  <2>3. R!Goes(i, "answered") /\ ask[i].pc = "sent"
        /\ UNCHANGED <<R!page, R!receiveService, tracked, touched>>
    BY <1>1 DEF R!ReceiveStarknet, R!ServedAt
  <2> QED
    BY <2>1, <2>2, <2>3, GoesKeeps
<1>2. CASE R!CreateLightningToStarknet(i)
  <2>1. Payable(ask[i].data, ask[i].commit, "pending")
    BY <1>2 DEF R!CreateLightningToStarknet, R!ServedAt, Payable
  <2>2. /\ R!Goes(i, "answered") /\ ask[i].pc = "quoted" /\ row' = [row EXCEPT ![i] = "pending"]
        /\ UNCHANGED <<R!page, R!receiveService, tracked, touched>>
    BY <1>2 DEF R!CreateLightningToStarknet, R!ServedAt
  <2> QED
    BY <2>1, <2>2, GoesKeeps
<1>3. CASE R!CompleteBitcoinToStarknet(i)
  <2>1. Payable(ask[i].data, ask[i].commit, "paid")
    BY <1>3 DEF R!CompleteBitcoinToStarknet, R!ServedAt, Payable
  <2>2. /\ R!Goes(i, "answered") /\ ask[i].pc = "recorded" /\ row' = [row EXCEPT ![i] = "paid"]
        /\ UNCHANGED <<R!page, R!receiveService, tracked, touched>>
    BY <1>3 DEF R!CompleteBitcoinToStarknet, R!ServedAt
  <2> QED
    BY <2>1, <2>2, GoesKeeps
<1>4. CASE R!SaveBitcoinCommit(i)
  <2>1. /\ R!Goes(i, "recorded") /\ ask[i].pc = "confirmed"
        /\ row' = [row EXCEPT ![i] = "committed"]
        /\ UNCHANGED <<R!page, R!receiveService, tracked, touched>>
    BY <1>4 DEF R!SaveBitcoinCommit, R!ServedAt
  <2> QED
    BY <2>1, GoesKeeps
<1>5. CASE R!Quote(i) \/ R!PrepareCommit(i) \/ R!ExecuteSignedCalls(i) \/ R!RequestFails(i)
  <2>1. PICK pc \in {"quoted", "pending_commit", "submitted", "failed"} :
          /\ R!Goes(i, pc) /\ ask[i].pc \notin {"none", "done"}
          /\ UNCHANGED <<R!page, R!receiveService, row, tracked, touched>>
    BY <1>5 DEF R!Quote, R!PrepareCommit, R!ExecuteSignedCalls, R!RequestFails, R!ServedAt
  <2>2. row' = [row EXCEPT ![i] = row[i]] /\ row[i] \in {"none", "pending", "committed", "paid"}
    BY <2>1 DEF ReceiveInv, R!TypeOK
  <2> QED
    BY <2>1, <2>2, GoesKeeps
<1>6. CASE R!ConfirmCommit(i)
  <2>1. PICK result \in {"succeeded", "reverted"} :
          ask' = [ask EXCEPT ![i].pc = "confirmed", ![i].commit = result]
    BY <1>6 DEF R!ConfirmCommit
  <2>2. ask[i].pc = "submitted" /\ UNCHANGED <<R!page, R!receiveService, row, tracked, touched>>
    BY <1>6 DEF R!ConfirmCommit, R!ServedAt
  <2> DEFINE n == [ask[i] EXCEPT !.pc = "confirmed", !.commit = result]
  <2>3. ask[i] \in R!Ask /\ AskFits(i, ask[i], row[i])
    BY DEF ReceiveInv, AskFits
  <2>4. ask' = [ask EXCEPT ![i] = n]
    BY <2>1, <2>3 DEF ReceiveInv, R!TypeOK
  <2>5. /\ n \in R!Ask /\ n.pc = "confirmed" /\ n.data = ask[i].data
        /\ n.heard = ask[i].heard
    BY <2>3 DEF R!Ask
  <2> HIDE DEF n
  <2>6. AskFits(i, n, row'[i])
    BY <2>2, <2>3, <2>5 DEF AskFits
  <2>7. row' \in [R!Asks -> {"none", "pending", "committed", "paid"}]
    BY <2>2 DEF ReceiveInv, R!TypeOK
  <2> QED
    BY <2>2, <2>4, <2>5, <2>6, <2>7, GoesOnKeeps
<1> QED
  BY <1>1, <1>2, <1>3, <1>4, <1>5, <1>6 DEF R!Serve

LEMMA SignCommitKeeps ==
  ASSUME R!ReceiveAssumption, ReceiveInv, NEW i \in R!Asks, R!SignCommit(i) PROVE ReceiveInv'
<1>1. /\ R!Goes(i, "signed") /\ ask[i].pc = "pending_commit"
      /\ UNCHANGED <<R!page, R!receiveService, row, tracked, touched>>
  BY DEF R!SignCommit, R!HeardAt
<1>2. row' = [row EXCEPT ![i] = row[i]] /\ row[i] \in {"none", "pending", "committed", "paid"}
  BY <1>1 DEF ReceiveInv, R!TypeOK
<1> QED
  BY <1>1, <1>2, GoesKeeps

\* The browser stops to wait without an invoice.
LEMMA StopsKeeps ==
  ASSUME R!ReceiveAssumption, ReceiveInv, NEW i \in R!Asks,
         R!CancelCommit(i) \/ R!HandleError(i) \/ R!LoseAnswer(i)
  PROVE  ReceiveInv'
<1> DEFINE a == ask[i]
<1>1. PICK n \in {R!Ended(a), R!Abandoned(a)} : ask' = [ask EXCEPT ![i] = n]
  BY DEF R!CancelCommit, R!HandleError, R!LoseAnswer
<1>2. /\ a.heard /\ isLoading' = FALSE /\ touched' = FALSE
      /\ UNCHANGED <<R!page, invoice, row, tracked>>
  BY DEF R!CancelCommit, R!HandleError, R!LoseAnswer, R!HeardAt, R!StopsLoading
<1>3. a \in R!Ask /\ AskFits(i, a, row[i]) /\ isLoading /\ invoice = NoInvoice
  BY <1>2 DEF ReceiveInv, AskFits, OneAwaited
<1>4. n \in R!Ask /\ ~n.heard /\ AskFits(i, n, row[i])
  <2>1. CASE n = [a EXCEPT !.pc = "done", !.data = NoInvoice, !.heard = FALSE]
    <3>1. n \in R!Ask /\ ~n.heard /\ n.pc = "done"
      BY <1>3, <2>1 DEF R!Ask
    <3> QED
      BY <3>1 DEF AskFits
  <2>2. CASE n = [a EXCEPT !.heard = FALSE]
    <3>1. n \in R!Ask /\ ~n.heard /\ n.pc = a.pc /\ n.data = a.data /\ n.commit = a.commit
      BY <1>3, <2>2 DEF R!Ask
    <3> QED
      BY <1>3, <3>1 DEF AskFits
  <2> QED
    BY <1>1, <2>1, <2>2 DEF R!Ended, R!Abandoned
<1>5. /\ ask' \in [R!Asks -> R!Ask] /\ ask'[i] = n
      /\ \A j \in R!Asks : j # i => ask'[j] = ask[j]
  BY <1>1, <1>4 DEF ReceiveInv, R!TypeOK
<1>6. R!TypeOK'
  BY <1>2, <1>5 DEF ReceiveInv, R!TypeOK, R!page
<1>7. \A j \in R!Asks : AskFits(j, ask'[j], row'[j])
  BY <1>2, <1>4, <1>5 DEF ReceiveInv
<1>8. \A j \in R!Asks : ~ask'[j].heard
  BY <1>2, <1>4, <1>5 DEF ReceiveInv, OneAwaited
<1>9. qr = NoInvoice
  BY <1>3 DEF ReceiveInv, PageFits
<1> QED
  BY <1>2, <1>3, <1>6, <1>7, <1>8, <1>9
     DEF ReceiveInv, OneAwaited, InvoiceFits, PageFits, R!page

LEMMA ReceiveSuccessKeeps ==
  ASSUME R!ReceiveAssumption, ReceiveInv, NEW i \in R!Asks, R!HandleReceiveSuccess(i)
  PROVE  ReceiveInv'
<1> DEFINE a == ask[i]
           n == [a EXCEPT !.pc = "done", !.data = NoInvoice, !.heard = FALSE]
<1>1. /\ a.heard /\ a.pc = "answered" /\ ask' = [ask EXCEPT ![i] = n]
      /\ invoice' = a.data /\ isLoading' = FALSE /\ qr' = (IF onPage THEN a.data ELSE qr)
      /\ tracked' = (IF a.data.network = "starknet" THEN tracked ELSE tracked \cup {i})
      /\ UNCHANGED <<onPage, network, amount, useUriPrefix, sliding, row, touched>>
  BY DEF R!HandleReceiveSuccess, R!HeardAt, R!Ended
<1>2. a \in R!Ask /\ AskFits(i, a, row[i]) /\ isLoading /\ invoice = NoInvoice
  BY <1>1 DEF ReceiveInv, AskFits, OneAwaited
<1>3. a.data \in R!Data /\ a.data.id = i /\ Payable(a.data, a.commit, row[i])
  BY <1>1, <1>2 DEF AskFits
<1>4. n \in R!Ask /\ ~n.heard /\ n.pc = "done" /\ n.commit = a.commit
  BY <1>2 DEF R!Ask
<1> HIDE DEF n
<1>5. /\ ask' \in [R!Asks -> R!Ask] /\ ask'[i] = n
      /\ \A j \in R!Asks : j # i => ask'[j] = ask[j]
  BY <1>1, <1>4 DEF ReceiveInv, R!TypeOK
<1>6. R!TypeOK'
  BY <1>1, <1>3, <1>5 DEF ReceiveInv, R!TypeOK
<1>7. \A j \in R!Asks : AskFits(j, ask'[j], row'[j])
  <2>1. AskFits(i, n, row[i])
    BY <1>4 DEF AskFits
  <2> QED
    BY <1>1, <1>5, <2>1 DEF ReceiveInv
<1>8. \A j \in R!Asks : ~ask'[j].heard
  BY <1>1, <1>4, <1>5 DEF ReceiveInv, OneAwaited
<1>9. OneAwaited'
  BY <1>1, <1>8 DEF OneAwaited
<1>10. InvoiceFits'
  BY <1>1, <1>3, <1>4, <1>5 DEF InvoiceFits
<1>11. PageFits'
  <2>1. qr = NoInvoice /\ (~onPage => touched /\ sliding = "none")
    BY <1>2 DEF ReceiveInv, PageFits
  <2>2. ~touched => ForPage(a.data)
    BY <1>1 DEF ReceiveInv, OneAwaited
  <2> QED
    BY <1>1, <2>1, <2>2 DEF PageFits, ForPage
<1> QED
  BY <1>6, <1>7, <1>9, <1>10, <1>11 DEF ReceiveInv

LEMMA CreateInvoiceKeeps ==
  ASSUME R!ReceiveAssumption, ReceiveInv, NEW i \in R!Asks, R!CreateInvoice(i) PROVE ReceiveInv'
<1> DEFINE d == [id |-> i, network |-> network, sats |-> R!Rounded(amount), prefix |-> useUriPrefix]
           n == [pc |-> "sent", heard |-> TRUE, commit |-> "none", data |-> d]
<1>1. /\ onPage /\ qr = NoInvoice /\ ~isLoading /\ ask[i].pc = "none"
      /\ isLoading' = TRUE /\ invoice' = NoInvoice /\ ask' = [ask EXCEPT ![i] = n]
      /\ touched' = FALSE /\ UNCHANGED <<R!page, row, tracked>>
  BY DEF R!CreateInvoice, R!ShowCreateInvoice
<1>2. R!Rounded(amount) \in {0, 1}
  BY DEF ReceiveInv, R!TypeOK, R!Typed, R!Rounded
<1>3. d \in R!Data /\ d.id = i /\ ForPage(d)
  BY <1>2 DEF ReceiveInv, R!TypeOK, R!Data, ForPage
<1> HIDE DEF d
<1>4. n \in R!Ask /\ n.heard /\ n.pc = "sent" /\ n.data = d
  BY <1>3 DEF R!Ask
<1> HIDE DEF n
<1>5. /\ ask' \in [R!Asks -> R!Ask] /\ ask'[i] = n
      /\ \A j \in R!Asks : j # i => ask'[j] = ask[j] /\ ~ask[j].heard
  BY <1>1, <1>4 DEF ReceiveInv, R!TypeOK, OneAwaited
<1>6. R!TypeOK'
  BY <1>1, <1>5 DEF ReceiveInv, R!TypeOK, R!page
<1>7. \A j \in R!Asks : AskFits(j, ask'[j], row'[j])
  <2>1. AskFits(i, n, row[i])
    BY <1>3, <1>4 DEF AskFits
  <2> QED
    BY <1>1, <1>5, <2>1 DEF ReceiveInv
<1>8. OneAwaited'
  BY <1>1, <1>3, <1>4, <1>5 DEF OneAwaited, ForPage, R!page
<1>9. InvoiceFits' /\ PageFits'
  BY <1>1 DEF ReceiveInv, InvoiceFits, PageFits, R!page
<1> QED
  BY <1>6, <1>7, <1>8, <1>9 DEF ReceiveInv

LEMMA ReloadKeeps ==
  ASSUME R!ReceiveAssumption, ReceiveInv, R!Reload PROVE ReceiveInv'
<1>1. /\ onPage' = FALSE /\ network' = "starknet" /\ amount' = 0 /\ useUriPrefix' = TRUE
      /\ qr' = NoInvoice /\ sliding' = "none" /\ isLoading' = FALSE /\ invoice' = NoInvoice
      /\ touched' = FALSE /\ row' = row /\ tracked' = tracked
      /\ ask' = [i \in R!Asks |-> R!Abandoned(ask[i])]
  BY DEF R!Reload
<1>2. ASSUME NEW i \in R!Asks
      PROVE  AskFits(i, ask'[i], row'[i]) /\ ~ask'[i].heard
  <2> DEFINE a == ask[i]
             n == R!Abandoned(a)
  <2>1. a \in R!Ask /\ AskFits(i, a, row[i])
    BY DEF ReceiveInv, AskFits
  <2>2. CASE n = [a EXCEPT !.pc = "done", !.data = NoInvoice, !.heard = FALSE]
    <3>1. n \in R!Ask /\ ~n.heard /\ n.pc = "done"
      BY <2>1, <2>2 DEF R!Ask
    <3> HIDE DEF n
    <3>2. AskFits(i, n, row[i]) /\ ~n.heard
      BY <3>1 DEF AskFits
    <3> QED
      BY <1>1, <3>2 DEF n
  <2>3. CASE n = [a EXCEPT !.heard = FALSE]
    <3>1. n \in R!Ask /\ ~n.heard /\ n.pc = a.pc /\ n.data = a.data /\ n.commit = a.commit
      BY <2>1, <2>3 DEF R!Ask
    <3> HIDE DEF n
    <3>2. AskFits(i, n, row[i]) /\ ~n.heard
      BY <2>1, <3>1 DEF AskFits
    <3> QED
      BY <1>1, <3>2 DEF n
  <2> QED
    BY <2>2, <2>3 DEF R!Ended, R!Abandoned
<1>3. ask' \in [R!Asks -> R!Ask]
  BY <1>1, <1>2 DEF AskFits
<1>4. R!TypeOK'
  BY <1>1, <1>3 DEF ReceiveInv, R!TypeOK, R!Networks, R!Typed
<1> QED
  BY <1>1, <1>2, <1>4 DEF ReceiveInv, OneAwaited, InvoiceFits, PageFits

\* What the user does on the page leaves the requests alone.
LEMMA PageKeeps ==
  ASSUME R!ReceiveAssumption, ReceiveInv,
         \/ \E a \in R!Typed : R!ChangeAmount(a)
         \/ \E to \in R!Networks : R!AnimateTo(to)
         \/ R!TogglePrefix \/ R!SlideEnds \/ R!Leave \/ R!Open
  PROVE  ReceiveInv'
<1>1. UNCHANGED <<ask, row, tracked>>
  BY DEF R!ChangeAmount, R!AnimateTo, R!TogglePrefix, R!SlideEnds, R!Leave, R!Open
<1>2. \A i \in R!Asks : AskFits(i, ask'[i], row'[i])
  BY <1>1 DEF ReceiveInv
<1>3. CASE \E a \in R!Typed : R!ChangeAmount(a)
  BY <1>1, <1>2, <1>3
     DEF R!ChangeAmount, R!ClearQr, R!receiveService, ReceiveInv, R!TypeOK, OneAwaited,
         InvoiceFits, PageFits, ForPage
<1>4. CASE \E to \in R!Networks : R!AnimateTo(to)
  <2>1. PICK to \in R!Networks : R!AnimateTo(to)
    BY <1>4
  <2>2. /\ onPage /\ onPage' = onPage /\ sliding' = to
        /\ UNCHANGED <<network, useUriPrefix>>
    BY <2>1 DEF R!AnimateTo
  <2>3. CASE invoice # NoInvoice
    <3>1. /\ amount' = 0 /\ qr' = NoInvoice /\ touched' = isLoading
          /\ invoice' = NoInvoice /\ isLoading' = FALSE
      BY <2>1, <2>3 DEF R!AnimateTo, R!ClearQr
    <3>2. ~isLoading /\ \A i \in R!Asks : ~ask[i].heard
      BY <2>3 DEF ReceiveInv, OneAwaited
    <3>3. R!TypeOK'
      BY <1>1, <2>2, <3>1, <3>2 DEF ReceiveInv, R!TypeOK, R!Typed
    <3> QED
      BY <1>1, <1>2, <2>2, <3>1, <3>2, <3>3 DEF ReceiveInv, OneAwaited, InvoiceFits, PageFits
  <2>4. CASE invoice = NoInvoice
    <3>1. UNCHANGED <<amount, qr, touched, isLoading, invoice>>
      BY <2>1, <2>4 DEF R!AnimateTo, R!receiveService
    <3> QED
      BY <1>1, <1>2, <2>2, <2>4, <3>1
         DEF ReceiveInv, R!TypeOK, OneAwaited, InvoiceFits, PageFits, ForPage
  <2> QED
    BY <2>3, <2>4
<1>5. CASE R!TogglePrefix
  BY <1>1, <1>2, <1>5
     DEF R!TogglePrefix, R!ClearQr, R!receiveService, ReceiveInv, R!TypeOK, OneAwaited,
         InvoiceFits, PageFits, ForPage
<1>6. CASE R!SlideEnds
  BY <1>1, <1>2, <1>6
     DEF R!SlideEnds, R!ClearQr, R!receiveService, ReceiveInv, R!TypeOK, OneAwaited,
         InvoiceFits, PageFits, ForPage, R!Networks
<1>7. CASE R!Leave
  BY <1>1, <1>2, <1>7
     DEF R!Leave, R!receiveService, ReceiveInv, R!TypeOK, OneAwaited,
         InvoiceFits, PageFits, ForPage, R!Networks, R!Typed
<1>8. CASE R!Open
  BY <1>1, <1>2, <1>8
     DEF R!Open, R!receiveService, ReceiveInv, R!TypeOK, OneAwaited,
         InvoiceFits, PageFits, ForPage
<1> QED
  BY <1>3, <1>4, <1>5, <1>6, <1>7, <1>8

LEMMA ReceiveInit ==
  ASSUME R!ReceiveAssumption, R!Init \/ R!Closed PROVE ReceiveInv
<1>1. /\ onPage \in BOOLEAN /\ network = "starknet" /\ amount = 0 /\ useUriPrefix = TRUE
      /\ qr = NoInvoice /\ sliding = "none" /\ isLoading = FALSE /\ invoice = NoInvoice
      /\ ask = [i \in R!Asks |-> R!NoAsk] /\ row = [i \in R!Asks |-> "none"] /\ tracked = {}
      /\ touched = FALSE
  BY DEF R!Init, R!Closed, R!EmptyPage
<1>2. R!NoAsk \in R!Ask /\ ~R!NoAsk.heard /\ R!NoAsk.pc = "none"
  BY DEF R!NoAsk, R!Ask
<1>3. R!TypeOK
  BY <1>1, <1>2 DEF R!TypeOK, R!Networks, R!Typed
<1> QED
  BY <1>1, <1>2, <1>3 DEF ReceiveInv, AskFits, OneAwaited, InvoiceFits, PageFits

LEMMA ReceiveNext ==
  ASSUME R!ReceiveAssumption, ReceiveInv, R!Next \/ UNCHANGED receive PROVE ReceiveInv'
<1>1. CASE UNCHANGED receive
  BY <1>1 DEF receive, ReceiveInv, R!TypeOK, OneAwaited, InvoiceFits, PageFits, ForPage
<1>2. CASE R!Next
  BY <1>2, PageKeeps, ReloadKeeps, CreateInvoiceKeeps, ServeKeeps, SignCommitKeeps, StopsKeeps,
     ReceiveSuccessKeeps
     DEF R!Next, R!Hear
<1> QED
  BY <1>1, <1>2

\* Of every run of the page that receives: the requests, the service and the
\* page keep their types and the relations above.
THEOREM ReceiveHolds == Spec => []ReceiveInv
<1>1. Init => ReceiveInv
  BY ReceiveInit, PagesAssumption DEF Init
<1>2. ReceiveInv /\ [Next]_all => ReceiveInv'
  BY ReceiveNext, PagesAssumption
     DEF Next, all, VisitReceive, VisitSettings, VisitPay, VisitRoutes, VisitProcess, receive
<1> QED
  BY <1>1, <1>2, PTL DEF Spec

\* What is on screen to be paid has its swap in the database, with its escrow
\* funded for Bitcoin, and in the storage of the browser, whatever the user
\* does while an answer is awaited.
THEOREM ShownAlwaysTracked == Spec => []ShownIsTracked
<1>1. ReceiveInv => ShownIsTracked
  BY DEF ReceiveInv, PageFits, InvoiceFits, Payable, ShownIsTracked, R!ShownIsTracked
<1> QED
  BY <1>1, ReceiveHolds, PTL

\* The code on screen is the invoice the service holds and, unless touched, for
\* the network, the amount and the prefix of the page.
THEOREM QrAlwaysForPage == Spec => []QrIsForPage
<1>1. ReceiveInv => QrIsForPage
  BY DEF ReceiveInv, PageFits, ForPage, QrIsForPage, R!QrIsForPage
<1> QED
  BY <1>1, ReceiveHolds, PTL

(***************************************************************************)
(* The claims of the Atomiq gateway.                                       *)
(***************************************************************************)

Claiming == {"claiming", "submitted", "verifying", "refunding", "diagnosing"}

\* An operation is of a swap, but for the limits, which a creation saves before
\* it is answered; only the monitor claims.
OperationFits(o) ==
  /\ op[o].kind \notin {"none", "limits"} => op[o].swap \in Swaps
  /\ op[o].pc = "quoted" => op[o].kind \in G!Creations /\ op[o].swap \in saved
  /\ op[o].kind = "claim" => o = Monitor
  /\ op[o].pc \in Claiming => op[o].kind = "claim"

\* A claim that is known is on chain; a bounty was sent once at most, of a known
\* claim that was ours, or might have been.
BountiesFit ==
  \A s \in Swaps :
    /\ s \in claimKnown => escrow[s] \in {"backend", "watchtower"}
    /\ refunds[s] > 0 => /\ s \in claimKnown /\ s \in WithBounty /\ refunds[s] = 1
                         /\ escrow[s] = "backend" \/ s \in unverified

\* A claim that may lead to a refund is the first of its swap that the monitor
\* has heard the end of.
FirstClaim ==
  LET s == op[Monitor].swap IN
  /\ op[Monitor].pc = "submitted" => escrow[s] = "backend" /\ s \notin claimKnown
  /\ op[Monitor].pc \in {"verifying", "refunding"} => s \in claimKnown /\ refunds[s] = 0
  /\ op[Monitor].pc = "refunding" =>
       s \in WithBounty /\ (escrow[s] = "backend" \/ s \in unverified)

GatewayInv ==
  G!TypeOK /\ (\A o \in G!Ops : OperationFits(o)) /\ BountiesFit /\ FirstClaim


OpPcs == {"idle", "ensuring", "initialising", "calling", "quoted", "committing",
          "claiming", "submitted", "verifying", "refunding", "diagnosing"}

Operation == [pc : OpPcs, kind : G!Kind \cup {"none"}, swap : Swaps \cup {NoSwap},
              mine : G!Instances \cup {0}]

LEMMA OperationTyped == G!TypeOK => op \in [G!Ops -> Operation]
  BY DEF G!TypeOK, Operation, OpPcs

\* The record of a service stays one, whatever is reported.
LEMMA HealthStays ==
  ASSUME health \in G!ComponentHealth({0}),
         G!MarkHealthy \/ (\E kind : G!HandleAtomiqFailure(kind)) \/ health' = health
  PROVE  health' \in G!ComponentHealth({0})
  BY DEF G!MarkHealthy, G!HandleAtomiqFailure, G!ReportHealthy, G!ReportDown, G!Declared,
         G!ComponentHealth

\* An operation that goes on, or ends, stays one.
LEMMA OperationMoves ==
  ASSUME op \in [G!Ops -> Operation], NEW o \in G!Ops
  PROVE  /\ \A pc \in OpPcs : G!Goes(o, pc) =>
              /\ op' \in [G!Ops -> Operation]
              /\ op'[o].pc = pc /\ op'[o].kind = op[o].kind /\ op'[o].swap = op[o].swap
              /\ \A p \in G!Ops : p # o => op'[p] = op[p]
         /\ G!Ends(o) =>
              /\ op' \in [G!Ops -> Operation]
              /\ op'[o].pc = "idle" /\ op'[o].kind = "none"
              /\ \A p \in G!Ops : p # o => op'[p] = op[p]
<1>1. G!Idle \in Operation /\ G!Idle.pc = "idle" /\ G!Idle.kind = "none"
  BY DEF G!Idle, Operation, OpPcs
<1>2. ASSUME NEW pc \in OpPcs, G!Goes(o, pc)
      PROVE  /\ op' \in [G!Ops -> Operation]
             /\ op'[o].pc = pc /\ op'[o].kind = op[o].kind /\ op'[o].swap = op[o].swap
             /\ \A p \in G!Ops : p # o => op'[p] = op[p]
  <2> DEFINE n == [op[o] EXCEPT !.pc = pc]
  <2>1. n \in Operation /\ n.pc = pc /\ n.kind = op[o].kind /\ n.swap = op[o].swap
    BY DEF Operation
  <2>2. op' = [op EXCEPT ![o] = n]
    BY <1>2 DEF G!Goes
  <2> HIDE DEF n
  <2> QED
    BY <2>1, <2>2
<1>3. ASSUME G!Ends(o)
      PROVE  /\ op' \in [G!Ops -> Operation]
             /\ op'[o].pc = "idle" /\ op'[o].kind = "none"
             /\ \A p \in G!Ops : p # o => op'[p] = op[p]
  BY <1>1, <1>3 DEF G!Ends
<1> QED
  BY <1>2, <1>3

\* Of a step, the rest of the types: what is not of the operations or the
\* claims.
RestTyped ==
  /\ swapper \in G!Instances \cup {0}
  /\ made \in [G!Instances -> {"none", "initialising", "ready", "failed"}]
  /\ isInitialized \in BOOLEAN
  /\ answered \subseteq saved /\ saved \subseteq Swaps
  /\ health \in G!ComponentHealth({0})

\* An operation that ends, or that moves where no claim is made, changes nothing
\* of the claims.
LEMMA OutsideClaims ==
  ASSUME GatewayInv, NEW o \in G!Ops, RestTyped', saved \subseteq saved',
         op' \in [G!Ops -> Operation],
         \A p \in G!Ops : p # o => op'[p] = op[p],
         op'[o].pc \notin Claiming, OperationFits(o)',
         UNCHANGED <<escrow, claimKnown, refunds, unverified>>
  PROVE  GatewayInv'
<1>1. ASSUME NEW p \in G!Ops PROVE OperationFits(p)'
  <2>1. CASE p = o
    BY <2>1
  <2>2. CASE p # o
    BY <2>2 DEF GatewayInv, OperationFits
  <2> QED
    BY <2>1, <2>2
<1>2. BountiesFit'
  BY DEF GatewayInv, BountiesFit
<1>3. FirstClaim'
  BY DEF GatewayInv, FirstClaim, G!Ops, Claiming
<1>4. G!TypeOK'
  BY DEF GatewayInv, G!TypeOK, RestTyped, Operation, OpPcs
<1> QED
  BY <1>1, <1>2, <1>3, <1>4 DEF GatewayInv

\* Every operation that ends without a claim, a refund or a creation.
LEMMA EndsKeeps ==
  ASSUME GatewayInv, NEW o \in G!Ops, G!Ends(o), RestTyped', saved \subseteq saved',
         UNCHANGED <<escrow, claimKnown, refunds, unverified>>
  PROVE  GatewayInv'
<1>1. /\ op' \in [G!Ops -> Operation] /\ op'[o].pc = "idle" /\ op'[o].kind = "none"
      /\ \A p \in G!Ops : p # o => op'[p] = op[p]
  BY OperationTyped, OperationMoves DEF GatewayInv
<1>2. OperationFits(o)'
  BY <1>1 DEF OperationFits, Claiming
<1> QED
  BY <1>1, <1>2, OutsideClaims DEF Claiming

\* The actions that end an operation, and those that start one or take it
\* further without a claim.
LEMMA EndingsKeep ==
  ASSUME GatewayInv, NEW o \in G!Ops,
         \/ G!CallsUnready(o) \/ G!Created(o) \/ G!GetLimits(o) \/ G!GetSwapStatus(o)
         \/ G!StatusNotFound(o) \/ G!Commited(o) \/ G!CommitAborted(o) \/ G!ClaimNotRead(o)
         \/ G!GiveUp(o)
         \/ \E kind \in G!SdkErrors :
              G!InitializeFails(o, kind) \/ G!CallFails(o, kind) \/ G!ClaimFails(o, kind)
         \/ \E reason \in G!Functional(op[o].kind) : G!Rejected(o, reason)
  PROVE  GatewayInv'
<1>1. G!Ends(o) /\ UNCHANGED <<escrow, claimKnown, refunds, unverified>>
  BY DEF G!CallsUnready, G!Created, G!GetLimits, G!GetSwapStatus, G!StatusNotFound, G!Commited,
         G!CommitAborted, G!ClaimNotRead, G!GiveUp, G!InitializeFails, G!CallFails,
         G!ClaimFails, G!Rejected
<1>2. G!MarkHealthy \/ (\E kind : G!HandleAtomiqFailure(kind)) \/ health' = health
  BY DEF G!CallsUnready, G!Created, G!GetLimits, G!GetSwapStatus, G!StatusNotFound, G!Commited,
         G!CommitAborted, G!ClaimNotRead, G!GiveUp, G!InitializeFails, G!CallFails,
         G!ClaimFails, G!Rejected
<1>3. health' \in G!ComponentHealth({0})
  BY <1>2, HealthStays DEF GatewayInv, G!TypeOK
<1>4. /\ swapper' = swapper /\ isInitialized' = isInitialized
      /\ made' = made \/ made' = [made EXCEPT ![op[o].mine] = "failed"]
  BY DEF G!CallsUnready, G!Created, G!GetLimits, G!GetSwapStatus, G!StatusNotFound, G!Commited,
         G!CommitAborted, G!ClaimNotRead, G!GiveUp, G!InitializeFails, G!CallFails,
         G!ClaimFails, G!Rejected, G!sdk
<1>5. saved' = saved /\ (answered' = answered \/ G!Created(o))
  BY DEF G!CallsUnready, G!Created, G!GetLimits, G!GetSwapStatus, G!StatusNotFound, G!Commited,
         G!CommitAborted, G!ClaimNotRead, G!GiveUp, G!InitializeFails, G!CallFails,
         G!ClaimFails, G!Rejected, G!store
<1>6. answered' \subseteq saved'
  BY <1>5 DEF GatewayInv, G!TypeOK, OperationFits, G!Created
<1>7. RestTyped'
  BY <1>3, <1>4, <1>5, <1>6 DEF RestTyped, GatewayInv, G!TypeOK
<1> QED
  BY <1>1, <1>5, <1>7, EndsKeeps

LEMMA BeginKeeps ==
  ASSUME GatewayInv, NEW o \in G!Ops, NEW kind \in G!Kind, NEW s \in Swaps \cup {NoSwap},
         G!Begin(o, kind, s)
  PROVE  GatewayInv'
<1> DEFINE g == G!Idle
           n == [g EXCEPT !.pc = "ensuring", !.kind = kind, !.swap = s]
<1>1. op' = [op EXCEPT ![o] = n]
  BY DEF G!Begin
<1>2. n \in Operation /\ n.pc = "ensuring" /\ n.kind = kind /\ n.swap = s
  <2>1. g \in Operation
    BY DEF G!Idle, Operation, OpPcs
  <2> HIDE DEF g
  <2> QED
    BY <2>1 DEF Operation, OpPcs
<1> HIDE DEF n
<1>3. /\ op' \in [G!Ops -> Operation] /\ op'[o] = n
      /\ \A p \in G!Ops : p # o => op'[p] = op[p]
  BY <1>1, <1>2, OperationTyped DEF GatewayInv
<1>4. OperationFits(o)'
  BY <1>2, <1>3 DEF G!Begin, OperationFits, Claiming
<1>5. RestTyped' /\ saved' = saved /\ UNCHANGED <<escrow, claimKnown, refunds, unverified>>
  BY DEF G!Begin, G!sdk, G!store, RestTyped, GatewayInv, G!TypeOK
<1> QED
  BY <1>2, <1>3, <1>4, <1>5, OutsideClaims DEF Claiming

LEMMA InitializesKeeps ==
  ASSUME GatewayInv, NEW o \in G!Ops, G!BeginInitialize(o) \/ G!Initialized(o)
  PROVE  GatewayInv'
<1>1. PICK n \in Operation :
        /\ op' = [op EXCEPT ![o] = n]
        /\ n.pc \in {"initialising", "calling"} /\ n.kind = op[o].kind /\ n.swap = op[o].swap
  <2>1. op[o] \in Operation
    BY OperationTyped DEF GatewayInv
  <2>2. CASE G!BeginInitialize(o)
    <3>1. PICK i \in G!Instances : op' = [op EXCEPT ![o].pc = "initialising", ![o].mine = i]
      BY <2>2 DEF G!BeginInitialize
    <3> DEFINE n == [op[o] EXCEPT !.pc = "initialising", !.mine = i]
    <3>2. n \in Operation /\ n.pc = "initialising" /\ n.kind = op[o].kind /\ n.swap = op[o].swap
      BY <2>1 DEF Operation, OpPcs
    <3>3. op' = [op EXCEPT ![o] = n]
      BY <2>1, <3>1, OperationTyped DEF GatewayInv, Operation
    <3> QED
      BY <3>2, <3>3
  <2>3. CASE G!Initialized(o)
    <3> DEFINE n == [op[o] EXCEPT !.pc = "calling", !.mine = 0]
    <3>2. n \in Operation /\ n.pc = "calling" /\ n.kind = op[o].kind /\ n.swap = op[o].swap
      BY <2>1 DEF Operation, OpPcs
    <3>3. op' = [op EXCEPT ![o] = n]
      BY <2>1, <2>3, OperationTyped DEF G!Initialized, GatewayInv, Operation
    <3> QED
      BY <3>2, <3>3
  <2> QED
    BY <2>2, <2>3
<1>2. /\ op' \in [G!Ops -> Operation] /\ op'[o] = n
      /\ \A p \in G!Ops : p # o => op'[p] = op[p]
  BY <1>1, OperationTyped DEF GatewayInv
<1>3. /\ saved' = saved /\ answered' = answered
      /\ UNCHANGED <<escrow, claimKnown, refunds, unverified>>
  BY DEF G!BeginInitialize, G!Initialized, G!InitStorage, G!store
<1>4. health' \in G!ComponentHealth({0})
  <2>1. G!MarkHealthy \/ health' = health
    BY DEF G!BeginInitialize, G!Initialized
  <2> QED
    BY <2>1, HealthStays DEF GatewayInv, G!TypeOK
<1>5. swapper' \in G!Instances \cup {0} /\ isInitialized' \in BOOLEAN
  BY DEF G!BeginInitialize, G!Initialized, GatewayInv, G!TypeOK
<1>6. made' \in [G!Instances -> {"none", "initialising", "ready", "failed"}]
  BY DEF G!BeginInitialize, G!Initialized, GatewayInv, G!TypeOK
<1>7. OperationFits(o)'
  BY <1>1, <1>2, <1>3 DEF GatewayInv, OperationFits, Claiming
<1> QED
  BY <1>1, <1>2, <1>3, <1>4, <1>5, <1>6, <1>7, OutsideClaims
     DEF RestTyped, GatewayInv, G!TypeOK, Claiming

\* The steps that take an operation further and make no claim.
LEMMA MovesKeep ==
  ASSUME GatewayInv, NEW o \in G!Ops,
         G!EnsureDone(o) \/ G!Quoted(o) \/ G!WaitTillCommited(o)
  PROVE  GatewayInv'
<1>1. PICK pc \in {"calling", "quoted", "committing"} :
        G!Goes(o, pc) /\ (pc = "quoted" => G!Quoted(o))
  BY DEF G!EnsureDone, G!Quoted, G!WaitTillCommited
<1>2. /\ op' \in [G!Ops -> Operation]
      /\ op'[o].pc = pc /\ op'[o].kind = op[o].kind /\ op'[o].swap = op[o].swap
      /\ \A p \in G!Ops : p # o => op'[p] = op[p]
  BY <1>1, OperationTyped, OperationMoves DEF GatewayInv, OpPcs
<1>3. G!Quoted(o) => op[o].kind \in G!Creations /\ saved' = saved \cup {op[o].swap}
  BY DEF G!Quoted, G!Save
<1>4. G!Quoted(o) \/ saved' = saved
  BY DEF G!EnsureDone, G!WaitTillCommited, G!store
<1>5. op[o].kind \in G!Creations => op[o].swap \in Swaps
  BY DEF GatewayInv, OperationFits, G!Creations
<1>6. saved \subseteq saved' /\ saved' \subseteq Swaps /\ answered' = answered
  BY <1>3, <1>4, <1>5
     DEF GatewayInv, G!TypeOK, G!EnsureDone, G!Quoted, G!WaitTillCommited, G!store
<1>7. /\ RestTyped'
      /\ UNCHANGED <<escrow, claimKnown, refunds, unverified>>
  BY <1>6 DEF G!EnsureDone, G!Quoted, G!WaitTillCommited, G!sdk, RestTyped, GatewayInv, G!TypeOK
<1>8. OperationFits(o)'
  BY <1>1, <1>2, <1>3, <1>6 DEF GatewayInv, OperationFits, Claiming
<1> QED
  BY <1>1, <1>2, <1>6, <1>7, <1>8, OutsideClaims DEF Claiming

\* The steps of a claim.
LEMMA StartClaimKeeps ==
  ASSUME GatewayInv, NEW o \in G!Ops, G!StartClaim(o) \/ G!AlreadyClaimed(o) PROVE GatewayInv'
<1>1. PICK pc \in {"claiming", "diagnosing"} : G!Goes(o, pc)
  BY DEF G!StartClaim, G!AlreadyClaimed
<1>2. /\ op' \in [G!Ops -> Operation]
      /\ op'[o].pc = pc /\ op'[o].kind = op[o].kind /\ op'[o].swap = op[o].swap
      /\ \A p \in G!Ops : p # o => op'[p] = op[p]
  BY <1>1, OperationTyped, OperationMoves DEF GatewayInv, OpPcs
<1>3. op[o].kind = "claim" /\ o = Monitor /\ op[o].swap \in Swaps
  BY DEF G!StartClaim, G!AlreadyClaimed, GatewayInv, OperationFits, Claiming
<1>4. /\ UNCHANGED <<swapper, made, isInitialized, saved, answered, escrow, refunds, unverified>>
      /\ G!MarkHealthy \/ health' = health
  BY DEF G!StartClaim, G!AlreadyClaimed, G!sdk, G!store
<1>5. \/ claimKnown' = claimKnown
      \/ claimKnown' = claimKnown \cup {op[o].swap} /\ escrow[op[o].swap] \in {"backend", "watchtower"}
  BY DEF G!StartClaim, G!AlreadyClaimed
<1>6. G!TypeOK'
  <2>1. health' \in G!ComponentHealth({0})
    BY <1>4, HealthStays DEF GatewayInv, G!TypeOK
  <2> QED
    BY <1>2, <1>3, <1>4, <1>5, <2>1 DEF GatewayInv, G!TypeOK, Operation, OpPcs
<1>7. \A p \in G!Ops : OperationFits(p)'
  BY <1>1, <1>2, <1>3, <1>4 DEF GatewayInv, OperationFits
<1>8. BountiesFit'
  BY <1>4, <1>5 DEF GatewayInv, BountiesFit
<1>9. FirstClaim'
  BY <1>1, <1>2, <1>3 DEF FirstClaim
<1> QED
  BY <1>6, <1>7, <1>8, <1>9 DEF GatewayInv

LEMMA SubmitClaimKeeps ==
  ASSUME GatewayInv, NEW o \in G!Ops, G!SubmitClaim(o) PROVE GatewayInv'
<1>1. /\ G!Goes(o, "submitted") /\ op[o].pc = "claiming" /\ escrow[op[o].swap] = "committed"
      /\ escrow' = [escrow EXCEPT ![op[o].swap] = "backend"]
      /\ UNCHANGED <<swapper, made, isInitialized, saved, answered, claimKnown, refunds, health,
                     unverified>>
  BY DEF G!SubmitClaim, G!sdk, G!store
<1>2. /\ op' \in [G!Ops -> Operation]
      /\ op'[o].pc = "submitted" /\ op'[o].kind = op[o].kind /\ op'[o].swap = op[o].swap
      /\ \A p \in G!Ops : p # o => op'[p] = op[p]
  BY <1>1, OperationTyped, OperationMoves DEF GatewayInv, OpPcs
<1>3. op[o].kind = "claim" /\ o = Monitor /\ op[o].swap \in Swaps
  BY <1>1 DEF GatewayInv, OperationFits, Claiming
<1>4. G!TypeOK'
  BY <1>1, <1>2, <1>3 DEF GatewayInv, G!TypeOK, Operation, OpPcs
<1>5. \A p \in G!Ops : OperationFits(p)'
  BY <1>1, <1>2, <1>3 DEF GatewayInv, OperationFits
<1>6. op[o].swap \notin claimKnown
  BY <1>1, <1>3 DEF GatewayInv, BountiesFit
<1>7. BountiesFit'
  BY <1>1, <1>3, <1>6 DEF GatewayInv, BountiesFit, G!TypeOK
<1>8. FirstClaim'
  BY <1>1, <1>2, <1>3, <1>6 DEF FirstClaim, GatewayInv, G!TypeOK
<1> QED
  BY <1>4, <1>5, <1>7, <1>8 DEF GatewayInv

LEMMA ClaimReturnsKeeps ==
  ASSUME GatewayInv, NEW o \in G!Ops, G!ClaimReturns(o) PROVE GatewayInv'
<1> DEFINE s == op[o].swap
<1>1. /\ G!Goes(o, "verifying") /\ op[o].pc \in {"claiming", "submitted"}
      /\ claimKnown' = claimKnown \cup {s} /\ G!MarkHealthy
      /\ UNCHANGED <<swapper, made, isInitialized, saved, answered, escrow, refunds, unverified>>
  BY DEF G!ClaimReturns, G!sdk, G!store
<1>2. /\ op' \in [G!Ops -> Operation]
      /\ op'[o].pc = "verifying" /\ op'[o].kind = op[o].kind /\ op'[o].swap = s
      /\ \A p \in G!Ops : p # o => op'[p] = op[p]
  BY <1>1, OperationTyped, OperationMoves DEF GatewayInv, OpPcs
<1>3. op[o].kind = "claim" /\ o = Monitor /\ s \in Swaps
  BY <1>1 DEF GatewayInv, OperationFits, Claiming
<1>4. s \notin claimKnown /\ escrow[s] \in {"backend", "watchtower"}
  BY <1>3 DEF G!ClaimReturns, GatewayInv, FirstClaim
<1>5. G!TypeOK'
  <2>1. health' \in G!ComponentHealth({0})
    BY <1>1, HealthStays DEF GatewayInv, G!TypeOK
  <2> QED
    BY <1>1, <1>2, <1>3, <2>1 DEF GatewayInv, G!TypeOK, Operation, OpPcs
<1>6. \A p \in G!Ops : OperationFits(p)'
  BY <1>1, <1>2, <1>3 DEF GatewayInv, OperationFits
<1>7. BountiesFit'
  BY <1>1, <1>3, <1>4 DEF GatewayInv, BountiesFit
<1>8. refunds[s] = 0
  BY <1>3, <1>4 DEF GatewayInv, BountiesFit, G!TypeOK
<1>9. FirstClaim'
  BY <1>1, <1>2, <1>3, <1>8 DEF FirstClaim
<1> QED
  BY <1>5, <1>6, <1>7, <1>9 DEF GatewayInv

\* The sender is read, or assumed.
LEMMA VerifiesKeeps ==
  ASSUME GatewayInv, NEW o \in G!Ops, G!IsClaimTxFromBackend(o) \/ G!SenderUnknown(o)
  PROVE  GatewayInv'
<1> DEFINE s == op[o].swap
<1>1. /\ op[o].pc = "verifying"
      /\ UNCHANGED <<swapper, made, isInitialized, saved, answered, escrow, claimKnown, refunds,
                     health>>
  BY DEF G!IsClaimTxFromBackend, G!SenderUnknown, G!sdk, G!store
<1>2. op[o].kind = "claim" /\ o = Monitor /\ s \in Swaps
  BY <1>1 DEF GatewayInv, OperationFits, Claiming
<1>3. s \in claimKnown /\ refunds[s] = 0
  BY <1>1, <1>2 DEF GatewayInv, FirstClaim
<1>4. unverified \subseteq unverified' /\ unverified' \subseteq Swaps
  BY <1>2 DEF G!IsClaimTxFromBackend, G!SenderUnknown, GatewayInv, G!TypeOK
<1>5. PICK pc \in {"idle", "refunding", "diagnosing"} :
        /\ IF pc = "idle" THEN G!Ends(o) ELSE G!Goes(o, pc)
        /\ pc = "refunding" => s \in WithBounty /\ (escrow[s] = "backend" \/ s \in unverified')
  BY <1>1 DEF G!IsClaimTxFromBackend, G!SenderUnknown
<1>6. /\ op' \in [G!Ops -> Operation] /\ op'[o].pc = pc
      /\ op'[o].kind \in {"none", "claim"} /\ (pc # "idle" => op'[o].kind = "claim" /\ op'[o].swap = s)
      /\ op'[o].kind = "claim" => op'[o].swap = s
      /\ \A p \in G!Ops : p # o => op'[p] = op[p]
  BY <1>2, <1>5, OperationTyped, OperationMoves DEF GatewayInv, OpPcs
<1>7. G!TypeOK'
  BY <1>1, <1>4, <1>6 DEF GatewayInv, G!TypeOK, Operation, OpPcs
<1>8. \A p \in G!Ops : OperationFits(p)'
  BY <1>1, <1>2, <1>6 DEF GatewayInv, OperationFits, Claiming
<1>9. BountiesFit'
  BY <1>1, <1>4 DEF GatewayInv, BountiesFit
<1>10. FirstClaim'
  BY <1>1, <1>2, <1>3, <1>5, <1>6 DEF FirstClaim
<1> QED
  BY <1>7, <1>8, <1>9, <1>10 DEF GatewayInv

LEMMA RefundKeeps ==
  ASSUME GatewayInv, NEW o \in G!Ops, G!RefundBounty(o) PROVE GatewayInv'
<1> DEFINE s == op[o].swap
<1>1. /\ op[o].pc = "refunding" /\ G!Ends(o) /\ refunds' = [refunds EXCEPT ![s] = @ + 1]
      /\ UNCHANGED <<swapper, made, isInitialized, saved, answered, escrow, claimKnown, health,
                     unverified>>
  BY DEF G!RefundBounty, G!sdk, G!store
<1>2. op[o].kind = "claim" /\ o = Monitor /\ s \in Swaps
  BY <1>1 DEF GatewayInv, OperationFits, Claiming
<1>3. /\ s \in claimKnown /\ refunds[s] = 0 /\ s \in WithBounty
      /\ escrow[s] = "backend" \/ s \in unverified
  BY <1>1, <1>2 DEF GatewayInv, FirstClaim
<1>4. /\ op' \in [G!Ops -> Operation] /\ op'[o].pc = "idle" /\ op'[o].kind = "none"
      /\ \A p \in G!Ops : p # o => op'[p] = op[p]
  BY <1>1, OperationTyped, OperationMoves DEF GatewayInv
<1>5. refunds' \in [Swaps -> Nat] /\ refunds'[s] = 1 /\ \A x \in Swaps : x # s => refunds'[x] = refunds[x]
  BY <1>1, <1>2, <1>3 DEF GatewayInv, G!TypeOK
<1>6. G!TypeOK'
  BY <1>1, <1>4, <1>5 DEF GatewayInv, G!TypeOK, Operation, OpPcs
<1>7. \A p \in G!Ops : OperationFits(p)'
  BY <1>1, <1>4 DEF GatewayInv, OperationFits, Claiming
<1>8. BountiesFit'
  BY <1>1, <1>3, <1>5 DEF GatewayInv, BountiesFit
<1>9. FirstClaim'
  BY <1>2, <1>4 DEF FirstClaim
<1> QED
  BY <1>6, <1>7, <1>8, <1>9 DEF GatewayInv

\* The rest of the world, and a restart.
LEMMA WorldKeeps ==
  ASSUME GatewayInv, (\E s \in Swaps : G!EscrowMoves(s)) \/ G!CheckHealth \/ G!Restart
  PROVE  GatewayInv'
<1>1. CASE \E s \in Swaps : G!EscrowMoves(s)
  <2>1. PICK s \in Swaps : G!EscrowMoves(s)
    BY <1>1
  <2>2. /\ escrow[s] \in {"none", "committed"} /\ escrow' \in [Swaps -> {"none", "committed", "backend", "watchtower"}]
        /\ escrow'[s] \in {"committed", "watchtower"}
        /\ escrow[s] = "committed" => escrow'[s] = "watchtower"
        /\ \A x \in Swaps : x # s => escrow'[x] = escrow[x]
    BY <2>1 DEF G!EscrowMoves, GatewayInv, G!TypeOK
  <2>3. UNCHANGED <<swapper, made, isInitialized, op, saved, answered, claimKnown, refunds,
                    health, unverified>>
    BY <2>1 DEF G!EscrowMoves, G!sdk, G!store
  <2>4. s \notin claimKnown
    BY <2>2 DEF GatewayInv, BountiesFit
  <2>5. G!TypeOK' /\ \A p \in G!Ops : OperationFits(p)'
    BY <2>2, <2>3 DEF GatewayInv, G!TypeOK, OperationFits
  <2>6. BountiesFit'
    BY <2>2, <2>3, <2>4 DEF GatewayInv, BountiesFit
  <2>7. op[Monitor].pc \in Claiming => op[Monitor].swap \in Swaps
    BY DEF GatewayInv, OperationFits, G!Ops, Claiming
  <2>8. FirstClaim'
    BY <2>2, <2>3, <2>4, <2>7 DEF GatewayInv, FirstClaim, Claiming
  <2> QED
    BY <2>5, <2>6, <2>8 DEF GatewayInv
<1>2. CASE G!CheckHealth
  <2>1. UNCHANGED <<swapper, made, isInitialized, op, saved, answered, escrow, claimKnown,
                    refunds, unverified>>
    BY <1>2 DEF G!CheckHealth, G!sdk, G!store
  <2>2. health' \in G!ComponentHealth({0})
    BY <1>2, HealthStays DEF G!CheckHealth, GatewayInv, G!TypeOK
  <2> QED
    BY <2>1, <2>2 DEF GatewayInv, G!TypeOK, OperationFits, BountiesFit, FirstClaim
<1>3. CASE G!Restart
  <2>1. /\ op' = [o \in G!Ops |-> G!Idle] /\ health' = G!Declared
        /\ UNCHANGED <<saved, answered, escrow, claimKnown, refunds, unverified>>
    BY <1>3 DEF G!Restart, G!store
  <2>2. G!Idle \in Operation /\ G!Idle.pc = "idle" /\ G!Idle.kind = "none"
    BY DEF G!Idle, Operation, OpPcs
  <2>3. health' \in G!ComponentHealth({0})
    BY <2>1 DEF G!Declared, G!ComponentHealth
  <2>4. G!TypeOK'
    BY <1>3, <2>1, <2>2, <2>3 DEF G!Restart, GatewayInv, G!TypeOK, Operation, OpPcs
  <2>5. \A p \in G!Ops : OperationFits(p)'
    BY <2>1, <2>2 DEF OperationFits, Claiming
  <2>6. BountiesFit' /\ FirstClaim'
    BY <2>1, <2>2 DEF GatewayInv, BountiesFit, FirstClaim, G!Ops
  <2> QED
    BY <2>4, <2>5, <2>6 DEF GatewayInv
<1> QED
  BY <1>1, <1>2, <1>3

LEMMA GatewayInit == G!Init => GatewayInv
<1> SUFFICES ASSUME G!Init PROVE GatewayInv
  OBVIOUS
<1>1. G!Idle \in Operation /\ G!Idle.pc = "idle" /\ G!Idle.kind = "none"
  BY DEF G!Idle, Operation, OpPcs
<1>2. G!Declared \in G!ComponentHealth({0})
  BY DEF G!Declared, G!ComponentHealth
<1>3. G!TypeOK
  BY <1>1, <1>2 DEF G!Init, G!TypeOK, Operation, OpPcs
<1>4. \A p \in G!Ops : OperationFits(p)
  BY <1>1 DEF G!Init, OperationFits, Claiming
<1>5. BountiesFit /\ FirstClaim
  BY <1>1 DEF G!Init, BountiesFit, FirstClaim, G!Ops
<1> QED
  BY <1>3, <1>4, <1>5 DEF GatewayInv

LEMMA GatewayNext == ASSUME GatewayInv, G!Next \/ UNCHANGED gateway PROVE GatewayInv'
<1>1. CASE UNCHANGED gateway
  BY <1>1 DEF gateway, GatewayInv, G!TypeOK, OperationFits, BountiesFit, FirstClaim
<1>2. CASE G!Next
  BY <1>2, BeginKeeps, WorldKeeps, EndingsKeep, InitializesKeeps, MovesKeep, StartClaimKeeps,
     SubmitClaimKeeps, ClaimReturnsKeeps, VerifiesKeeps, RefundKeeps
     DEF G!Next, G!Step
<1> QED
  BY <1>1, <1>2

\* Of every run of the Atomiq gateway, with any number of callers and swaps: its
\* state keeps its types, and the claims the relations above.
THEOREM GatewayHolds == OutcomesSpec => []GatewayInv
<1>1. OutcomesInit => GatewayInv
  BY GatewayInit DEF OutcomesInit
<1>2. GatewayInv /\ [OutcomesNext]_outcomes => GatewayInv'
  BY GatewayNext
     DEF OutcomesNext, outcomes, FollowGateway, FollowTracking, FollowSetup, FollowHistory
<1>3. OutcomesInit /\ [][OutcomesNext]_outcomes => []GatewayInv
  BY <1>1, <1>2, PTL
<1> QED
  BY <1>3, PTL DEF OutcomesSpec

\* A bounty is refunded once at most, of a claim that is known and that was
\* ours unless its sender could not be read: after every sequence of claims,
\* failures, watchtowers and restarts.
THEOREM BountyAlwaysRefundedOnce == OutcomesSpec => []BountyRefundedOnce
<1>1. GatewayInv => BountyRefundedOnce
  BY DEF GatewayInv, BountiesFit, G!TypeOK, BountyRefundedOnce, G!BountyRefundedOnce
<1> QED
  BY <1>1, GatewayHolds, PTL

(***************************************************************************)
(* Lists that are filtered.                                                *)
(***************************************************************************)

LEMMA LeastNat ==
  ASSUME NEW ns, ns \subseteq Nat, ns # {}
  PROVE  \E n \in ns : \A k \in ns : n <= k
<1>1. IsWellFoundedOn(OpToRel(<, Nat), Nat)
  BY NatLessThanWellFounded
<1>2. PICK n \in ns : \A k \in ns : ~(<<k, n>> \in OpToRel(<, Nat))
  BY <1>1, WFMin
<1>3. \A k \in ns : ~(k < n)
  BY <1>2 DEF OpToRel
<1>4. QED
  BY <1>3

\* A step of the recursion of Filter, and the recursion up to m.
FilterStep(list, wanted, f) ==
  [n \in 0 .. Len(list) |->
     IF n = 0 THEN <<>>
     ELSE IF list[n] \in wanted THEN Append(f[n - 1], list[n]) ELSE f[n - 1]]

FilteredUpTo(list, wanted, m, f) ==
  /\ f[0] = <<>>
  /\ \A n \in 1 .. m :
       f[n] = IF list[n] \in wanted THEN Append(f[n - 1], list[n]) ELSE f[n - 1]

LEMMA FilterUnfolds ==
  ASSUME NEW list, NEW wanted, NEW g, g = FilterStep(list, wanted, g)
  PROVE  \E f : f = FilterStep(list, wanted, f) /\ T!Filter(list, wanted) = f[Len(list)]
BY DEF T!Filter, FilterStep

LEMMA FilterStepAt ==
  ASSUME NEW E, NEW list \in Seq(E), NEW wanted, NEW f
  PROVE  /\ FilterStep(list, wanted, f)[0] = <<>>
         /\ \A n \in 1 .. Len(list) :
              FilterStep(list, wanted, f)[n] =
                IF list[n] \in wanted THEN Append(f[n - 1], list[n]) ELSE f[n - 1]
<1>1. Len(list) \in Nat
  OBVIOUS
<1> QED
  BY <1>1 DEF FilterStep

LEMMA FilterStepSame ==
  ASSUME NEW E, NEW list \in Seq(E), NEW wanted, NEW f, NEW g,
         \A n \in 0 .. Len(list) : f[n] = g[n]
  PROVE  FilterStep(list, wanted, f) = FilterStep(list, wanted, g)
<1>1. Len(list) \in Nat
  OBVIOUS
<1>2. \A n \in 1 .. Len(list) : f[n - 1] = g[n - 1]
  BY <1>1
<1>3. \A n \in 0 .. Len(list) : n = 0 \/ n \in 1 .. Len(list)
  BY <1>1
<1> QED
  BY <1>2, <1>3 DEF FilterStep

\* The recursion has a solution up to every length, or a first one without.
LEMMA FilterExists ==
  ASSUME NEW E, NEW list \in Seq(E), NEW wanted
  PROVE  \E f : f = FilterStep(list, wanted, f)
<1> DEFINE P(m) == \E f : DOMAIN f = 0 .. Len(list) /\ FilteredUpTo(list, wanted, m, f)
<1> DEFINE Bad == {m \in 0 .. Len(list) : ~P(m)}
<1>0. Len(list) \in Nat
  OBVIOUS
<1>1. P(0)
  <2> DEFINE f == [n \in 0 .. Len(list) |-> <<>>]
  <2>1. f[0] = <<>> /\ DOMAIN f = 0 .. Len(list)
    BY <1>0
  <2>2. FilteredUpTo(list, wanted, 0, f)
    BY <2>1 DEF FilteredUpTo
  <2> QED
    BY <2>1, <2>2
<1>2. \A m \in 1 .. Len(list) : P(m - 1) => P(m)
  <2> SUFFICES ASSUME NEW m \in 1 .. Len(list), P(m - 1) PROVE P(m)
    OBVIOUS
  <2>1. PICK f : DOMAIN f = 0 .. Len(list) /\ FilteredUpTo(list, wanted, m - 1, f)
    OBVIOUS
  <2> DEFINE g == [n \in 0 .. Len(list) |->
        IF n = m THEN (IF list[m] \in wanted THEN Append(f[m - 1], list[m]) ELSE f[m - 1])
        ELSE f[n]]
  <2>2. \A n \in 0 .. m - 1 : g[n] = f[n]
    BY <1>0
  <2>3. g[m] = IF list[m] \in wanted THEN Append(g[m - 1], list[m]) ELSE g[m - 1]
    BY <1>0, <2>2
  <2>4. DOMAIN g = 0 .. Len(list)
    OBVIOUS
  <2> HIDE DEF g
  <2>5. \A n \in 1 .. m - 1 :
          f[n] = IF list[n] \in wanted THEN Append(f[n - 1], list[n]) ELSE f[n - 1]
    BY <2>1 DEF FilteredUpTo
  <2>6. g[0] = <<>>
    BY <2>1, <2>2 DEF FilteredUpTo
  <2>7. ASSUME NEW n \in 1 .. m
        PROVE  g[n] = IF list[n] \in wanted THEN Append(g[n - 1], list[n]) ELSE g[n - 1]
    <3>1. CASE n = m
      BY <3>1, <2>3
    <3>2. CASE n # m
      <4>1. n \in 1 .. m - 1 /\ n - 1 \in 0 .. m - 1 /\ n \in 0 .. m - 1
        BY <3>2, <1>0
      <4> QED
        BY <4>1, <2>5, <2>2
    <3> QED
      BY <3>1, <3>2
  <2>8. FilteredUpTo(list, wanted, m, g)
    BY <2>6, <2>7 DEF FilteredUpTo
  <2> QED
    BY <2>4, <2>8
<1> HIDE DEF P
<1>3. Bad = {}
  <2> SUFFICES ASSUME Bad # {} PROVE FALSE
    OBVIOUS
  <2>1. PICK m \in Bad : \A k \in Bad : m <= k
    <3>1. Bad \subseteq Nat
      BY <1>0
    <3> HIDE DEF Bad
    <3> QED
      BY <3>1, LeastNat
  <2>2. m # 0 /\ m \in 1 .. Len(list) /\ m - 1 \in 0 .. Len(list)
    BY <1>0, <1>1
  <2>3. m - 1 \notin Bad
    BY <2>1, <2>2
  <2> QED
    BY <2>2, <2>3, <1>2
<1>4. P(Len(list))
  BY <1>3, <1>0
<1>5. PICK f : DOMAIN f = 0 .. Len(list) /\ FilteredUpTo(list, wanted, Len(list), f)
  BY <1>4 DEF P
<1> DEFINE g == FilterStep(list, wanted, f)
<1>6. \A n \in 0 .. Len(list) : g[n] = f[n]
  <2>1. f[0] = <<>>
    BY <1>5 DEF FilteredUpTo
  <2>2. \A n \in 1 .. Len(list) :
          f[n] = IF list[n] \in wanted THEN Append(f[n - 1], list[n]) ELSE f[n - 1]
    BY <1>5 DEF FilteredUpTo
  <2>3. \A n \in 0 .. Len(list) : n = 0 \/ n \in 1 .. Len(list)
    BY <1>0
  <2> QED
    BY <2>1, <2>2, <2>3, FilterStepAt
<1>7. g = FilterStep(list, wanted, g)
  <2> HIDE DEF g
  <2>1. FilterStep(list, wanted, f) = FilterStep(list, wanted, g)
    BY <1>6, FilterStepSame
  <2> QED
    BY <2>1 DEF g
<1> QED
  BY <1>7

\* What is kept of a list has elements of it that are wanted, and no others.
LEMMA Filtered ==
  ASSUME NEW E, NEW list \in Seq(E), NEW wanted
  PROVE  T!Filter(list, wanted) \in Seq({list[i] : i \in 1 .. Len(list)} \cap wanted)
<1> DEFINE X == {list[i] : i \in 1 .. Len(list)} \cap wanted
<1>0. Len(list) \in Nat
  OBVIOUS
<1>1. PICK f : f = FilterStep(list, wanted, f) /\ T!Filter(list, wanted) = f[Len(list)]
  <2>1. PICK g : g = FilterStep(list, wanted, g)
    BY FilterExists
  <2> QED
    BY <2>1, FilterUnfolds
<1>2. f[0] = <<>>
  BY <1>1, FilterStepAt
<1>3. \A n \in 1 .. Len(list) :
        f[n] = IF list[n] \in wanted THEN Append(f[n - 1], list[n]) ELSE f[n - 1]
  BY <1>1, FilterStepAt
<1> DEFINE Bad == {n \in 0 .. Len(list) : f[n] \notin Seq(X)}
<1>4. Bad = {}
  <2> SUFFICES ASSUME Bad # {} PROVE FALSE
    OBVIOUS
  <2>1. PICK n \in Bad : \A k \in Bad : n <= k
    <3>1. Bad \subseteq Nat
      BY <1>0
    <3> HIDE DEF Bad
    <3> QED
      BY <3>1, LeastNat
  <2>2. n # 0 /\ n \in 1 .. Len(list) /\ n - 1 \in 0 .. Len(list)
    <3>1. 0 \notin Bad
      <4> HIDE DEF X
      <4>1. <<>> \in Seq(X)
        OBVIOUS
      <4> QED
        BY <4>1, <1>2
    <3> QED
      BY <3>1, <1>0
  <2>3. f[n - 1] \in Seq(X)
    <3>1. n - 1 \notin Bad
      BY <2>1, <2>2
    <3> QED
      BY <3>1, <2>2
  <2>4. list[n] \in wanted => list[n] \in X
    BY <2>2
  <2> HIDE DEF X
  <2>5. f[n] \in Seq(X)
    <3>1. CASE list[n] \in wanted
      <4>1. f[n] = Append(f[n - 1], list[n])
        BY <3>1, <2>2, <1>3
      <4>2. \A q \in Seq(X), e \in X : Append(q, e) \in Seq(X)
        OBVIOUS
      <4> QED
        BY <4>1, <4>2, <3>1, <2>3, <2>4
    <3>2. CASE list[n] \notin wanted
      BY <3>2, <2>2, <1>3, <2>3
    <3> QED
      BY <3>1, <3>2
  <2> QED
    BY <2>5
<1> QED
  BY <1>1, <1>4, <1>0

\* The elements of one list are elements of another.
Within(list, whole) == \A i \in DOMAIN list : \E j \in DOMAIN whole : list[i] = whole[j]

LEMMA FilteredIsWithin ==
  ASSUME NEW E, NEW list \in Seq(E), NEW wanted
  PROVE  /\ T!Filter(list, wanted) \in Seq(E)
         /\ Within(T!Filter(list, wanted), list)
         /\ \A i \in DOMAIN T!Filter(list, wanted) : T!Filter(list, wanted)[i] \in wanted
<1> DEFINE X == {list[i] : i \in 1 .. Len(list)} \cap wanted
<1> DEFINE few == T!Filter(list, wanted)
<1>1. few \in Seq(X)
  BY Filtered
<1>2. \A e \in X : e \in E /\ e \in wanted /\ \E j \in DOMAIN list : e = list[j]
  OBVIOUS
<1> HIDE DEF X, few
<1>3. \A i \in DOMAIN few : few[i] \in X
  BY <1>1
<1>4. few \in Seq(E)
  BY <1>1, <1>2
<1>5. Within(few, list) /\ \A i \in DOMAIN few : few[i] \in wanted
  BY <1>2, <1>3 DEF Within
<1> QED
  BY <1>4, <1>5 DEF few

(***************************************************************************)
(* The swaps that tabs follow.                                             *)
(***************************************************************************)

\* The final statuses that the API may say of a swap: how Atomiq has ended it,
\* and "lost" once the SDK has forgotten it.
Ends(s) == ({end[s]} \ {T!NoStatus}) \cup (IF forgotten[s] THEN {"lost"} ELSE {})

\* A final status that the API has is one of those.
StatusFits(s) == T!IsTerminal(swapStatus[s], MCDirection[s]) => swapStatus[s] \in Ends(s)

SameLifecycle == swapStatus' = swapStatus /\ end' = end /\ forgotten' = forgotten

\* What is stored is of a swap that was opened; of one that has ended, it is an
\* end of it, unless something that is not the API said that it is lost.
TruthfulEntry(e) ==
  /\ swapStatus[e.id] # T!AbsentStatus
  /\ T!Ended(e) => \/ e.lastKnownStatus \in Ends(e.id)
                   \/ e.lastKnownStatus = "lost" /\ e.id \in misrouted

Truthful(list) == \A i \in DOMAIN list : TruthfulEntry(list[i])

\* An answer under way that ends a swap is true as well.
PollTruthful(p, s, mis) ==
  /\ p.request \in T!SwapStatus /\ T!IsTerminalStatus(p.request, MCDirection[s]) =>
       p.request \in Ends(s)
  /\ p.request = "not found" => s \in mis

PollFits(t, s) ==
  /\ tab[t].poll[s] # T!NoPoll => swapStatus[s] # T!AbsentStatus
  /\ PollTruthful(tab[t].poll[s], s, misrouted)

\* A swap that a tab has announced is over for the tab and for the disk, and is
\* polled no more.
Settled(list, s) == \A i \in DOMAIN list : list[i].id = s => T!Ended(list[i])

NothingTold(x) == \A st \in T!TerminalStatus : x[st] = 0

ToldOnce(x) ==
  \E st \in T!TerminalStatus :
    x[st] = 1 /\ \A other \in T!TerminalStatus \ {st} : x[other] = 0

OverForTab(t, s) ==
  /\ tab[t].poll[s] = T!NoPoll
  /\ Settled(disk, s) /\ Settled(tab[t].swaps, s)
  /\ swapStatus[s] # T!AbsentStatus

ToldFits(t, s) == NothingTold(told[t][s]) \/ (ToldOnce(told[t][s]) /\ OverForTab(t, s))

OneTab == \A t, x \in Tabs : t = x

TrackingInv ==
  /\ T!TypeOK
  /\ \A s \in Swaps : StatusFits(s)
  /\ Truthful(disk)
  /\ \A t \in Tabs : Truthful(tab[t].swaps)
  /\ \A t \in Tabs, s \in Swaps : PollFits(t, s)
  /\ OneTab => \A t \in Tabs, s \in Swaps : ToldFits(t, s)

USE DEF SameLifecycle, T!lifecycle

\* Nothing happens to the swaps, so nothing to what may be said of them.
LEMMA SameEnds ==
  ASSUME SameLifecycle
  PROVE  \A s : Ends(s)' = Ends(s) /\ (StatusFits(s)' <=> StatusFits(s))
<1>1. \A s : Ends(s)' = Ends(s)
  BY DEF Ends
<1> QED
  BY <1>1 DEF StatusFits

LEMMA DirectionTyped == MCDirection \in [Swaps -> T!Directions]
BY OutcomesAssumption DEF OutcomesAssumption, T!TrackingAssumption

\* The front end and the API agree on what is final.
LEMMA EndsAgree ==
  ASSUME NEW s \in Swaps, NEW st \in T!SwapStatus
  PROVE  /\ T!IsTerminalStatus(st, MCDirection[s]) <=> T!IsTerminal(st, MCDirection[s])
         /\ T!Announced(s, st) =>
              st \in T!TerminalStatus /\ T!IsTerminalStatus(st, MCDirection[s])
         /\ T!IsTerminalStatus("lost", MCDirection[s])
         /\ ~T!IsTerminalStatus("pending", MCDirection[s])
         /\ st # T!AbsentStatus
<1>1. MCDirection[s] \in T!Directions
  BY DirectionTyped
<1> DEFINE d == MCDirection[s]
<1> HIDE DEF d
<1>2. d \in {T!LightningToStarknet, T!BitcoinToStarknet, T!StarknetToLightning,
             T!StarknetToBitcoin}
  BY <1>1 DEF d, T!Directions, T!ForwardDirections, T!ReverseDirections
<1>3. /\ T!IsTerminalStatus(st, d) <=> T!IsTerminal(st, d)
      /\ T!IsTerminalStatus("lost", d)
      /\ ~T!IsTerminalStatus("pending", d)
      /\ st # T!AbsentStatus
  BY DEF T!IsTerminalStatus, T!IsTerminal, T!TerminalStatus, T!SwapStatus, T!AbsentStatus
<1>4. T!Announced(s, st) => st \in T!TerminalStatus /\ T!IsTerminalStatus(st, d)
  BY <1>2 DEF d, T!Announced, T!IsTerminalStatus, T!TerminalStatus, T!ReverseDirections,
     T!BitcoinToStarknet, T!LightningToStarknet, T!StarknetToLightning, T!StarknetToBitcoin
<1> QED
  BY <1>3, <1>4 DEF d

TabState == [started : BOOLEAN, visible : BOOLEAN, swaps : Seq(T!StoredSwap),
             poll : [Swaps -> T!Poll]]

Told == [T!TerminalStatus -> Nat]

LEMMA TrackingTyped ==
  T!TypeOK <=> /\ swapStatus \in [Swaps -> T!SwapStatus \cup {T!AbsentStatus}]
               /\ end \in [Swaps -> T!SwapStatus \cup {T!NoStatus}]
               /\ forgotten \in [Swaps -> BOOLEAN]
               /\ age \in [Swaps -> T!Ages]
               /\ disk \in Seq(T!StoredSwap)
               /\ tab \in [Tabs -> TabState]
               /\ told \in [Tabs -> [Swaps -> Told]]
               /\ misrouted \subseteq Swaps
BY DEF T!TypeOK, TabState, Told

LEMMA PollsTyped ==
  /\ T!NoPoll \in T!Poll /\ T!NewPoll \in T!Poll /\ T!NewPoll # T!NoPoll
  /\ T!NoPoll.state = "none" /\ T!NoPoll.request = "none"
  /\ T!NewPoll.request = "none"
  /\ "none" \notin T!SwapStatus /\ "asked" \notin T!SwapStatus /\ "error" \notin T!SwapStatus
  /\ "not found" \notin T!SwapStatus
<1>1. MAX_CONSECUTIVE_ERRORS \in Nat \ {0}
  BY OutcomesAssumption DEF OutcomesAssumption, T!TrackingAssumption
<1>2. 0 \in 0 .. MAX_CONSECUTIVE_ERRORS - 1
  BY <1>1
<1>3. T!NoPoll \in T!Poll /\ T!NoPoll.state = "none" /\ T!NoPoll.request = "none"
  BY <1>2 DEF T!NoPoll, T!Poll
<1>4. T!NewPoll \in T!Poll /\ T!NewPoll.state = "running" /\ T!NewPoll.request = "none"
  BY <1>3 DEF T!NewPoll, T!Poll
<1>5. {"none", "asked", "error", "not found"} \cap T!SwapStatus = {}
  BY DEF T!SwapStatus
<1> QED
  BY <1>3, <1>4, <1>5

\* What is found in a list are entries of the swap.
LEMMA FoundIsStored ==
  ASSUME NEW list \in Seq(T!StoredSwap), NEW s
  PROVE  /\ \A st \in T!Known(list, s) :
              \E i \in DOMAIN list : list[i].id = s /\ list[i].lastKnownStatus = st
         /\ T!Find(list, s) # <<>> =>
              \E i \in DOMAIN list : list[i].id = s /\ T!Find(list, s)[1] = list[i]
<1> DEFINE wanted == {stored \in T!ToSet(list) : stored.id = s}
<1> DEFINE few == T!Filter(list, wanted)
<1>1. /\ few \in Seq(T!StoredSwap) /\ Within(few, list)
      /\ \A i \in DOMAIN few : few[i] \in wanted
  BY FilteredIsWithin
<1>2. T!Find(list, s) = few
  BY DEF T!Find
<1>3. \A e \in wanted : e.id = s
  OBVIOUS
<1> HIDE DEF wanted, few
<1>4. \A k \in DOMAIN few : \E i \in DOMAIN list : list[i].id = s /\ few[k] = list[i]
  BY <1>1, <1>3 DEF Within
<1>5. few # <<>> => 1 \in DOMAIN few
  BY <1>1
<1>6. \A st \in T!Known(list, s) : \E k \in DOMAIN few : few[k].lastKnownStatus = st
  BY <1>2 DEF T!Known, T!ToSet
<1> QED
  BY <1>2, <1>4, <1>5, <1>6

LEMMA SavedIsFirst ==
  ASSUME NEW list \in Seq(T!StoredSwap), NEW s \in Swaps
  PROVE  /\ T!SaveSwap(list, s) \in Seq(T!StoredSwap)
         /\ \A i \in DOMAIN T!SaveSwap(list, s) :
              \/ T!SaveSwap(list, s)[i] = [id |-> s, lastKnownStatus |-> "pending"]
              \/ /\ T!SaveSwap(list, s)[i].id # s
                 /\ \E j \in DOMAIN list : T!SaveSwap(list, s)[i] = list[j]
<1> DEFINE wanted == {stored \in T!ToSet(list) : stored.id # s}
<1> DEFINE few == T!Filter(list, wanted)
<1> DEFINE new == [id |-> s, lastKnownStatus |-> "pending"]
<1>1. /\ few \in Seq(T!StoredSwap) /\ Within(few, list)
      /\ \A i \in DOMAIN few : few[i] \in wanted
  BY FilteredIsWithin
<1>2. T!SaveSwap(list, s) = <<new>> \o few
  BY DEF T!SaveSwap
<1>3. \A e \in wanted : e.id # s
  OBVIOUS
<1>4. new \in T!StoredSwap
  BY DEF T!StoredSwap, T!SwapStatus
<1> HIDE DEF wanted, few, new
<1> DEFINE saved2 == <<new>> \o few
<1>5. saved2 \in Seq(T!StoredSwap) /\ Len(saved2) = Len(few) + 1 /\ DOMAIN saved2 = 1 .. Len(few) + 1
  BY <1>1, <1>4
<1>6. saved2[1] = new /\ \A i \in 2 .. Len(few) + 1 : i - 1 \in DOMAIN few /\ saved2[i] = few[i - 1]
  BY <1>1, <1>4
<1>7. \A i \in 1 .. Len(few) + 1 : i = 1 \/ i \in 2 .. Len(few) + 1
  BY <1>1
<1> HIDE DEF saved2
<1>8. \A i \in DOMAIN saved2 :
        \/ saved2[i] = new
        \/ saved2[i].id # s /\ \E j \in DOMAIN list : saved2[i] = list[j]
  BY <1>1, <1>3, <1>5, <1>6, <1>7 DEF Within
<1> QED
  BY <1>2, <1>5, <1>8 DEF saved2, new

LEMMA OldAreRemoved ==
  ASSUME NEW list \in Seq(T!StoredSwap)
  PROVE  T!RemoveOldSwaps(list) \in Seq(T!StoredSwap) /\ Within(T!RemoveOldSwaps(list), list)
<1> DEFINE wanted == {x \in T!ToSet(list) : age[x.id] # "aged" \/ ~T!Ended(x)}
<1> DEFINE few == T!Filter(list, wanted)
<1> DEFINE last == IF Len(few) < MAX_SWAPS THEN Len(few) ELSE MAX_SWAPS
<1>1. few \in Seq(T!StoredSwap) /\ Within(few, list)
  BY FilteredIsWithin
<1>2. T!RemoveOldSwaps(list) = SubSeq(few, 1, last)
  BY DEF T!RemoveOldSwaps
<1> HIDE DEF few
<1>3. MAX_SWAPS \in Nat
  BY OutcomesAssumption DEF OutcomesAssumption, T!TrackingAssumption
<1>4. last \in Nat /\ last <= Len(few)
  BY <1>1, <1>3
<1> HIDE DEF last
<1>5. /\ SubSeq(few, 1, last) \in Seq(T!StoredSwap)
      /\ \A i \in DOMAIN SubSeq(few, 1, last) :
           i \in DOMAIN few /\ SubSeq(few, 1, last)[i] = few[i]
  BY <1>1, <1>4
<1> QED
  BY <1>1, <1>2, <1>5 DEF Within

LEMMA StatusUpdated ==
  ASSUME NEW list \in Seq(T!StoredSwap), NEW s \in Swaps, NEW st \in T!SwapStatus
  PROVE  LET new == T!UpdateSwapStatus(list, s, st) IN
         /\ new \in Seq(T!StoredSwap) /\ DOMAIN new = DOMAIN list
         /\ \A i \in DOMAIN list :
              /\ new[i].id = list[i].id
              /\ list[i].id = s => new[i].lastKnownStatus = st
              /\ list[i].id # s => new[i] = list[i]
<1> DEFINE new == T!UpdateSwapStatus(list, s, st)
<1>1. \A i \in DOMAIN list : list[i] \in T!StoredSwap
  OBVIOUS
<1>2. \A e \in T!StoredSwap : /\ [e EXCEPT !.lastKnownStatus = st] \in T!StoredSwap
                              /\ [e EXCEPT !.lastKnownStatus = st].id = e.id
                              /\ [e EXCEPT !.lastKnownStatus = st].lastKnownStatus = st
  BY DEF T!StoredSwap
<1>3. DOMAIN new = DOMAIN list
  BY DEF T!UpdateSwapStatus
<1>4. \A i \in DOMAIN list :
        new[i] = IF list[i].id = s THEN [list[i] EXCEPT !.lastKnownStatus = st] ELSE list[i]
  BY DEF T!UpdateSwapStatus
<1> HIDE DEF new
<1>5. \A i \in DOMAIN list :
        /\ new[i] \in T!StoredSwap /\ new[i].id = list[i].id
        /\ list[i].id = s => new[i].lastKnownStatus = st
        /\ list[i].id # s => new[i] = list[i]
  <2> SUFFICES ASSUME NEW i \in DOMAIN list
               PROVE  /\ new[i] \in T!StoredSwap /\ new[i].id = list[i].id
                      /\ list[i].id = s => new[i].lastKnownStatus = st
                      /\ list[i].id # s => new[i] = list[i]
    OBVIOUS
  <2>1. CASE list[i].id = s
    <3>1. new[i] = [list[i] EXCEPT !.lastKnownStatus = st]
      BY <2>1, <1>4
    <3>2. PICK e \in T!StoredSwap : e = list[i]
      BY <1>1
    <3>3. new[i] = [e EXCEPT !.lastKnownStatus = st]
      BY <3>1, <3>2
    <3>4. /\ [e EXCEPT !.lastKnownStatus = st] \in T!StoredSwap
          /\ [e EXCEPT !.lastKnownStatus = st].id = e.id
          /\ [e EXCEPT !.lastKnownStatus = st].lastKnownStatus = st
      BY <1>2
    <3> QED
      BY <2>1, <3>2, <3>3, <3>4
  <2>2. CASE list[i].id # s
    BY <2>2, <1>1, <1>4
  <2> QED
    BY <2>1, <2>2
<1>6. new \in Seq(T!StoredSwap)
  <2>1. DOMAIN list = 1 .. Len(list) /\ Len(list) \in Nat
    OBVIOUS
  <2>2. new \in [1 .. Len(list) -> T!StoredSwap]
    BY <1>1, <1>2, <2>1 DEF new, T!UpdateSwapStatus
  <2> QED
    BY <2>1, <2>2
<1> QED
  BY <1>3, <1>5, <1>6 DEF new

\* Only the poll of s moves in the tab t.
PollMoves(t, s) ==
  /\ tab' \in [Tabs -> TabState]
  /\ tab'[t].swaps = tab[t].swaps
  /\ \A x \in Swaps \ {s} : tab'[t].poll[x] = tab[t].poll[x]
  /\ \A u \in Tabs \ {t} : tab'[u] = tab[u]
  /\ SameLifecycle /\ age' = age /\ disk' = disk /\ told' = told

LEMMA PollMovesKeeps ==
  ASSUME TrackingInv, NEW t \in Tabs, NEW s \in Swaps, PollMoves(t, s),
         tab[t].poll[s] # T!NoPoll,
         misrouted \subseteq misrouted', misrouted' \subseteq Swaps,
         PollTruthful(tab'[t].poll[s], s, misrouted')
  PROVE  TrackingInv'
<1>1. T!TypeOK'
  BY DEF TrackingInv, T!TypeOK, TabState, PollMoves
<1>2. \A e : TruthfulEntry(e) => TruthfulEntry(e)'
  <2> SUFFICES ASSUME NEW e, TruthfulEntry(e) PROVE TruthfulEntry(e)'
    OBVIOUS
  <2> QED
    BY SameEnds DEF TruthfulEntry, PollMoves, T!Ended
<1>3. Truthful(disk)'
  BY <1>2 DEF TrackingInv, Truthful, PollMoves
<1>4. \A u \in Tabs : tab'[u].swaps = tab[u].swaps
  BY DEF PollMoves
<1>5. \A u \in Tabs : Truthful(tab[u].swaps)'
  BY <1>2, <1>4 DEF TrackingInv, Truthful
<1>6. ASSUME NEW u \in Tabs, NEW x \in Swaps PROVE PollFits(u, x)'
  <2>1. PollFits(u, x) /\ PollFits(t, s)
    BY DEF TrackingInv
  <2>2. CASE u = t /\ x = s
    BY <2>1, <2>2, SameEnds DEF PollFits, PollTruthful, PollMoves
  <2>3. CASE ~(u = t /\ x = s)
    <3>1. tab'[u].poll[x] = tab[u].poll[x]
      BY <2>3 DEF PollMoves
    <3> QED
      BY <2>1, <3>1, SameEnds DEF PollFits, PollTruthful, PollMoves
  <2> QED
    BY <2>2, <2>3
<1>7. ASSUME OneTab, NEW u \in Tabs, NEW x \in Swaps PROVE ToldFits(u, x)'
  <2>1. ToldFits(u, x) /\ u = t
    BY <1>7 DEF TrackingInv, OneTab
  <2>2. CASE NothingTold(told[u][x])
    BY <2>2 DEF ToldFits, NothingTold, PollMoves
  <2>3. CASE ToldOnce(told[u][x]) /\ OverForTab(u, x)
    <3>1. x # s
      BY <2>1, <2>3 DEF OverForTab
    <3> QED
      BY <2>1, <2>3, <3>1, <1>4 DEF ToldFits, ToldOnce, OverForTab, Settled, T!Ended, PollMoves
  <2> QED
    BY <2>1, <2>2, <2>3 DEF ToldFits
<1> QED
  BY <1>1, <1>3, <1>5, <1>6, <1>7, SameEnds DEF TrackingInv, OneTab, PollMoves

\* A tab reads its list from the disk, or keeps it, and starts only polls of
\* swaps that have not ended there.
ListsShrink(t) ==
  /\ SameLifecycle /\ age' = age /\ told' = told /\ misrouted' = misrouted
  /\ disk' \in Seq(T!StoredSwap) /\ Within(disk', disk)
  /\ tab' \in [Tabs -> TabState]
  /\ \A u \in Tabs \ {t} : tab'[u] = tab[u]
  /\ Within(tab'[t].swaps, disk) \/ Within(tab'[t].swaps, tab[t].swaps)
  /\ \A x \in Swaps :
       \/ tab'[t].poll[x] \in {tab[t].poll[x], T!NoPoll}
       \/ /\ tab'[t].poll[x] = T!NewPoll
          /\ \E i \in DOMAIN tab'[t].swaps :
               tab'[t].swaps[i].id = x /\ ~T!Ended(tab'[t].swaps[i])

LEMMA ListsShrinkKeeps ==
  ASSUME TrackingInv, NEW t \in Tabs, ListsShrink(t)
  PROVE  TrackingInv'
<1>1. T!TypeOK'
  BY DEF TrackingInv, T!TypeOK, TabState, ListsShrink
<1>2. \A e : TruthfulEntry(e) => TruthfulEntry(e)'
  <2> SUFFICES ASSUME NEW e, TruthfulEntry(e) PROVE TruthfulEntry(e)'
    OBVIOUS
  <2> QED
    BY SameEnds DEF TruthfulEntry, ListsShrink, T!Ended
<1>3. Truthful(disk)'
  BY <1>2 DEF TrackingInv, Truthful, Within, ListsShrink
<1>4. ASSUME NEW u \in Tabs PROVE Truthful(tab[u].swaps)'
  BY <1>2 DEF TrackingInv, Truthful, Within, ListsShrink
<1>5. ASSUME NEW u \in Tabs, NEW x \in Swaps PROVE PollFits(u, x)'
  <2>1. PollFits(u, x)
    BY DEF TrackingInv
  <2>2. CASE tab'[u].poll[x] = tab[u].poll[x]
    BY <2>1, <2>2, SameEnds DEF PollFits, PollTruthful, ListsShrink
  <2>3. CASE tab'[u].poll[x] = T!NoPoll
    BY <2>3, PollsTyped DEF PollFits, PollTruthful
  <2>4. CASE /\ u = t /\ tab'[t].poll[x] = T!NewPoll
             /\ \E i \in DOMAIN tab'[t].swaps :
                  tab'[t].swaps[i].id = x /\ ~T!Ended(tab'[t].swaps[i])
    <3>1. swapStatus'[x] # T!AbsentStatus
      BY <2>4, <1>4 DEF Truthful, TruthfulEntry
    <3> QED
      BY <2>4, <3>1, PollsTyped DEF PollFits, PollTruthful
  <2> QED
    BY <2>2, <2>3, <2>4 DEF ListsShrink
<1>6. ASSUME OneTab, NEW u \in Tabs, NEW x \in Swaps PROVE ToldFits(u, x)'
  <2>1. ToldFits(u, x) /\ u = t
    BY <1>6 DEF TrackingInv, OneTab
  <2>2. CASE NothingTold(told[u][x])
    BY <2>2 DEF ToldFits, NothingTold, ListsShrink
  <2>3. CASE ToldOnce(told[u][x]) /\ OverForTab(u, x)
    <3>1. \A e : T!Ended(e)' <=> T!Ended(e)
      BY DEF T!Ended
    <3>2. Settled(disk', x) /\ Settled(tab'[u].swaps, x)
      BY <2>1, <2>3 DEF OverForTab, Settled, Within, ListsShrink
    <3>3. tab'[u].poll[x] = T!NoPoll
      BY <2>1, <2>3, <3>2 DEF OverForTab, Settled, ListsShrink
    <3> QED
      BY <2>3, <3>2, <3>3 DEF ToldFits, ToldOnce, OverForTab, Settled, ListsShrink, T!Ended
  <2> QED
    BY <2>1, <2>2, <2>3 DEF ToldFits
<1> QED
  BY <1>1, <1>3, <1>4, <1>5, <1>6, SameEnds DEF TrackingInv, OneTab, ListsShrink

\* An answer is stored: every entry of s gets its status.
StatusStored(t, s, st) ==
  /\ SameLifecycle /\ age' = age
  /\ disk' = T!UpdateSwapStatus(tab[t].swaps, s, st)
  /\ tab' \in [Tabs -> TabState]
  /\ tab'[t].swaps = T!UpdateSwapStatus(tab[t].swaps, s, st)
  /\ \A u \in Tabs \ {t} : tab'[u] = tab[u]
  /\ \A x \in Swaps \ {s} : tab'[t].poll[x] = tab[t].poll[x]
  /\ tab'[t].poll[s].request = "none"
  /\ told' \in [Tabs -> [Swaps -> Told]]
  /\ misrouted' = misrouted

LEMMA StatusStoredKeeps ==
  ASSUME TrackingInv, NEW t \in Tabs, NEW s \in Swaps, NEW st \in T!SwapStatus,
         StatusStored(t, s, st),
         tab[t].poll[s] # T!NoPoll,
         T!IsTerminalStatus(st, MCDirection[s]) =>
           st \in Ends(s) \/ (st = "lost" /\ s \in misrouted),
         \/ told' = told
         \/ /\ T!Announced(s, st)
            /\ tab'[t].poll[s] = T!NoPoll
            /\ told' = [told EXCEPT ![t][s][st] = @ + 1]
  PROVE  TrackingInv'
<1> DEFINE list == tab[t].swaps
<1> DEFINE new == T!UpdateSwapStatus(list, s, st)
<1>1. list \in Seq(T!StoredSwap) /\ disk \in Seq(T!StoredSwap)
  BY TrackingTyped DEF TrackingInv, TabState
<1>2. /\ new \in Seq(T!StoredSwap) /\ DOMAIN new = DOMAIN list
      /\ \A i \in DOMAIN list :
           /\ new[i].id = list[i].id
           /\ list[i].id = s => new[i].lastKnownStatus = st
           /\ list[i].id # s => new[i] = list[i]
  BY <1>1, StatusUpdated
<1>3. disk' = new /\ tab'[t].swaps = new
  BY DEF StatusStored
<1> HIDE DEF new
<1>4. T!TypeOK'
  BY <1>2, <1>3 DEF TrackingInv, T!TypeOK, TabState, Told, StatusStored
<1>5. swapStatus[s] # T!AbsentStatus
  BY DEF TrackingInv, PollFits
<1>6. \A e : TruthfulEntry(e)' <=> TruthfulEntry(e)
  <2> SUFFICES ASSUME NEW e PROVE TruthfulEntry(e)' <=> TruthfulEntry(e)
    OBVIOUS
  <2> QED
    BY SameEnds DEF TruthfulEntry, StatusStored, T!Ended
<1>7. Truthful(new)
  <2> SUFFICES ASSUME NEW i \in DOMAIN list PROVE TruthfulEntry(new[i])
    BY <1>2 DEF Truthful
  <2>1. TruthfulEntry(list[i])
    BY DEF TrackingInv, Truthful
  <2>2. CASE list[i].id = s
    BY <2>2, <1>2, <1>5 DEF TruthfulEntry, T!Ended
  <2>3. CASE list[i].id # s
    BY <2>1, <2>3, <1>2
  <2> QED
    BY <2>2, <2>3
<1>8. Truthful(disk)' /\ \A u \in Tabs : Truthful(tab[u].swaps)'
  BY <1>3, <1>6, <1>7 DEF TrackingInv, Truthful, StatusStored
<1>9. ASSUME NEW u \in Tabs, NEW x \in Swaps PROVE PollFits(u, x)'
  <2>1. PollFits(u, x)
    BY DEF TrackingInv
  <2>2. CASE u = t /\ x = s
    BY <2>2, <1>5, PollsTyped DEF PollFits, PollTruthful, StatusStored
  <2>3. CASE ~(u = t /\ x = s)
    <3>1. tab'[u].poll[x] = tab[u].poll[x]
      BY <2>3 DEF StatusStored
    <3> QED
      BY <2>1, <3>1, SameEnds DEF PollFits, PollTruthful, StatusStored
  <2> QED
    BY <2>2, <2>3
<1>10. \A e : T!Ended(e)' <=> T!Ended(e)
  BY DEF T!Ended
<1>11. ASSUME OneTab, NEW u \in Tabs, NEW x \in Swaps PROVE ToldFits(u, x)'
  <2>1. ToldFits(u, x) /\ u = t
    BY <1>11 DEF TrackingInv, OneTab
  <2>2. CASE x # s
    <3>1. told'[u][x] = told[u][x]
      BY <2>1, <2>2 DEF TrackingInv, T!TypeOK
    <3>2. tab'[u].poll[x] = tab[u].poll[x]
      BY <2>1, <2>2 DEF StatusStored
    <3>3. Settled(list, x) => Settled(new, x)
      BY <2>2, <1>2 DEF Settled
    <3>4. OverForTab(u, x) => OverForTab(u, x)'
      BY <2>1, <3>2, <3>3, <1>3, <1>10 DEF OverForTab, Settled, StatusStored
    <3> QED
      BY <2>1, <3>1, <3>4 DEF ToldFits
  <2>3. CASE x = s
    <3>1. NothingTold(told[u][x])
      BY <2>1, <2>3 DEF ToldFits, OverForTab
    <3>2. CASE told' = told
      BY <3>1, <3>2 DEF ToldFits
    <3>3. CASE /\ T!Announced(s, st)
               /\ tab'[t].poll[s] = T!NoPoll
               /\ told' = [told EXCEPT ![t][s][st] = @ + 1]
      <4>1. st \in T!TerminalStatus /\ T!IsTerminalStatus(st, MCDirection[s])
        BY <3>3, EndsAgree
      <4>2. /\ told'[t][s][st] = told[t][s][st] + 1
            /\ \A other \in T!TerminalStatus \ {st} : told'[t][s][other] = told[t][s][other]
        BY <3>3, <4>1 DEF TrackingInv, T!TypeOK
      <4>3. ToldOnce(told'[u][x])
        BY <2>1, <2>3, <3>1, <4>1, <4>2 DEF NothingTold, ToldOnce
      <4>4. Settled(new, s)
        BY <1>2, <4>1 DEF Settled, T!Ended
      <4>5. OverForTab(u, x)'
        BY <2>1, <2>3, <3>3, <4>4, <1>3, <1>5, <1>10 DEF OverForTab, Settled, StatusStored
      <4> QED
        BY <4>3, <4>5 DEF ToldFits
    <3> QED
      BY <3>2, <3>3
  <2> QED
    BY <2>2, <2>3
<1> QED
  BY <1>4, <1>8, <1>9, <1>11, SameEnds DEF TrackingInv, OneTab, StatusStored

LEMMA StatusesTyped == \A s : T!Statuses(MCDirection[s]) \subseteq T!SwapStatus
BY DEF T!Statuses, T!SwapStatus, T!CreatedRow, T!AbsentRow

\* What the API may answer: a final status is an end of the swap.
LEMMA MayHoldFits ==
  ASSUME NEW s \in Swaps, NEW st \in T!MayHold(s),
         T!Statuses(MCDirection[s]) \subseteq T!SwapStatus,
         end \in [Swaps -> T!SwapStatus \cup {T!NoStatus}]
  PROVE  st \in T!SwapStatus /\ (T!IsTerminal(st, MCDirection[s]) => st \in Ends(s))
<1>1. "lost" \in T!SwapStatus
  BY DEF T!SwapStatus
<1>2. CASE st \in T!Statuses(MCDirection[s]) \ T!Final(s)
  BY <1>2 DEF T!Final
<1>3. CASE st \in Ends(s)
  BY <1>1, <1>3 DEF Ends
<1> QED
  BY <1>2, <1>3 DEF T!MayHold, Ends

\* The status of one swap moves at the API, Atomiq ends it, or the SDK forgets
\* it: nothing that was said of an end stops being true.
LEMMA StatusMovesKeeps ==
  ASSUME TrackingInv, T!StatusMoves
  PROVE  TrackingInv'
<1>1. PICK s \in Swaps : T!End(s) \/ T!Forget(s) \/ T!Move(s)
  BY DEF T!StatusMoves
<1>2. /\ swapStatus \in [Swaps -> T!SwapStatus \cup {T!AbsentStatus}]
      /\ end \in [Swaps -> T!SwapStatus \cup {T!NoStatus}]
      /\ forgotten \in [Swaps -> BOOLEAN]
      /\ \A x \in Swaps : StatusFits(x)
  BY DEF TrackingInv, T!TypeOK
<1>3. T!Statuses(MCDirection[s]) \subseteq T!SwapStatus
  BY StatusesTyped
<1>4. /\ swapStatus' \in [Swaps -> T!SwapStatus \cup {T!AbsentStatus}]
      /\ end' \in [Swaps -> T!SwapStatus \cup {T!NoStatus}]
      /\ forgotten' \in [Swaps -> BOOLEAN]
      /\ \A x \in Swaps : Ends(x) \subseteq Ends(x)' /\ StatusFits(x)'
      /\ \A x \in Swaps :
           swapStatus[x] # T!AbsentStatus => swapStatus'[x] # T!AbsentStatus
  <2>1. CASE T!End(s)
    <3>1. PICK st \in T!Final(s) \ {"lost"} : end' = [end EXCEPT ![s] = st]
      BY <2>1 DEF T!End
    <3>2. st \in T!SwapStatus
      BY <1>3 DEF T!Final
    <3>3. /\ swapStatus' = swapStatus /\ forgotten' = forgotten /\ end[s] = T!NoStatus
          /\ end' \in [Swaps -> T!SwapStatus \cup {T!NoStatus}]
          /\ \A x \in Swaps \ {s} : end'[x] = end[x]
      BY <2>1, <3>1, <3>2, <1>2 DEF T!End
    <3>4. \A x \in Swaps : Ends(x) \subseteq Ends(x)'
      BY <3>3 DEF Ends
    <3> QED
      BY <3>3, <3>4, <1>2 DEF StatusFits
  <2>2. CASE T!Forget(s)
    <3>1. /\ swapStatus' = swapStatus /\ end' = end
          /\ forgotten' = [forgotten EXCEPT ![s] = TRUE]
      BY <2>2 DEF T!Forget
    <3>2. \A x \in Swaps : Ends(x) \subseteq Ends(x)'
      BY <3>1, <1>2 DEF Ends
    <3> QED
      BY <3>1, <3>2, <1>2 DEF StatusFits
  <2>3. CASE T!Move(s)
    <3>1. PICK st \in T!MayHold(s) : swapStatus' = [swapStatus EXCEPT ![s] = st]
      BY <2>3 DEF T!Move
    <3>2. end' = end /\ forgotten' = forgotten
      BY <2>3 DEF T!Move
    <3>3. st \in T!SwapStatus /\ (T!IsTerminal(st, MCDirection[s]) => st \in Ends(s))
      BY <1>2, <1>3, MayHoldFits
    <3>4. st # T!AbsentStatus
      BY <3>3, EndsAgree
    <3>5. \A x \in Swaps : Ends(x)' = Ends(x)
      BY <3>2 DEF Ends
    <3>6. /\ swapStatus' \in [Swaps -> T!SwapStatus \cup {T!AbsentStatus}]
          /\ swapStatus'[s] = st /\ \A x \in Swaps \ {s} : swapStatus'[x] = swapStatus[x]
      BY <3>1, <3>3, <1>2
    <3> QED
      BY <3>2, <3>3, <3>4, <3>5, <3>6, <1>2 DEF StatusFits
  <2> QED
    BY <1>1, <2>1, <2>2, <2>3
<1>5. age' = age /\ disk' = disk /\ tab' = tab /\ told' = told /\ misrouted' = misrouted
  BY DEF T!StatusMoves
<1>6. T!TypeOK'
  BY <1>4, <1>5 DEF TrackingInv, T!TypeOK
<1>7. \A e : T!Ended(e)' <=> T!Ended(e)
  BY DEF T!Ended
<1>8. ASSUME NEW e \in T!StoredSwap, TruthfulEntry(e) PROVE TruthfulEntry(e)'
  <2>1. e.id \in Swaps
    BY DEF T!StoredSwap
  <2> QED
    BY <2>1, <1>4, <1>5, <1>7, <1>8 DEF TruthfulEntry
<1>9. \A i \in DOMAIN disk : disk[i] \in T!StoredSwap
  BY DEF TrackingInv, T!TypeOK
<1>10. \A u \in Tabs : \A i \in DOMAIN tab[u].swaps : tab[u].swaps[i] \in T!StoredSwap
  BY TrackingTyped DEF TrackingInv, TabState
<1>11. Truthful(disk)' /\ \A u \in Tabs : Truthful(tab[u].swaps)'
  BY <1>5, <1>8, <1>9, <1>10 DEF TrackingInv, Truthful
<1>12. ASSUME NEW u \in Tabs, NEW x \in Swaps PROVE PollFits(u, x)'
  <2>1. PollFits(u, x)
    BY DEF TrackingInv
  <2> QED
    BY <2>1, <1>4, <1>5 DEF PollFits, PollTruthful
<1>13. ASSUME OneTab, NEW u \in Tabs, NEW x \in Swaps PROVE ToldFits(u, x)'
  <2>1. ToldFits(u, x)
    BY <1>13 DEF TrackingInv
  <2>2. OverForTab(u, x) => OverForTab(u, x)'
    BY <1>4, <1>5, <1>7 DEF OverForTab, Settled
  <2> QED
    BY <2>1, <2>2, <1>5 DEF ToldFits
<1> QED
  BY <1>4, <1>6, <1>11, <1>12, <1>13 DEF TrackingInv, OneTab

LEMMA NotStartedTyped ==
  /\ T!NotStarted \in TabState /\ T!NotStarted.swaps = <<>>
  /\ \A s \in Swaps : T!NotStarted.poll[s] = T!NoPoll
<1> DEFINE polls == [s \in Swaps |-> T!NoPoll]
<1>1. polls \in [Swaps -> T!Poll] /\ \A s \in Swaps : polls[s] = T!NoPoll
  BY PollsTyped
<1>2. T!NotStarted = [started |-> FALSE, visible |-> TRUE, swaps |-> <<>>, poll |-> polls]
  BY DEF T!NotStarted
<1>3. <<>> \in Seq(T!StoredSwap)
  OBVIOUS
<1> HIDE DEF polls
<1> QED
  BY <1>1, <1>2, <1>3 DEF TabState

LEMMA TrackingInit == T!TrackingInit => TrackingInv
<1> SUFFICES ASSUME T!TrackingInit PROVE TrackingInv
  OBVIOUS
<1>1. /\ swapStatus = [s \in Swaps |-> T!AbsentStatus] /\ age = [s \in Swaps |-> "young"]
      /\ end = [s \in Swaps |-> T!NoStatus] /\ forgotten = [s \in Swaps |-> FALSE]
      /\ disk = <<>> /\ misrouted = {}
      /\ tab = [t \in Tabs |-> T!NotStarted]
      /\ told = [t \in Tabs |-> [s \in Swaps |-> [st \in T!TerminalStatus |-> 0]]]
  BY DEF T!TrackingInit, T!Init
<1>2. /\ T!NotStarted \in TabState /\ T!NotStarted.swaps = <<>>
      /\ \A s \in Swaps : T!NotStarted.poll[s] = T!NoPoll
  BY NotStartedTyped
<1>3. T!TypeOK
  BY <1>1, <1>2 DEF T!TypeOK, TabState, T!Ages
<1>4. Truthful(disk) /\ \A t \in Tabs : Truthful(tab[t].swaps)
  BY <1>1, <1>2 DEF Truthful
<1>5. \A t \in Tabs, s \in Swaps : PollFits(t, s)
  BY <1>1, <1>2, PollsTyped DEF PollFits, PollTruthful
<1>6. \A t \in Tabs, s \in Swaps : ToldFits(t, s)
  BY <1>1 DEF ToldFits, NothingTold
<1>7. \A s \in Swaps : StatusFits(s)
  BY <1>1 DEF StatusFits, T!IsTerminal, T!TerminalStatus, T!AbsentStatus
<1> QED
  BY <1>3, <1>4, <1>5, <1>6, <1>7 DEF TrackingInv

\* A swap is polled anew only if it is active in the list.
LEMMA Resumed ==
  ASSUME NEW list \in Seq(T!StoredSwap), NEW polls \in [Swaps -> T!Poll]
  PROVE  /\ T!ResumeActiveSwaps(list, polls) \in [Swaps -> T!Poll]
         /\ \A x \in Swaps :
              \/ T!ResumeActiveSwaps(list, polls)[x] = polls[x]
              \/ /\ T!ResumeActiveSwaps(list, polls)[x] = T!NewPoll
                 /\ \E i \in DOMAIN list : list[i].id = x /\ ~T!Ended(list[i])
<1>1. \A x \in Swaps : T!StartPolling(list, polls, x)[x] \in {polls[x], T!NewPoll}
  BY DEF T!StartPolling
<1>2. \A x \in T!GetActiveSwaps(list) : \E i \in DOMAIN list : list[i].id = x /\ ~T!Ended(list[i])
  BY DEF T!GetActiveSwaps, T!ToSet
<1>3. \A x \in Swaps : T!ResumeActiveSwaps(list, polls)[x] =
        IF x \in T!GetActiveSwaps(list) /\ age[x] = "young"
        THEN T!StartPolling(list, polls, x)[x] ELSE polls[x]
  BY DEF T!ResumeActiveSwaps
<1>4. \A x \in Swaps : \/ T!ResumeActiveSwaps(list, polls)[x] = polls[x]
                       \/ /\ T!ResumeActiveSwaps(list, polls)[x] = T!NewPoll
                          /\ x \in T!GetActiveSwaps(list)
  BY <1>1, <1>3
<1>5. \E g : T!ResumeActiveSwaps(list, polls) = [x \in Swaps |-> g[x]]
  <2> DEFINE g == [x \in Swaps |->
        IF x \in T!GetActiveSwaps(list) /\ age[x] = "young"
        THEN T!StartPolling(list, polls, x)[x] ELSE polls[x]]
  <2>1. T!ResumeActiveSwaps(list, polls) = g
    BY DEF T!ResumeActiveSwaps
  <2>2. g = [x \in Swaps |-> g[x]]
    OBVIOUS
  <2> QED
    BY <2>1, <2>2
<1>6. T!ResumeActiveSwaps(list, polls) \in [Swaps -> T!Poll]
  BY <1>4, <1>5, PollsTyped
<1> QED
  BY <1>2, <1>4, <1>6

LEMMA StartServicesKeeps ==
  ASSUME TrackingInv, NEW t \in Tabs, T!StartServices(t)
  PROVE  TrackingInv'
<1> DEFINE list == T!RemoveOldSwaps(disk)
<1> DEFINE polls == T!ResumeActiveSwaps(list, tab[t].poll)
<1>1. /\ disk \in Seq(T!StoredSwap) /\ tab \in [Tabs -> TabState]
      /\ tab[t].poll \in [Swaps -> T!Poll]
  BY TrackingTyped DEF TrackingInv, TabState
<1>2. list \in Seq(T!StoredSwap) /\ Within(list, disk)
  BY <1>1, OldAreRemoved
<1>3. disk' = (IF Len(list) # Len(disk) THEN list ELSE disk)
      /\ tab' = [tab EXCEPT ![t].started = TRUE, ![t].swaps = list, ![t].poll = polls]
      /\ SameLifecycle /\ age' = age /\ told' = told /\ misrouted' = misrouted
  BY DEF T!StartServices
<1> HIDE DEF list
<1>4. /\ polls \in [Swaps -> T!Poll]
      /\ \A x \in Swaps :
           \/ polls[x] = tab[t].poll[x]
           \/ /\ polls[x] = T!NewPoll
              /\ \E i \in DOMAIN list : list[i].id = x /\ ~T!Ended(list[i])
  BY <1>1, <1>2, Resumed
<1> HIDE DEF polls
<1>5. /\ tab' \in [Tabs -> TabState] /\ tab'[t].swaps = list /\ tab'[t].poll = polls
      /\ \A u \in Tabs \ {t} : tab'[u] = tab[u]
  <2> DEFINE a == [tab EXCEPT ![t].started = TRUE]
  <2> DEFINE b == [a EXCEPT ![t].swaps = list]
  <2>1. a \in [Tabs -> TabState] /\ \A u \in Tabs \ {t} : a[u] = tab[u]
    BY <1>1 DEF TabState
  <2>2. tab' = [b EXCEPT ![t].poll = polls]
    BY <1>3
  <2> HIDE DEF a
  <2>3. /\ b \in [Tabs -> TabState] /\ b[t].swaps = list
        /\ \A u \in Tabs \ {t} : b[u] = tab[u]
    BY <1>2, <2>1 DEF TabState
  <2> HIDE DEF b
  <2>4. polls \in [Swaps -> T!Poll]
    BY <1>4
  <2>5. tab' \in [Tabs -> TabState]
    BY <2>2, <2>3, <2>4 DEF TabState
  <2>6. tab'[t].swaps = b[t].swaps /\ tab'[t].poll = polls
    BY <2>2, <2>3 DEF TabState
  <2>7. \A u \in Tabs \ {t} : tab'[u] = b[u]
    BY <2>2, <2>3
  <2> QED
    BY <2>3, <2>5, <2>6, <2>7
<1>6. disk' \in Seq(T!StoredSwap) /\ Within(disk', disk)
  BY <1>1, <1>2, <1>3 DEF Within
<1>7. ListsShrink(t)
  BY <1>2, <1>3, <1>4, <1>5, <1>6 DEF ListsShrink
<1> QED
  BY <1>7, ListsShrinkKeeps

LEMMA TabReloadKeeps ==
  ASSUME TrackingInv, NEW t \in Tabs, T!Reload(t) \/ T!Hide(t)
  PROVE  TrackingInv'
<1>1. /\ disk \in Seq(T!StoredSwap) /\ tab \in [Tabs -> TabState]
  BY TrackingTyped DEF TrackingInv
<1>2. /\ T!NotStarted \in TabState /\ T!NotStarted.swaps = <<>>
      /\ \A s \in Swaps : T!NotStarted.poll[s] = T!NoPoll
  BY NotStartedTyped
<1>3. SameLifecycle /\ age' = age /\ told' = told /\ misrouted' = misrouted
      /\ disk' = disk
  BY DEF T!Reload, T!Hide
<1>4. CASE T!Reload(t)
  <2>1. tab' = [tab EXCEPT ![t] = T!NotStarted]
    BY <1>4 DEF T!Reload
  <2>2. ListsShrink(t)
    BY <1>1, <1>2, <1>3, <2>1 DEF ListsShrink, Within
  <2> QED
    BY <2>2, ListsShrinkKeeps
<1>5. CASE T!Hide(t)
  <2>1. tab' = [tab EXCEPT ![t].visible = FALSE]
    BY <1>5 DEF T!Hide
  <2>2. /\ tab' \in [Tabs -> TabState] /\ tab'[t].swaps = tab[t].swaps
        /\ tab'[t].poll = tab[t].poll /\ \A u \in Tabs \ {t} : tab'[u] = tab[u]
    BY <1>1, <2>1 DEF TabState
  <2>3. ListsShrink(t)
    BY <1>1, <1>3, <2>2 DEF ListsShrink, Within
  <2> QED
    BY <2>3, ListsShrinkKeeps
<1> QED
  BY <1>4, <1>5

LEMMA ShowKeeps ==
  ASSUME TrackingInv, NEW t \in Tabs, T!Show(t)
  PROVE  TrackingInv'
<1> DEFINE list == tab[t].swaps
<1> DEFINE polls == T!ResumeActiveSwaps(list, tab[t].poll)
<1>1. /\ disk \in Seq(T!StoredSwap) /\ tab \in [Tabs -> TabState]
      /\ tab[t].poll \in [Swaps -> T!Poll] /\ list \in Seq(T!StoredSwap)
  BY TrackingTyped DEF TrackingInv, TabState
<1>2. tab' = [tab EXCEPT ![t].visible = TRUE, ![t].poll = polls]
      /\ SameLifecycle /\ age' = age /\ told' = told /\ misrouted' = misrouted
      /\ disk' = disk
  BY DEF T!Show
<1>3. /\ polls \in [Swaps -> T!Poll]
      /\ \A x \in Swaps :
           \/ polls[x] = tab[t].poll[x]
           \/ /\ polls[x] = T!NewPoll
              /\ \E i \in DOMAIN list : list[i].id = x /\ ~T!Ended(list[i])
  BY <1>1, Resumed
<1> HIDE DEF polls
<1>4. /\ tab' \in [Tabs -> TabState] /\ tab'[t].swaps = tab[t].swaps /\ tab'[t].poll = polls
      /\ \A u \in Tabs \ {t} : tab'[u] = tab[u]
  <2> DEFINE seen == [tab EXCEPT ![t].visible = TRUE]
  <2>1. /\ seen \in [Tabs -> TabState] /\ seen[t].swaps = tab[t].swaps
        /\ \A u \in Tabs \ {t} : seen[u] = tab[u]
    BY <1>1 DEF TabState
  <2>2. tab' = [seen EXCEPT ![t].poll = polls]
    BY <1>2
  <2> HIDE DEF seen
  <2>3. tab' \in [Tabs -> TabState]
    BY <1>3, <2>1, <2>2 DEF TabState
  <2>4. tab'[t].swaps = seen[t].swaps /\ tab'[t].poll = polls
    BY <2>1, <2>2 DEF TabState
  <2>5. \A u \in Tabs \ {t} : tab'[u] = seen[u]
    BY <2>1, <2>2
  <2> QED
    BY <2>1, <2>3, <2>4, <2>5
<1>5. ListsShrink(t)
  BY <1>1, <1>2, <1>3, <1>4 DEF ListsShrink, Within
<1> QED
  BY <1>5, ListsShrinkKeeps

\* A tab with another list and other polls.
Updated(tabs, t, list, polls, new) ==
  new = [tabs EXCEPT ![t].swaps = list, ![t].poll = polls]

UpdatedOk(tabs, t, list, polls, new) ==
  /\ new \in [Tabs -> TabState] /\ new[t].swaps = list /\ new[t].poll = polls
  /\ \A u \in Tabs \ {t} : new[u] = tabs[u]

LEMMA TabUpdated ==
  ASSUME NEW tabs \in [Tabs -> TabState], NEW t \in Tabs, NEW list \in Seq(T!StoredSwap),
         NEW polls \in [Swaps -> T!Poll], NEW new, Updated(tabs, t, list, polls, new)
  PROVE  UpdatedOk(tabs, t, list, polls, new)
<1> DEFINE next == [tabs[t] EXCEPT !.swaps = list, !.poll = polls]
<1>1. tabs[t] \in TabState
  OBVIOUS
<1>2. next \in TabState /\ next.swaps = list /\ next.poll = polls
  BY <1>1 DEF TabState
<1>3. new = [tabs EXCEPT ![t] = next]
  BY DEF Updated
<1> HIDE DEF next
<1> QED
  BY <1>2, <1>3 DEF UpdatedOk

\* A swap that is opened has no entry, no poll and nothing told.
LEMMA HandleSuccessKeeps ==
  ASSUME TrackingInv, NEW t \in Tabs, NEW s \in Swaps, T!HandleSuccess(t, s)
  PROVE  TrackingInv'
<1> DEFINE old == tab[t].swaps
<1> DEFINE polls == T!StartPolling(T!SaveSwap(old, s), tab[t].poll, s)
<1> DEFINE st == T!CreatedRow(MCDirection[s]).status
<1>1. /\ old \in Seq(T!StoredSwap) /\ tab \in [Tabs -> TabState]
      /\ tab[t].poll \in [Swaps -> T!Poll]
      /\ swapStatus \in [Swaps -> T!SwapStatus \cup {T!AbsentStatus}]
  BY TrackingTyped DEF TrackingInv, TabState
<1>2. PICK list \in Seq(T!StoredSwap) :
      /\ list = T!SaveSwap(old, s)
      /\ \A i \in DOMAIN list :
           \/ list[i] = [id |-> s, lastKnownStatus |-> "pending"]
           \/ list[i].id # s /\ \E j \in DOMAIN old : list[i] = old[j]
  BY <1>1, SavedIsFirst
<1>3. polls \in [Swaps -> T!Poll] /\ (\A x \in Swaps \ {s} : polls[x] = tab[t].poll[x])
      /\ polls[s] \in {tab[t].poll[s], T!NewPoll}
  BY <1>1, PollsTyped DEF T!StartPolling
<1>4. /\ swapStatus[s] = T!AbsentStatus /\ swapStatus' = [swapStatus EXCEPT ![s] = st]
      /\ end' = end /\ forgotten' = forgotten
  BY DEF T!HandleSuccess, T!Open
<1>4a. ~T!IsTerminal(st, MCDirection[s]) /\ \A x : Ends(x)' = Ends(x)
  BY <1>4 DEF Ends, T!CreatedRow, T!AbsentRow, T!IsTerminal, T!TerminalStatus
<1>5. st \in T!SwapStatus /\ st # T!AbsentStatus /\ ~T!IsTerminalStatus("pending", MCDirection[s])
  <2>1. st \in T!SwapStatus
    BY DEF T!CreatedRow, T!AbsentRow, T!SwapStatus
  <2> HIDE DEF st
  <2> QED
    BY <2>1, EndsAgree
<1> HIDE DEF st
<1>6. /\ disk' = list
      /\ tab' = [tab EXCEPT ![t].swaps = list, ![t].poll = polls]
      /\ age' = age /\ told' = told /\ misrouted' = misrouted
  BY <1>2 DEF T!HandleSuccess
<1> HIDE DEF polls
<1>7. /\ tab' \in [Tabs -> TabState] /\ tab'[t].swaps = list /\ tab'[t].poll = polls
      /\ \A u \in Tabs \ {t} : tab'[u] = tab[u]
  <2>1. Updated(tab, t, list, polls, tab')
    BY <1>6 DEF Updated
  <2>2. UpdatedOk(tab, t, list, polls, tab')
    BY <1>1, <1>2, <1>3, <2>1, TabUpdated
  <2> QED
    BY <2>2 DEF UpdatedOk
<1>8. /\ swapStatus'[s] = st /\ \A x \in Swaps \ {s} : swapStatus'[x] = swapStatus[x]
      /\ swapStatus' \in [Swaps -> T!SwapStatus \cup {T!AbsentStatus}]
  BY <1>1, <1>4, <1>5
<1>9. T!TypeOK'
  BY <1>2, <1>4, <1>6, <1>7, <1>8 DEF TrackingInv, T!TypeOK, TabState
<1>10. \A e : T!Ended(e)' <=> T!Ended(e)
  BY DEF T!Ended
<1>11. ASSUME NEW e \in T!StoredSwap, TruthfulEntry(e)
       PROVE  TruthfulEntry(e)' /\ e.id # s
  BY <1>4, <1>6, <1>8, <1>11, <1>4a DEF TruthfulEntry, T!Ended, T!StoredSwap
<1>12. \A e \in T!StoredSwap : e = [id |-> s, lastKnownStatus |-> "pending"] =>
         TruthfulEntry(e)' /\ e.id = s /\ ~T!Ended(e)
  BY <1>5, <1>8 DEF TruthfulEntry, T!Ended
<1>13. /\ \A i \in DOMAIN old : old[i] \in T!StoredSwap /\ TruthfulEntry(old[i])
       /\ \A i \in DOMAIN list : list[i] \in T!StoredSwap
  BY <1>1, <1>2 DEF TrackingInv, Truthful
<1>14. \A i \in DOMAIN list : TruthfulEntry(list[i])'
  BY <1>2, <1>11, <1>12, <1>13
<1>15. \A u \in Tabs : \A i \in DOMAIN tab[u].swaps :
         tab[u].swaps[i] \in T!StoredSwap /\ TruthfulEntry(tab[u].swaps[i])
  <2>1. \A u \in Tabs : tab[u].swaps \in Seq(T!StoredSwap)
    BY <1>1 DEF TabState
  <2> QED
    BY <2>1 DEF TrackingInv, Truthful
<1>16. Truthful(disk)' /\ \A u \in Tabs : Truthful(tab[u].swaps)'
  <2>1. Truthful(disk)'
    BY <1>6, <1>14 DEF Truthful
  <2>2. ASSUME NEW u \in Tabs PROVE Truthful(tab[u].swaps)'
    <3>1. CASE u = t
      BY <3>1, <1>7, <1>14 DEF Truthful
    <3>2. CASE u # t
      BY <3>2, <1>7, <1>11, <1>15 DEF Truthful
    <3> QED
      BY <3>1, <3>2
  <2> QED
    BY <2>1, <2>2
<1>17. ASSUME NEW u \in Tabs, NEW x \in Swaps PROVE PollFits(u, x)'
  <2>1. PollFits(u, x)
    BY DEF TrackingInv
  <2>2. CASE x # s
    <3>1. tab'[u].poll[x] = tab[u].poll[x]
      BY <2>2, <1>3, <1>7
    <3> QED
      BY <2>1, <2>2, <3>1, <1>6, <1>8, <1>4a DEF PollFits, PollTruthful
  <2>3. CASE x = s
    <3>1. tab[u].poll[s] = T!NoPoll
      BY <2>1, <2>3, <1>4 DEF PollFits
    <3>2. tab'[u].poll[s] \in {T!NoPoll, T!NewPoll}
      BY <3>1, <1>3, <1>7
    <3> QED
      BY <2>3, <3>2, <1>5, <1>8, PollsTyped DEF PollFits, PollTruthful
  <2> QED
    BY <2>2, <2>3
<1>18. ASSUME OneTab, NEW u \in Tabs, NEW x \in Swaps PROVE ToldFits(u, x)'
  <2>1. ToldFits(u, x) /\ u = t
    BY <1>18 DEF TrackingInv, OneTab
  <2>2. CASE x = s
    <3>1. NothingTold(told[u][x])
      BY <2>1, <2>2, <1>4 DEF ToldFits, OverForTab
    <3> QED
      BY <3>1, <1>6 DEF ToldFits
  <2>3. CASE x # s
    <3>1. Settled(old, x) => Settled(list, x)
      BY <2>3, <1>2, <1>12, <1>13 DEF Settled
    <3>2. OverForTab(u, x) => OverForTab(u, x)'
      BY <2>1, <2>3, <3>1, <1>3, <1>6, <1>7, <1>8, <1>10 DEF OverForTab, Settled
    <3> QED
      BY <2>1, <3>2, <1>6 DEF ToldFits
  <2> QED
    BY <2>2, <2>3
<1>19. \A x \in Swaps : StatusFits(x)'
  BY <1>8, <1>4a DEF TrackingInv, StatusFits
<1> QED
  BY <1>9, <1>16, <1>17, <1>18, <1>19 DEF TrackingInv, OneTab

\* A tick, the end of an interval, an answer, an error.
LEMMA RequestKeeps ==
  ASSUME TrackingInv, NEW t \in Tabs, NEW s \in Swaps,
         \/ T!Tick(t, s) \/ T!Lapse(t, s) \/ T!ServeStatus(t, s) \/ T!RequestFails(t, s)
         \/ T!Misroute(t, s)
  PROVE  TrackingInv'
<1>1. /\ tab \in [Tabs -> TabState] /\ tab[t] \in TabState /\ tab[t].poll[s] \in T!Poll
      /\ misrouted \subseteq Swaps
  BY TrackingTyped DEF TrackingInv, TabState
<1>2. tab[t].poll[s] # T!NoPoll
  BY PollsTyped DEF T!Tick, T!Lapse, T!ServeStatus, T!RequestFails, T!Misroute
<1>3. PollFits(t, s) /\ swapStatus[s] \in T!SwapStatus
  BY <1>2 DEF TrackingInv, PollFits, T!TypeOK
<1>4. ASSUME NEW r \in T!Answers \cup {"none", "asked"},
             tab' = [tab EXCEPT ![t].poll[s].request = r],
             SameLifecycle /\ age' = age /\ disk' = disk /\ told' = told
      PROVE  PollMoves(t, s) /\ tab'[t].poll[s].request = r
  BY <1>1, <1>4 DEF PollMoves, TabState, T!Poll
<1>5. CASE T!Tick(t, s)
  <2>1. PollMoves(t, s) /\ tab'[t].poll[s].request = "asked" /\ misrouted' = misrouted
    BY <1>4, <1>5 DEF T!Tick
  <2> QED
    BY <1>1, <1>2, <2>1, PollsTyped, PollMovesKeeps DEF PollTruthful
<1>6. CASE T!Lapse(t, s)
  <2>1. tab' = [tab EXCEPT ![t].poll[s].state = "lapsed"]
    BY <1>6 DEF T!Lapse
  <2>2. /\ tab' \in [Tabs -> TabState] /\ tab'[t].swaps = tab[t].swaps
        /\ tab'[t].poll[s].request = tab[t].poll[s].request
        /\ \A x \in Swaps \ {s} : tab'[t].poll[x] = tab[t].poll[x]
        /\ \A u \in Tabs \ {t} : tab'[u] = tab[u]
    BY <1>1, <2>1 DEF TabState, T!Poll
  <2>3. PollMoves(t, s) /\ misrouted' = misrouted
    BY <1>6, <2>2 DEF T!Lapse, PollMoves
  <2> QED
    BY <1>1, <1>2, <1>3, <2>2, <2>3, PollMovesKeeps DEF PollTruthful, PollFits
<1>7. CASE T!ServeStatus(t, s)
  <2> DEFINE says == IF swapStatus[s] \in T!Final(s) THEN {swapStatus[s]} ELSE T!MayHold(s)
  <2>5. PICK st \in says : tab' = [tab EXCEPT ![t].poll[s].request = T!PublicStatus(st)]
    BY <1>7 DEF T!ServeStatus
  <2>6. st \in T!SwapStatus /\ (T!IsTerminal(st, MCDirection[s]) => st \in Ends(s))
    <3>1. CASE swapStatus[s] \in T!Final(s)
      BY <1>3, <3>1 DEF TrackingInv, StatusFits
    <3>2. CASE swapStatus[s] \notin T!Final(s)
      <4>1. end \in [Swaps -> T!SwapStatus \cup {T!NoStatus}]
        BY TrackingTyped DEF TrackingInv
      <4>2. st \in T!MayHold(s)
        BY <3>2
      <4> QED
        BY <4>1, <4>2, StatusesTyped, MayHoldFits
    <3> QED
      BY <3>1, <3>2
  <2> DEFINE r == T!PublicStatus(st)
  <2> HIDE DEF says
  <2>1. r \in T!SwapStatus
    BY <2>6 DEF T!PublicStatus, T!SwapStatus
  <2>2. r # "not found" /\ (T!IsTerminalStatus(r, MCDirection[s]) => r \in Ends(s))
    <3>1. r = st \/ ~T!IsTerminalStatus(r, MCDirection[s])
      BY DEF T!PublicStatus, T!IsTerminalStatus
    <3>2. r # "not found"
      BY <2>1, PollsTyped
    <3> HIDE DEF r
    <3> QED
      BY <2>1, <2>6, <3>1, <3>2, EndsAgree
  <2>3. tab' = [tab EXCEPT ![t].poll[s].request = r]
    BY <2>5
  <2> HIDE DEF r
  <2>4. PollMoves(t, s) /\ tab'[t].poll[s].request = r /\ misrouted' = misrouted
    BY <1>4, <1>7, <2>1, <2>3 DEF T!ServeStatus, T!Answers
  <2> QED
    BY <1>1, <1>2, <2>2, <2>4, PollMovesKeeps DEF PollTruthful
<1>8. CASE T!RequestFails(t, s)
  <2>1. PollMoves(t, s) /\ tab'[t].poll[s].request = "error" /\ misrouted' = misrouted
    BY <1>4, <1>8 DEF T!RequestFails, T!Answers
  <2> QED
    BY <1>1, <1>2, <2>1, PollsTyped, PollMovesKeeps DEF PollTruthful
<1>9. CASE T!Misroute(t, s)
  <2>1. PollMoves(t, s) /\ tab'[t].poll[s].request = "not found"
        /\ misrouted' = misrouted \cup {s}
    BY <1>4, <1>9 DEF T!Misroute, T!Answers
  <2> QED
    BY <1>1, <1>2, <2>1, PollsTyped, PollMovesKeeps DEF PollTruthful
<1> QED
  BY <1>5, <1>6, <1>7, <1>8, <1>9

LEMMA ErrorKeeps ==
  ASSUME TrackingInv, NEW t \in Tabs, NEW s \in Swaps, T!HandleError(t, s)
  PROVE  TrackingInv'
<1> DEFINE polls == T!IncrementErrors(tab[t].poll, s)
<1>1. /\ tab \in [Tabs -> TabState] /\ tab[t].poll \in [Swaps -> T!Poll]
      /\ misrouted \subseteq Swaps
  BY TrackingTyped DEF TrackingInv, TabState
<1>2. tab[t].poll[s].request = "error"
  BY DEF T!HandleError
<1>3. /\ polls \in [Swaps -> T!Poll] /\ \A x \in Swaps \ {s} : polls[x] = tab[t].poll[x]
      /\ polls[s].request = "none"
  <2>1. CASE tab[t].poll[s].consecutiveErrors + 1 >= MAX_CONSECUTIVE_ERRORS
    BY <1>1, <2>1, PollsTyped DEF T!IncrementErrors, T!StopPolling
  <2>2. CASE ~(tab[t].poll[s].consecutiveErrors + 1 >= MAX_CONSECUTIVE_ERRORS)
    <3> DEFINE n == [tab[t].poll[s] EXCEPT !.consecutiveErrors = @ + 1, !.request = "none"]
    <3>1. MAX_CONSECUTIVE_ERRORS \in Nat \ {0}
      BY OutcomesAssumption DEF OutcomesAssumption, T!TrackingAssumption
    <3>2. n \in T!Poll /\ n.request = "none"
      <4>1. tab[t].poll[s] \in T!Poll
        BY <1>1
      <4>2. tab[t].poll[s].consecutiveErrors + 1 \in 0 .. MAX_CONSECUTIVE_ERRORS - 1
        BY <4>1, <2>2, <3>1 DEF T!Poll
      <4> QED
        BY <4>1, <4>2 DEF T!Poll
    <3>3. polls = [tab[t].poll EXCEPT ![s] = n]
      BY <1>1, <2>2 DEF T!IncrementErrors
    <3> HIDE DEF n
    <3> QED
      BY <1>1, <3>2, <3>3
  <2> QED
    BY <2>1, <2>2
<1>4. /\ tab' = [tab EXCEPT ![t].poll = polls]
      /\ SameLifecycle /\ age' = age /\ disk' = disk /\ told' = told
      /\ misrouted' = misrouted
  BY DEF T!HandleError
<1> HIDE DEF polls
<1>5. PollMoves(t, s) /\ tab'[t].poll[s].request = "none"
  BY <1>1, <1>3, <1>4 DEF PollMoves, TabState
<1>6. tab[t].poll[s] # T!NoPoll
  BY <1>2, PollsTyped
<1> QED
  BY <1>1, <1>4, <1>5, <1>6, PollsTyped, PollMovesKeeps DEF PollTruthful

\* An answer is stored, and told if it ends a swap that was not over.
LEMMA HandleStatusKeeps ==
  ASSUME TrackingInv, NEW t \in Tabs, NEW s \in Swaps, T!HandleStatus(t, s)
  PROVE  TrackingInv'
<1> DEFINE st == tab[t].poll[s].request
<1> DEFINE stored == T!Find(tab[t].swaps, s)
<1> DEFINE updated == T!UpdateSwapStatus(tab[t].swaps, s, st)
<1> DEFINE reset == T!ResetErrors(tab[t].poll, s)
<1> DEFINE polls == IF T!IsTerminalStatus(st, MCDirection[s]) THEN T!StopPolling(reset, s) ELSE reset
<1>1. /\ tab \in [Tabs -> TabState] /\ tab[t].poll \in [Swaps -> T!Poll]
      /\ tab[t].swaps \in Seq(T!StoredSwap) /\ told \in [Tabs -> [Swaps -> Told]]
  BY TrackingTyped DEF TrackingInv, TabState
<1>2. st \in T!SwapStatus
  BY DEF T!HandleStatus
<1>3. tab[t].poll[s] # T!NoPoll /\ PollFits(t, s)
  BY <1>2, PollsTyped DEF TrackingInv
<1>4. T!IsTerminalStatus(st, MCDirection[s]) => st \in Ends(s)
  BY <1>2, <1>3 DEF PollFits, PollTruthful
<1>5. reset \in [Swaps -> T!Poll] /\ reset[s].request = "none"
      /\ \A x \in Swaps \ {s} : reset[x] = tab[t].poll[x]
  <2> DEFINE n == [tab[t].poll[s] EXCEPT !.consecutiveErrors = 0, !.request = "none"]
  <2>1. MAX_CONSECUTIVE_ERRORS \in Nat \ {0}
    BY OutcomesAssumption DEF OutcomesAssumption, T!TrackingAssumption
  <2>2. tab[t].poll[s] \in T!Poll /\ 0 \in 0 .. MAX_CONSECUTIVE_ERRORS - 1
    BY <1>1, <2>1
  <2>3. n \in T!Poll /\ n.request = "none"
    BY <2>2 DEF T!Poll
  <2>4. reset = [tab[t].poll EXCEPT ![s] = n]
    BY <1>1 DEF T!ResetErrors
  <2> HIDE DEF n
  <2> QED
    BY <1>1, <2>3, <2>4
<1> HIDE DEF reset
<1>6. /\ polls \in [Swaps -> T!Poll] /\ polls[s].request = "none"
      /\ \A x \in Swaps \ {s} : polls[x] = tab[t].poll[x]
      /\ T!IsTerminalStatus(st, MCDirection[s]) => polls[s] = T!NoPoll
  BY <1>5, PollsTyped DEF T!StopPolling
<1>7. /\ disk' = updated
      /\ tab' = [tab EXCEPT ![t].swaps = updated, ![t].poll = polls]
      /\ SameLifecycle /\ age' = age /\ misrouted' = misrouted
  BY DEF T!HandleStatus, T!PersistToStorage, reset
<1>8. \/ told' = told
      \/ T!Announced(s, st) /\ told' = [told EXCEPT ![t][s][st] = @ + 1]
  BY DEF T!HandleStatus, T!ShowStatusNotification
<1>9. updated \in Seq(T!StoredSwap)
  BY <1>1, <1>2, StatusUpdated
<1> HIDE DEF updated, polls
<1>10. /\ tab' \in [Tabs -> TabState] /\ tab'[t].swaps = updated /\ tab'[t].poll = polls
       /\ \A u \in Tabs \ {t} : tab'[u] = tab[u]
  <2>1. Updated(tab, t, updated, polls, tab')
    BY <1>7 DEF Updated
  <2>2. UpdatedOk(tab, t, updated, polls, tab')
    BY <1>1, <1>6, <1>9, <2>1, TabUpdated
  <2> QED
    BY <2>2 DEF UpdatedOk
<1>11. T!Announced(s, st) => st \in T!TerminalStatus /\ tab'[t].poll[s] = T!NoPoll
  BY <1>2, <1>6, <1>10, EndsAgree
<1>12. told' \in [Tabs -> [Swaps -> Told]]
  <2>1. CASE told' = told
    BY <2>1, <1>1
  <2>2. CASE T!Announced(s, st) /\ told' = [told EXCEPT ![t][s][st] = @ + 1]
    <3> DEFINE n == [told[t][s] EXCEPT ![st] = @ + 1]
    <3>1. told[t][s] \in Told
      BY <1>1
    <3>2. n \in Told
      <4>1. st \in T!TerminalStatus
        BY <1>11, <2>2
      <4> HIDE DEF st
      <4> QED
        BY <3>1, <4>1 DEF Told
    <3>3. told' = [told EXCEPT ![t] = [told[t] EXCEPT ![s] = n]]
      BY <2>2
    <3> HIDE DEF n
    <3> QED
      BY <1>1, <3>2, <3>3
  <2> QED
    BY <1>8, <2>1, <2>2
<1>13. StatusStored(t, s, st)
  BY <1>6, <1>7, <1>10, <1>12 DEF StatusStored, updated
<1> HIDE DEF st
<1> QED
  BY <1>2, <1>3, <1>4, <1>8, <1>11, <1>13, StatusStoredKeeps

\* A swap that is not found is stored as lost, and not told.
LEMMA HandleNotFoundKeeps ==
  ASSUME TrackingInv, NEW t \in Tabs, NEW s \in Swaps, T!HandleNotFound(t, s)
  PROVE  TrackingInv'
<1> DEFINE updated == T!UpdateSwapStatus(tab[t].swaps, s, "lost")
<1> DEFINE polls == T!StopPolling(tab[t].poll, s)
<1>1. /\ tab \in [Tabs -> TabState] /\ tab[t].poll \in [Swaps -> T!Poll]
      /\ tab[t].swaps \in Seq(T!StoredSwap) /\ told \in [Tabs -> [Swaps -> Told]]
  BY TrackingTyped DEF TrackingInv, TabState
<1>2. tab[t].poll[s].request = "not found"
  BY DEF T!HandleNotFound
<1>3. tab[t].poll[s] # T!NoPoll /\ s \in misrouted
  BY <1>2, PollsTyped DEF TrackingInv, PollFits, PollTruthful
<1>4. "lost" \in T!SwapStatus
  BY DEF T!SwapStatus
<1>5. /\ polls \in [Swaps -> T!Poll] /\ polls[s] = T!NoPoll
      /\ \A x \in Swaps \ {s} : polls[x] = tab[t].poll[x]
  BY <1>1, PollsTyped DEF T!StopPolling
<1>6. /\ disk' = updated
      /\ tab' = [tab EXCEPT ![t].swaps = updated, ![t].poll = polls]
      /\ SameLifecycle /\ age' = age /\ misrouted' = misrouted /\ told' = told
  BY DEF T!HandleNotFound, T!PersistToStorage
<1>7. updated \in Seq(T!StoredSwap)
  BY <1>1, <1>4, StatusUpdated
<1> HIDE DEF updated, polls
<1>8. /\ tab' \in [Tabs -> TabState] /\ tab'[t].swaps = updated /\ tab'[t].poll = polls
      /\ \A u \in Tabs \ {t} : tab'[u] = tab[u]
  <2>1. Updated(tab, t, updated, polls, tab')
    BY <1>6 DEF Updated
  <2>2. UpdatedOk(tab, t, updated, polls, tab')
    BY <1>1, <1>5, <1>7, <2>1, TabUpdated
  <2> QED
    BY <2>2 DEF UpdatedOk
<1>9. StatusStored(t, s, "lost")
  BY <1>1, <1>5, <1>6, <1>8, PollsTyped DEF StatusStored, updated
<1> QED
  BY <1>3, <1>4, <1>6, <1>9, StatusStoredKeeps

\* The ages of the swaps are nobody's business but the clock's.
LEMMA SameTabsKeep ==
  ASSUME TrackingInv, SameLifecycle, disk' = disk, tab' = tab, told' = told,
         misrouted' = misrouted, age' \in [Swaps -> T!Ages]
  PROVE  TrackingInv'
<1> USE DEF TrackingInv
<1>1. T!TypeOK'
  BY DEF T!TypeOK
<1>2. Truthful(disk)' /\ \A t \in Tabs : Truthful(tab[t].swaps)'
  BY SameEnds DEF Truthful, TruthfulEntry, T!Ended
<1>3. \A t \in Tabs, s \in Swaps : PollFits(t, s)'
  BY SameEnds DEF PollFits, PollTruthful
<1>4. OneTab => \A t \in Tabs, s \in Swaps : ToldFits(t, s)'
  BY DEF ToldFits, OverForTab, Settled, T!Ended
<1> QED
  BY <1>1, <1>2, <1>3, <1>4, SameEnds DEF OneTab

LEMMA GrowOlderKeeps ==
  ASSUME TrackingInv, NEW s \in Swaps, T!GrowOlder(s)
  PROVE  TrackingInv'
<1>1. SameLifecycle /\ disk' = disk /\ tab' = tab /\ told' = told
      /\ misrouted' = misrouted
  BY DEF T!GrowOlder
<1>2. age' \in [Swaps -> T!Ages]
  BY DEF TrackingInv, T!TypeOK, T!GrowOlder, T!Ages
<1> QED
  BY <1>1, <1>2, SameTabsKeep

LEMMA TrackingNext ==
  ASSUME TrackingInv, T!TrackingNext \/ UNCHANGED tracking
  PROVE  TrackingInv'
<1>1. CASE UNCHANGED tracking
  <2>1. age' \in [Swaps -> T!Ages]
    BY <1>1 DEF tracking, TrackingInv, T!TypeOK
  <2> QED
    BY <1>1, <2>1, SameTabsKeep DEF tracking
<1>2. CASE T!TrackingNext
  BY <1>2, StatusMovesKeeps, GrowOlderKeeps, StartServicesKeeps, TabReloadKeeps, ShowKeeps,
     HandleSuccessKeeps, RequestKeeps, HandleStatusKeeps, HandleNotFoundKeeps, ErrorKeeps
     DEF T!TrackingNext
<1> QED
  BY <1>1, <1>2

\* Of every run of the tabs, with any number of tabs and swaps, whose rows may
\* be taken back by an older status: their state keeps its types, what they
\* store of an ended swap is how Atomiq ended it or "lost", and what a single tab
\* has told is over for it.
THEOREM TrackingHolds == TrackingSpec => []TrackingInv
<1>1. OutcomesInit => TrackingInv
  BY TrackingInit DEF OutcomesInit
<1>2. TrackingInv /\ [OutcomesNext]_outcomes => TrackingInv'
  BY TrackingNext
     DEF OutcomesNext, outcomes, FollowGateway, FollowTracking, FollowSetup, FollowHistory
<1>3. OutcomesInit /\ [][OutcomesNext]_outcomes => []TrackingInv
  BY <1>1, <1>2, PTL
<1> QED
  BY <1>3, PTL DEF TrackingSpec

\* What a tab, or the disk, has for the end of a swap is how Atomiq has ended it
\* for good, unless the SDK has forgotten it or something else said that it does
\* not exist: with any number of tabs that overwrite one another's list, whatever
\* is late, and although the API may take a final status back.
THEOREM FinalAlwaysTrue == TrackingSpec => []FinalIsTrue
<1>1. TrackingInv => FinalIsTrue
  <2> SUFFICES ASSUME TrackingInv, NEW t \in Tabs, NEW s \in Swaps,
                      NEW st \in T!Known(tab[t].swaps, s) \cup T!Known(disk, s),
                      T!IsTerminalStatus(st, MCDirection[s])
               PROVE  st = end[s] \/ (st = "lost" /\ (forgotten[s] \/ s \in misrouted))
    BY DEF FinalIsTrue, T!FinalIsTrue
  <2>1. tab[t].swaps \in Seq(T!StoredSwap) /\ disk \in Seq(T!StoredSwap)
    BY TrackingTyped DEF TrackingInv, TabState
  <2>2. \/ \E i \in DOMAIN tab[t].swaps :
             tab[t].swaps[i].id = s /\ tab[t].swaps[i].lastKnownStatus = st
        \/ \E i \in DOMAIN disk : disk[i].id = s /\ disk[i].lastKnownStatus = st
    BY <2>1, FoundIsStored
  <2>3. PICK e : TruthfulEntry(e) /\ e.id = s /\ e.lastKnownStatus = st
    BY <2>2 DEF TrackingInv, Truthful
  <2> QED
    BY <2>3 DEF TruthfulEntry, Ends, T!Ended
<1> QED
  BY <1>1, TrackingHolds, PTL

\* With one tab, the end of a swap is announced once: reloads, lapsed polls,
\* errors and late answers do not announce it again.
THEOREM EndAlwaysToldOnce == TrackingSpec => []EndIsToldOnce
<1>1. TrackingInv => EndIsToldOnce
  <2> SUFFICES ASSUME TrackingInv, T!Cardinality(Tabs) = 1, NEW t \in Tabs, NEW s \in Swaps,
                      NEW st \in T!TerminalStatus
               PROVE  /\ told[t][s][st] <= 1
                      /\ told[t][s][st] = 1 =>
                           \A other \in T!TerminalStatus \ {st} : told[t][s][other] = 0
    BY DEF EndIsToldOnce, T!EndIsToldOnce
  <2>1. IsFiniteSet(Tabs)
    BY OutcomesAssumption
       DEF OutcomesAssumption, T!TrackingAssumption, T!IsFiniteSet, IsFiniteSet
  <2>2. Cardinality(Tabs) = 1
    BY DEF T!Cardinality, Cardinality
  <2>3. OneTab
    BY <2>1, <2>2, FS_Singleton DEF OneTab
  <2>4. ToldFits(t, s)
    BY <2>3 DEF TrackingInv
  <2>5. CASE NothingTold(told[t][s])
    BY <2>5 DEF NothingTold
  <2>6. CASE ToldOnce(told[t][s])
    BY <2>6 DEF ToldOnce
  <2> QED
    BY <2>4, <2>5, <2>6 DEF ToldFits
<1> QED
  BY <1>1, TrackingHolds, PTL
=============================================================================
