------------------------------ MODULE Settings ------------------------------
(***************************************************************************)
(* The preferences of a user: the page that loads and changes them, other  *)
(* tabs and devices that do the same, and the API, whose requests read the *)
(* whole row and later write it back.                                      *)
(***************************************************************************)
EXTENDS Sequences, Naturals

CONSTANTS MaxJobs,      \* bound: requests under way at once
          BrowserLang,
          NoRow

VARIABLES
  settings,                    \* the row of the account, if there is one
  currentLang, currentFiat,    \* I18nService, and what the page computes
  boot,                        \* what a page still loads
  loadingLangs,                \* applyLang: translations under way
  job,                         \* the requests
  diverged                     \* history: the page need not show the row

page == <<currentLang, currentFiat, boot, loadingLangs>>
vars == <<settings, page, job, diverged>>

Jobs == 1 .. MaxJobs
Language == {"en", "fr"}
Fiat == {"USD", "EUR"}

Row == [language : Language, preferred : {<<"USD">>, <<"EUR">>, <<"EUR", "USD">>}, default : Fiat]

SettingsAssumption == MaxJobs \in Nat /\ BrowserLang \in Language /\ NoRow \notin Row

\* UserSettings.create.
Created == [language |-> "en", preferred |-> <<"USD">>, default |-> "USD"]

\* The bodies of PUT: those of the page, and those the API takes as well.
LanguageBody(l) == [language |-> l]
FiatBody(f) == [preferred |-> <<f>>, default |-> f]
OtherBodies ==
  {LanguageBody(l) : l \in Language} \cup {FiatBody(f) : f \in Fiat}
    \cup {[preferred |-> <<"EUR", "USD">>]} \cup {[default |-> f] : f \in Fiat}

NoBody == [get |-> TRUE]

\* entity: the row as the request has read it, or created.
Job == [op : {"none", "get", "put"}, page : BOOLEAN, body : OtherBodies \cup {NoBody},
        pc : {"sent", "found", "answered", "failed"}, fresh : BOOLEAN, entity : Row]

NoJob == [op |-> "none", page |-> FALSE, body |-> NoBody, pc |-> "sent",
          fresh |-> FALSE, entity |-> Created]

TypeOK ==
  /\ settings \in Row \cup {NoRow}
  /\ currentLang \in Language /\ currentFiat \in Fiat
  /\ boot \in {"language", "currency", "done"} /\ loadingLangs \in SUBSET Language
  /\ job \in [Jobs -> Job] /\ diverged \in BOOLEAN

Sent(op, byPage, body) == [NoJob EXCEPT !.op = op, !.page = byPage, !.body = body]

\* The first preferred currency besides BTC and SAT.
CurrentFiat(row) == Head(row.preferred)

Updating == loadingLangs # {} \/ \E j \in Jobs : job[j].op = "put"

\* Signed in, the language comes first; signed up, it stays the browser's.
Init ==
  /\ settings \in {NoRow, Created}
  /\ currentFiat = "USD" /\ loadingLangs = {}
  /\ \/ boot = "language" /\ currentLang = "en" /\ diverged = FALSE
     \/ boot = "currency" /\ currentLang = BrowserLang /\ diverged = TRUE
  /\ job = [j \in Jobs |-> IF j = 1 THEN Sent("get", TRUE, NoBody) ELSE NoJob]

Closed ==
  /\ settings = NoRow /\ currentFiat = "USD" /\ loadingLangs = {}
  /\ boot = "language" /\ currentLang = "en" /\ diverged = FALSE
  /\ job = [j \in Jobs |-> NoJob]

-----------------------------------------------------------------------------
(* i18n.service.ts, currency.service.ts and settings.page.ts.              *)

Ask(op, byPage, body) ==
  \E j \in Jobs : /\ job[j].op = "none"
                  /\ job' = [job EXCEPT ![j] = Sent(op, byPage, body)]

\* A reload: what the last page has sent goes on.
Load ==
  /\ boot' = "language" /\ currentLang' = "en" /\ currentFiat' = "USD" /\ loadingLangs' = {}
  /\ \E j \in Jobs :
       /\ job[j].op = "none"
       /\ job' = [i \in Jobs |-> IF i = j THEN Sent("get", TRUE, NoBody)
                                 ELSE [job[i] EXCEPT !.page = FALSE]]
  /\ diverged' = \E j \in Jobs : job[j].op = "put"
  /\ UNCHANGED settings

Heard(j, op) == job[j].page /\ job[j].op = op /\ job[j].pc \in {"answered", "failed"}

\* I18nService.init, then CurrencyService.init asks the same.
InitLanguage(j) ==
  /\ boot = "language" /\ Heard(j, "get")
  /\ currentLang' = IF job[j].pc = "answered" THEN job[j].entity.language ELSE BrowserLang
  /\ boot' = "currency"
  /\ job' = [job EXCEPT ![j] = Sent("get", TRUE, NoBody)]
  /\ diverged' = (diverged \/ job[j].pc = "failed")
  /\ UNCHANGED <<settings, currentFiat, loadingLangs>>

InitCurrency(j) ==
  /\ boot = "currency" /\ Heard(j, "get")
  /\ currentFiat' = IF job[j].pc = "answered" THEN CurrentFiat(job[j].entity) ELSE currentFiat
  /\ boot' = "done"
  /\ job' = [job EXCEPT ![j] = NoJob]
  /\ diverged' = (diverged \/ job[j].pc = "failed")
  /\ UNCHANGED <<settings, currentLang, loadingLangs>>

\* Two changes under way may end in any order, or undo each other.
SetLang(l) ==
  /\ boot = "done" /\ l \notin loadingLangs
  /\ loadingLangs' = loadingLangs \cup {l}
  /\ diverged' = (diverged \/ Updating)
  /\ UNCHANGED <<settings, currentLang, currentFiat, boot, job>>

ApplyLang(l) ==
  /\ l \in loadingLangs
  /\ loadingLangs' = loadingLangs \ {l} /\ currentLang' = l
  /\ Ask("put", TRUE, LanguageBody(l))
  /\ UNCHANGED <<settings, currentFiat, boot, diverged>>

SetPreferredFiat(f) ==
  /\ boot = "done"
  /\ currentFiat' = f
  /\ Ask("put", TRUE, FiatBody(f))
  /\ diverged' = (diverged \/ Updating)
  /\ UNCHANGED <<settings, currentLang, boot, loadingLangs>>

\* A failure is ignored: the change stays on the page.
HearUpdate(j) ==
  /\ Heard(j, "put")
  /\ job' = [job EXCEPT ![j] = NoJob]
  /\ diverged' = (diverged \/ job[j].pc = "failed")
  /\ UNCHANGED <<settings, page>>

\* Another tab, another device.
OtherReads == Ask("get", FALSE, NoBody) /\ UNCHANGED <<settings, page, diverged>>

OtherUpdates(body) ==
  /\ Ask("put", FALSE, body)
  /\ diverged' = TRUE
  /\ UNCHANGED <<settings, page>>

OtherHears(j) ==
  /\ job[j].op # "none" /\ ~job[j].page /\ job[j].pc \in {"answered", "failed"}
  /\ job' = [job EXCEPT ![j] = NoJob]
  /\ UNCHANGED <<settings, page, diverged>>

-----------------------------------------------------------------------------
(* The API: UserSettingsReader, UserSettingsUpdater, UserSettings.         *)

SetPreferredCurrencies(e, preferred) ==
  [e EXCEPT !.preferred = preferred,
            !.default = IF \E i \in DOMAIN preferred : preferred[i] = @ THEN @ ELSE Head(preferred)]

Has(body, field) == field \in DOMAIN body

\* The body's preferred currencies, then its default one, then its language.
WithPreferred(e, body) ==
  IF Has(body, "preferred") THEN SetPreferredCurrencies(e, body.preferred) ELSE e

\* setDefaultCurrency throws.
Refused(e, body) ==
  Has(body, "default") /\ \A i \in DOMAIN e.preferred : e.preferred[i] # body.default

Updated(e, body) ==
  [e EXCEPT !.default = IF Has(body, "default") THEN body.default ELSE @,
            !.language = IF Has(body, "language") THEN body.language ELSE @]

\* Of a request that is over, only what a page will read is kept.
Over(e, pc) ==
  [Sent(e.op, e.page, NoBody) EXCEPT
     !.pc = pc, !.entity = IF pc = "answered" /\ e.op = "get" THEN e.entity ELSE Created]

Ends(j, pc) == job' = [job EXCEPT ![j] = Over(@, pc)]

\* A read writes the first row.
NeedsWrite(op) == op = "put" \/ settings = NoRow

\* The row is found and its reader answered, or what is to be written is made.
FindByAccountId(j) ==
  /\ job[j].op # "none" /\ job[j].pc = "sent"
  /\ LET found == IF settings = NoRow THEN Created ELSE settings
         e     == WithPreferred(found, job[j].body)
         made  == [job[j] EXCEPT !.fresh = (settings = NoRow), !.pc = "found",
                                 !.entity = Updated(e, job[j].body)]
     IN  job' = [job EXCEPT ![j] = IF ~NeedsWrite(job[j].op)
                                   THEN Over(made, "answered")
                                   ELSE IF Refused(e, job[j].body) THEN Over(made, "failed")
                                   ELSE made]
  /\ UNCHANGED <<settings, page, diverged>>

\* An upsert by id: a row created meanwhile has another, and the account of
\* a row is unique.  The answer arrives, or is lost.
SaveRow(j, new) ==
  /\ job[j].op # "none" /\ job[j].pc = "found"
  /\ IF job[j].fresh /\ settings # NoRow THEN Ends(j, "failed") /\ UNCHANGED settings
     ELSE settings' = new /\ (Ends(j, "answered") \/ Ends(j, "failed"))
  /\ UNCHANGED <<page, diverged>>

\* Faulty: only the fields of the body are written.
SaveChanges(j) ==
  SaveRow(j, IF job[j].fresh THEN job[j].entity
             ELSE [f \in DOMAIN settings |->
                     IF Has(job[j].body, f) THEN job[j].entity[f] ELSE settings[f]])

\* Faulty: a column is missing from the update.
SaveCurrencies(j) ==
  SaveRow(j, IF job[j].fresh THEN job[j].entity
             ELSE [job[j].entity EXCEPT !.language = settings.language])

Save(j) == SaveRow(j, job[j].entity)

RequestFails(j) ==
  /\ job[j].op # "none" /\ job[j].pc \in {"sent", "found"}
  /\ Ends(j, "failed")
  /\ UNCHANGED <<settings, page, diverged>>

Next ==
  \/ Load \/ OtherReads
  \/ \E l \in Language : SetLang(l) \/ ApplyLang(l)
  \/ \E f \in Fiat : SetPreferredFiat(f)
  \/ \E body \in OtherBodies : OtherUpdates(body)
  \/ \E j \in Jobs : \/ InitLanguage(j) \/ InitCurrency(j) \/ HearUpdate(j) \/ OtherHears(j)
                     \/ FindByAccountId(j) \/ Save(j) \/ RequestFails(j)

Spec == Init /\ [][Next]_vars

-----------------------------------------------------------------------------
\* The default currency of a user stays one of those preferred, however the
\* updates of several devices overwrite each other: a write is of a whole row
\* that was consistent when it was read and changed.
DefaultIsPreferred ==
  settings # NoRow =>
    \E i \in DOMAIN settings.preferred : settings.preferred[i] = settings.default

\* When nothing is under way, the row has what the page shows, unless changes
\* overlapped, one failed, another device made one, or the page follows a
\* sign-up, which asks for no language.
SavedIsShown ==
  (boot = "done" /\ ~diverged /\ loadingLangs = {} /\ \A j \in Jobs : job[j].op = "none") =>
    /\ settings # NoRow
    /\ settings.language = currentLang
    /\ CurrentFiat(settings) = currentFiat
=============================================================================
