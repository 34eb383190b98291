------------------------------ MODULE Receive ------------------------------
(***************************************************************************)
(* Receiving: the page with its three networks, the root service that asks *)
(* for an invoice, and the API that serves a Starknet address, a Lightning *)
(* invoice, or a Bitcoin address once the user has signed the commit of an *)
(* escrow.  The user edits, slides, leaves and reloads while an answer is  *)
(* awaited.  Payments has the build cache and SwapTracking the polls.      *)
(***************************************************************************)
EXTENDS Integers, FiniteSets

CONSTANTS MaxAsks,    \* bound: invoices asked for
          NoInvoice

VARIABLES
  onPage,                \* ReceivePage is on screen, with
  network, amount, useUriPrefix, qr,
  sliding,               \* the network that animateTo slides to, or none
  isLoading, invoice,    \* ReceiveService
  ask,                   \* the invoices asked for
  row,                   \* bim_swaps: the row of each
  tracked,               \* those in the storage of the browser, and polled
  touched                \* history: the inputs are not those of the last ask

page == <<onPage, network, amount, useUriPrefix, qr, sliding>>
receiveService == <<isLoading, invoice>>
vars == <<page, receiveService, ask, row, tracked, touched>>

Asks == 1 .. MaxAsks
Networks == {"starknet", "lightning", "bitcoin"}

\* The amounts that may be typed, in tenths of a satoshi, and Math.round.
Typed == {0, 4, 10}
Rounded(tenths) == (tenths + 5) \div 10

Data == [id : Asks, network : Networks, sats : {0, 1}, prefix : BOOLEAN]

ReceiveAssumption == MaxAsks \in Nat /\ NoInvoice \notin Data

\* heard: the browser awaits the answer.
Ask == [pc : {"none", "sent", "quoted", "pending_commit", "signed", "submitted",
              "confirmed", "recorded", "answered", "failed", "done"},
        data : Data \cup {NoInvoice}, heard : BOOLEAN,
        commit : {"none", "succeeded", "reverted"}]

NoAsk == [pc |-> "none", data |-> NoInvoice, heard |-> FALSE, commit |-> "none"]

TypeOK ==
  /\ onPage \in BOOLEAN /\ network \in Networks /\ amount \in Typed
  /\ useUriPrefix \in BOOLEAN /\ qr \in Data \cup {NoInvoice}
  /\ sliding \in Networks \cup {"none"}
  /\ isLoading \in BOOLEAN /\ invoice \in Data \cup {NoInvoice}
  /\ ask \in [Asks -> Ask]
  /\ row \in [Asks -> {"none", "pending", "committed", "paid"}]
  /\ tracked \in SUBSET Asks
  /\ touched \in BOOLEAN

EmptyPage ==
  /\ network = "starknet" /\ amount = 0 /\ useUriPrefix = TRUE /\ qr = NoInvoice /\ sliding = "none"

Closed ==
  /\ onPage = FALSE /\ EmptyPage
  /\ isLoading = FALSE /\ invoice = NoInvoice
  /\ ask = [i \in Asks |-> NoAsk]
  /\ row = [i \in Asks |-> "none"] /\ tracked = {}
  /\ touched = FALSE

Init ==
  /\ onPage = TRUE /\ EmptyPage
  /\ isLoading = FALSE /\ invoice = NoInvoice
  /\ ask = [i \in Asks |-> NoAsk]
  /\ row = [i \in Asks |-> "none"] /\ tracked = {}
  /\ touched = FALSE

\* Nobody awaits the invoice any more, on either side.
Ended(a) == [a EXCEPT !.pc = "done", !.data = NoInvoice, !.heard = FALSE]

\* Where the next step is the browser's.
Returned == {"pending_commit", "answered", "failed"}

Goes(i, pc) ==
  ask' = [ask EXCEPT ![i] = IF @.heard \/ pc \notin Returned THEN [@ EXCEPT !.pc = pc]
                            ELSE Ended(@)]

\* The browser stops waiting; the API goes on with what it serves.
Abandoned(a) == IF a.pc \in Returned THEN Ended(a) ELSE [a EXCEPT !.heard = FALSE]

-----------------------------------------------------------------------------
(* receive.page.ts.                                                        *)

\* The first effect: the amount, the network or the prefix was set.
ClearQr == qr' = NoInvoice /\ touched' = isLoading

\* Faulty: the effect does not follow the amount.
ChangeAmountOnly(a) ==
  /\ onPage /\ amount' = a
  /\ UNCHANGED <<onPage, network, useUriPrefix, qr, sliding, receiveService, ask, row,
                 tracked, touched>>

ChangeAmount(a) ==
  /\ onPage /\ amount' = a /\ ClearQr
  /\ UNCHANGED <<onPage, network, useUriPrefix, sliding, receiveService, ask, row, tracked>>

\* The checkbox is there for Starknet and Bitcoin.
TogglePrefix ==
  /\ onPage /\ network # "lightning"
  /\ useUriPrefix' = ~useUriPrefix /\ ClearQr
  /\ UNCHANGED <<onPage, network, amount, sliding, receiveService, ask, row, tracked>>

\* By a dot or by a swipe.  An invoice is forgotten with its amount; one that
\* is awaited is not.
AnimateTo(to) ==
  /\ onPage /\ sliding = "none" /\ to # network
  /\ sliding' = to
  /\ IF invoice # NoInvoice
     THEN amount' = 0 /\ ClearQr /\ invoice' = NoInvoice /\ isLoading' = FALSE
     ELSE UNCHANGED <<amount, qr, touched, receiveService>>
  /\ UNCHANGED <<onPage, network, useUriPrefix, ask, row, tracked>>

SlideEnds ==
  /\ sliding # "none"
  /\ network' = sliding /\ sliding' = "none" /\ ClearQr
  /\ UNCHANGED <<onPage, amount, useUriPrefix, receiveService, ask, row, tracked>>

ShowCreateInvoice == qr = NoInvoice /\ amount > 0

CreateInvoice(i) ==
  /\ onPage /\ ShowCreateInvoice /\ ~isLoading
  /\ ask[i].pc = "none" /\ \A j \in Asks : j < i => ask[j].pc # "none"
  /\ isLoading' = TRUE /\ invoice' = NoInvoice
  /\ ask' = [ask EXCEPT ![i] =
               [pc |-> "sent", heard |-> TRUE, commit |-> "none",
                data |-> [id |-> i, network |-> network, sats |-> Rounded(amount),
                          prefix |-> useUriPrefix]]]
  /\ touched' = FALSE
  /\ UNCHANGED <<page, row, tracked>>

Leave ==
  /\ onPage /\ onPage' = FALSE
  /\ network' = "starknet" /\ amount' = 0 /\ useUriPrefix' = TRUE /\ qr' = NoInvoice /\ sliding' = "none"
  /\ touched' = (isLoading \/ invoice # NoInvoice)
  /\ UNCHANGED <<receiveService, ask, row, tracked>>

\* A new page; its second effect shows the invoice of an earlier visit.
Open ==
  /\ ~onPage /\ onPage' = TRUE
  /\ qr' = invoice
  /\ UNCHANGED <<network, amount, useUriPrefix, sliding, receiveService, ask, row, tracked,
                 touched>>

\* The browser forgets all but its storage.
Reload ==
  /\ onPage' = FALSE
  /\ network' = "starknet" /\ amount' = 0 /\ useUriPrefix' = TRUE /\ qr' = NoInvoice /\ sliding' = "none"
  /\ isLoading' = FALSE /\ invoice' = NoInvoice /\ touched' = FALSE
  /\ ask' = [i \in Asks |-> Abandoned(ask[i])]
  /\ UNCHANGED <<row, tracked>>

-----------------------------------------------------------------------------
(* receive.service.ts: the answers.                                        *)

HeardAt(i, pc) == ask[i].heard /\ ask[i].pc = pc

StopsLoading ==
  /\ isLoading' = FALSE /\ touched' = FALSE
  /\ UNCHANGED <<page, invoice, row, tracked>>

\* The user signs the commit, which is posted.
SignCommit(i) ==
  /\ HeardAt(i, "pending_commit")
  /\ Goes(i, "signed")
  /\ UNCHANGED <<page, receiveService, row, tracked, touched>>

\* The prompt is refused or times out.
CancelCommit(i) ==
  /\ HeardAt(i, "pending_commit")
  /\ StopsLoading /\ ask' = [ask EXCEPT ![i] = Ended(@)]

\* handleReceiveSuccess.  The second effect of a page on screen shows the
\* invoice, whatever the page is about by then.
HandleReceiveSuccess(i) ==
  /\ HeardAt(i, "answered")
  /\ invoice' = ask[i].data /\ isLoading' = FALSE
  /\ qr' = IF onPage THEN ask[i].data ELSE qr
  /\ tracked' = IF ask[i].data.network = "starknet" THEN tracked ELSE tracked \cup {i}
  /\ ask' = [ask EXCEPT ![i] = Ended(@)]
  /\ UNCHANGED <<onPage, network, amount, useUriPrefix, sliding, row, touched>>

HandleError(i) ==
  /\ HeardAt(i, "failed")
  /\ StopsLoading /\ ask' = [ask EXCEPT ![i] = Ended(@)]

\* The answer is lost, and what the API does goes on.
LoseAnswer(i) ==
  /\ ask[i].heard /\ ask[i].pc \notin {"pending_commit", "failed"}
  /\ StopsLoading /\ ask' = [ask EXCEPT ![i] = Abandoned(@)]

-----------------------------------------------------------------------------
(* POST /receive.                                                          *)

ServedAt(i, networks, pc) == ask[i].pc = pc /\ ask[i].data.network \in networks

\* Only a Starknet receive needs no amount.
ReceiveStarknet(i) ==
  /\ ServedAt(i, {"starknet"}, "sent")
  /\ Goes(i, "answered")
  /\ UNCHANGED <<page, receiveService, row, tracked, touched>>

\* Within the limits of Atomiq, which quotes.
Quote(i) ==
  /\ ServedAt(i, {"lightning", "bitcoin"}, "sent") /\ ask[i].data.sats > 0
  /\ Goes(i, "quoted")
  /\ UNCHANGED <<page, receiveService, row, tracked, touched>>

\* Faulty: the invoice is answered, and the swap left unsaved.
AnswerUnsaved(i) ==
  /\ ServedAt(i, {"lightning"}, "quoted")
  /\ Goes(i, "answered")
  /\ UNCHANGED <<page, receiveService, row, tracked, touched>>

CreateLightningToStarknet(i) ==
  /\ ServedAt(i, {"lightning"}, "quoted")
  /\ row' = [row EXCEPT ![i] = "pending"]
  /\ Goes(i, "answered")
  /\ UNCHANGED <<page, receiveService, tracked, touched>>

\* The account can pay the deposit in STRK, or buy what it lacks with WBTC.
PrepareCommit(i) ==
  /\ ServedAt(i, {"bitcoin"}, "quoted")
  /\ Goes(i, "pending_commit")
  /\ UNCHANGED <<page, receiveService, row, tracked, touched>>

-----------------------------------------------------------------------------
(* POST /receive/commit.                                                   *)

ExecuteSignedCalls(i) ==
  /\ ServedAt(i, {"bitcoin"}, "signed")
  /\ Goes(i, "submitted")
  /\ UNCHANGED <<page, receiveService, row, tracked, touched>>

\* waitForTransaction, which returns for a reverted transaction as well: the
\* funds may be gone since the build was prepared.
ConfirmCommit(i) ==
  /\ ServedAt(i, {"bitcoin"}, "submitted")
  /\ \E result \in {"succeeded", "reverted"} :
       ask' = [ask EXCEPT ![i].pc = "confirmed", ![i].commit = result]
  /\ UNCHANGED <<page, receiveService, row, tracked, touched>>

SaveBitcoinCommit(i) ==
  /\ ServedAt(i, {"bitcoin"}, "confirmed")
  /\ row' = [row EXCEPT ![i] = "committed"]
  /\ Goes(i, "recorded")
  /\ UNCHANGED <<page, receiveService, tracked, touched>>

\* Atomiq has seen the commit and gives the address of the deposit.
CompleteBitcoinToStarknet(i) ==
  /\ ServedAt(i, {"bitcoin"}, "recorded") /\ ask[i].commit = "succeeded"
  /\ row' = [row EXCEPT ![i] = "paid"]
  /\ Goes(i, "answered")
  /\ UNCHANGED <<page, receiveService, tracked, touched>>

\* Any of the calls fails, or is refused: what was saved stays.
RequestFails(i) ==
  /\ ask[i].pc \in {"sent", "quoted", "signed", "submitted", "confirmed", "recorded"}
  /\ Goes(i, "failed")
  /\ UNCHANGED <<page, receiveService, row, tracked, touched>>

Serve(i) ==
  \/ ReceiveStarknet(i) \/ Quote(i) \/ CreateLightningToStarknet(i) \/ PrepareCommit(i)
  \/ ExecuteSignedCalls(i) \/ ConfirmCommit(i) \/ SaveBitcoinCommit(i)
  \/ CompleteBitcoinToStarknet(i) \/ RequestFails(i)

Hear(i) == SignCommit(i) \/ CancelCommit(i) \/ HandleReceiveSuccess(i) \/ HandleError(i)

Next ==
  \/ \E a \in Typed : ChangeAmount(a)
  \/ TogglePrefix \/ SlideEnds \/ Leave \/ Open \/ Reload
  \/ \E to \in Networks : AnimateTo(to)
  \/ \E i \in Asks : CreateInvoice(i) \/ Serve(i) \/ Hear(i) \/ LoseAnswer(i)

Spec == Init /\ [][Next]_vars

-----------------------------------------------------------------------------
\* An invoice or a deposit address is on screen only once its swap is in the
\* database, with its escrow funded for Bitcoin, and in the storage of the
\* browser: a payment of it is followed by the monitor and by the page.
ShownIsTracked ==
  qr # NoInvoice /\ qr.network # "starknet" =>
    /\ qr.id \in tracked
    /\ row[qr.id] = IF qr.network = "lightning" THEN "pending" ELSE "paid"
    /\ qr.network = "bitcoin" => ask[qr.id].commit = "succeeded"

\* What is scanned is the invoice the service holds, and that of the network,
\* the amount and the prefix on screen, unless the user has changed these
\* while it was awaited or has come back to the page.
QrIsForPage ==
  qr # NoInvoice =>
    /\ qr = invoice
    /\ ~touched => /\ qr.network = network /\ qr.sats = Rounded(amount)
                   /\ qr.prefix = useUriPrefix

=============================================================================
