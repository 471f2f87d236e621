------------------------------ MODULE Catalogue ------------------------------
(***************************************************************************)
(* The bookings made with one vendor, their commission and their vouchers  *)
(* (vendors.service.ts), and one uploaded file of master data              *)
(* (master-data-import.service.ts), which adds vendors to the catalogue.   *)
(***************************************************************************)
EXTENDS Integers, Sequences, FiniteSets, Handling

CONSTANTS
    Rates,          \* commission percentages
    Amounts,        \* prices
    MaxSlips,       \* bound: bookings with the vendor
    MaxVouchers,    \* bound: voucher codes made up
    Drafts,         \* the rows of the file
    BusinessKeys,   \* type, city and name
    KeyOf,          \* those of each row
    MaxStock        \* bound: vendors with one business key

ASSUME CatalogueAssumption ==
    /\ Rates \subseteq Nat /\ 0 \in Rates
    /\ Amounts \subseteq Nat /\ None \notin Nat
    /\ MaxSlips \in Nat /\ MaxVouchers \in Nat /\ MaxStock \in Nat \ {0}
    /\ KeyOf \in [Drafts -> BusinessKeys]

VARIABLES
    vendor,     \* the vendor's row
    rates,      \* history: the percentages the vendor has had
    slip,       \* the vendor's rows of table vendor_bookings
    minted,     \* counts voucher codes; codes are numbers
    vendorCall, \* the request each handler is serving
    stock,      \* how many vendors that are not deleted have each business key
    job,        \* the import
    importCall  \* the upload or commit each handler is serving

vendorVars == <<vendor, rates, slip, minted, vendorCall>>
importVars == <<stock, job, importCall>>
catalogueVars == <<vendorVars, importVars>>

SlipStatus == {"pending", "confirmed", "cancelled"}
\* codes is history: the codes that the row has had.
Slip == [status: SlipStatus, amount: Amounts \cup {None}, commission: Nat \cup {None},
         code: 0 .. MaxVouchers, codes: SUBSET (1 .. MaxVouchers)]
\* A commission is in hundredths of the price's unit.
VendorCall == [step: {"idle", "assign", "update", "voucher"}, row: 0 .. MaxSlips,
               status: SlipStatus \cup {None}, amount: Amounts \cup {None},
               rate: Rates, code: 0 .. MaxVouchers]
NoVendorCall == [step |-> "idle", row |-> 0, status |-> None, amount |-> None,
                 rate |-> 0, code |-> 0]
\* toCreate: the keys that the preview says will be new. History, counted up to two:
\* commits applied and vendors created; whether two commits overlapped; and whether
\* staff changed the catalogue since the upload began.
Job == [status: {"none", "previewed", "committed", "failed"}, toCreate: SUBSET BusinessKeys,
        applied: 0 .. 2, created: [BusinessKeys -> 0 .. 2], overlapped: BOOLEAN,
        drifted: BOOLEAN]
\* left: rows yet to look up; made: the keys of those that match no vendor.
ImportCall == [step: {"idle", "preview", "rows", "failed"}, left: SUBSET Drafts,
               made: SUBSET BusinessKeys]
NoImportCall == [step |-> "idle", left |-> {}, made |-> {}]

CatalogueTypeOK ==
    /\ vendor \in [rate: Rates, deleted: BOOLEAN]
    /\ rates \subseteq Rates
    /\ slip \in Seq(Slip) /\ Len(slip) <= MaxSlips
    /\ minted \in 0 .. MaxVouchers
    /\ vendorCall \in [Handlers -> VendorCall]
    /\ stock \in [BusinessKeys -> 0 .. MaxStock]
    /\ job \in Job
    /\ importCall \in [Handlers -> ImportCall]

VendorsInit ==
    /\ vendor = [rate |-> 0, deleted |-> FALSE]
    /\ rates = {0}
    /\ slip = <<>>
    /\ minted = 0
    /\ vendorCall = [h \in Handlers |-> NoVendorCall]
ImportsInit ==
    /\ stock \in [BusinessKeys -> 0 .. 1]
    /\ job = [status |-> "none", toCreate |-> {}, applied |-> 0, overlapped |-> FALSE,
              created |-> [k \in BusinessKeys |-> 0], drifted |-> FALSE]
    /\ importCall = [h \in Handlers |-> NoImportCall]
CatalogueInit == VendorsInit /\ ImportsInit

-----------------------------------------------------------------------------
(* Bookings with the vendor.                                               *)

VendorGoes(h, call) == vendorCall' = [vendorCall EXCEPT ![h] = call]
VendorEnds(h) == VendorGoes(h, NoVendorCall)

UpdateVendor(rate) ==
    /\ ~vendor.deleted
    /\ vendor' = [vendor EXCEPT !.rate = rate]
    /\ rates' = rates \cup {rate}
    /\ UNCHANGED <<slip, minted, vendorCall>>

\* Its bookings stay.
RemoveVendor ==
    /\ ~vendor.deleted
    /\ vendor' = [vendor EXCEPT !.deleted = TRUE]
    /\ UNCHANGED <<rates, slip, minted, vendorCall>>

\* Every call about a deleted vendor, but a voucher, is answered with an error.
VendorNotFound == vendor.deleted /\ UNCHANGED vendorVars

\* A customer's request books the vendor at no price yet.
CustomerSlip ==
    /\ Len(slip) < MaxSlips
    /\ ~vendor.deleted
    /\ slip' = Append(slip, [status |-> "pending", amount |-> None,
                             commission |-> None, code |-> 0, codes |-> {}])
    /\ UNCHANGED <<vendor, rates, minted, vendorCall>>

\* assign reads the vendor, then books: an amount that is not given is 0.
Assign(h, amount) ==
    /\ vendorCall[h] = NoVendorCall
    /\ ~vendor.deleted
    /\ VendorGoes(h, [NoVendorCall EXCEPT !.step = "assign", !.amount = amount,
                                          !.rate = vendor.rate])
    /\ UNCHANGED <<vendor, rates, slip, minted>>

AssignWrite(h) ==
    LET call == vendorCall[h]
    IN /\ call.step = "assign"
       /\ Len(slip) < MaxSlips
       /\ slip' = Append(slip, [status |-> "pending", amount |-> call.amount,
                                commission |-> call.amount * call.rate,
                                code |-> 0, codes |-> {}])
       /\ VendorEnds(h)
       /\ UNCHANGED <<vendor, rates, minted>>

\* An amount or a status that is not given stays.
UpdateSlip(h, i, amount, status) ==
    /\ vendorCall[h] = NoVendorCall
    /\ ~vendor.deleted
    /\ VendorGoes(h, [NoVendorCall EXCEPT !.step = "update", !.row = i, !.rate = vendor.rate,
                                          !.amount = amount, !.status = status])
    /\ UNCHANGED <<vendor, rates, slip, minted>>

\* OldCommission leaves the commission as it was.
OldCommission(call, row) == row.commission
NewCommission(call, row) == call.amount * call.rate

UpdateSlipWrite(h) ==
    LET call == vendorCall[h]
        row == slip[call.row]
        priced == IF call.amount = None THEN row
                  ELSE [row EXCEPT !.amount = call.amount,
                                   !.commission = NewCommission(call, row)]
    IN /\ call.step = "update"
       /\ slip' = [slip EXCEPT ![call.row] =
              IF call.status = None THEN priced ELSE [priced EXCEPT !.status = call.status]]
       /\ VendorEnds(h)
       /\ UNCHANGED <<vendor, rates, minted>>

\* A code that is there is kept; a pending booking becomes confirmed, and any
\* other status is written back as read.
GenerateVoucher(h, i) ==
    /\ vendorCall[h] = NoVendorCall
    /\ slip[i].code = 0 => minted < MaxVouchers
    /\ minted' = IF slip[i].code = 0 THEN minted + 1 ELSE minted
    /\ VendorGoes(h, [NoVendorCall EXCEPT
           !.step = "voucher", !.row = i,
           !.code = IF slip[i].code = 0 THEN minted + 1 ELSE slip[i].code,
           !.status = IF slip[i].status = "pending" THEN "confirmed" ELSE slip[i].status])
    /\ UNCHANGED <<vendor, rates, slip>>

VoucherWrite(h) ==
    LET call == vendorCall[h]
    IN /\ call.step = "voucher"
       /\ slip' = [slip EXCEPT ![call.row].code = call.code, ![call.row].status = call.status,
                               ![call.row].codes = @ \cup {call.code}]
       /\ VendorEnds(h)
       /\ UNCHANGED <<vendor, rates, minted>>

VendorCallFails(h) ==
    /\ vendorCall[h] # NoVendorCall
    /\ VendorEnds(h)
    /\ UNCHANGED <<vendor, rates, slip, minted>>

VendorsNext ==
    \/ RemoveVendor \/ VendorNotFound \/ CustomerSlip
    \/ \E rate \in Rates : UpdateVendor(rate)
    \/ \E h \in Handlers :
          \/ \E amount \in Amounts : Assign(h, amount)
          \/ \E i \in DOMAIN slip :
                \/ \E amount \in Amounts \cup {None}, status \in SlipStatus \cup {None} :
                      UpdateSlip(h, i, amount, status)
                \/ GenerateVoucher(h, i)
          \/ AssignWrite(h) \/ UpdateSlipWrite(h) \/ VoucherWrite(h) \/ VendorCallFails(h)

-----------------------------------------------------------------------------
(* The import.                                                             *)

ImportGoes(h, call) == importCall' = [importCall EXCEPT ![h] = call]
ImportEnds(h) == ImportGoes(h, NoImportCall)
Committing == \E h \in Handlers : importCall[h] # NoImportCall

\* The upload looks each row up, and then stores the rows and what they would do.
\* One upload is one import.
Upload(h) ==
    /\ job.status = "none" /\ ~Committing
    /\ ImportGoes(h, [step |-> "preview", left |-> Drafts, made |-> {}])
    /\ job' = [job EXCEPT !.drifted = FALSE]
    /\ UNCHANGED stock

\* vendorMatchWhere, over the table as it is and the keys inserted in this transaction.
Matches(d, inserted) == stock[KeyOf[d]] > 0 \/ KeyOf[d] \in inserted

BuildPreview(h, d) ==
    /\ importCall[h].step = "preview"
    /\ d \in importCall[h].left
    /\ ImportGoes(h, [importCall[h] EXCEPT !.left = @ \ {d},
                          !.made = IF Matches(d, {}) THEN @ ELSE @ \cup {KeyOf[d]}])
    /\ UNCHANGED <<stock, job>>

PreviewUpload(h) ==
    /\ importCall[h].step = "preview" /\ importCall[h].left = {}
    /\ job' = [job EXCEPT !.status = "previewed", !.toCreate = importCall[h].made]
    /\ ImportEnds(h)
    /\ UNCHANGED stock

\* The status is read here and not again.
Commit(h) ==
    /\ importCall[h] = NoImportCall
    /\ job.status \in {"previewed", "failed"}
    /\ job' = [job EXCEPT !.overlapped = @ \/ Committing]
    /\ ImportGoes(h, [step |-> "rows", left |-> Drafts, made |-> {}])
    /\ UNCHANGED stock

\* The transaction looks a row up: it inserts a vendor, or updates the one that matches.
CommitRow(h, d) ==
    /\ importCall[h].step = "rows"
    /\ d \in importCall[h].left
    /\ ImportGoes(h, [importCall[h] EXCEPT !.left = @ \ {d},
                          !.made = IF Matches(d, @) THEN @ ELSE @ \cup {KeyOf[d]}])
    /\ UNCHANGED <<stock, job>>

Plus(f, S) == [k \in BusinessKeys |-> IF k \in S THEN f[k] + 1 ELSE f[k]]
Tally(n) == IF n = 0 THEN 1 ELSE 2
\* The status that goes with the rows; LostMark commits them without.
LostMark(status) == status
Mark(status) == "committed"
CommitImport(h) ==
    LET call == importCall[h]
    IN /\ call.step = "rows" /\ call.left = {}
       /\ \A k \in call.made : stock[k] < MaxStock
       /\ stock' = Plus(stock, call.made)
       /\ job' = [job EXCEPT !.status = Mark(@), !.applied = Tally(@),
           !.created = [k \in BusinessKeys |-> IF k \in call.made THEN Tally(@[k]) ELSE @[k]]]
       /\ ImportEnds(h)

\* A failed transaction rolls back, and is recorded by a statement of its own.
ImportFails(h) ==
    /\ importCall[h].step = "rows"
    /\ ImportGoes(h, [NoImportCall EXCEPT !.step = "failed"])
    /\ UNCHANGED <<stock, job>>
MarkFailed(h) ==
    /\ importCall[h].step = "failed"
    /\ job' = [job EXCEPT !.status = "failed"]
    /\ ImportEnds(h)
    /\ UNCHANGED stock
ImportDies(h) ==
    /\ importCall[h] # NoImportCall
    /\ ImportEnds(h)
    /\ UNCHANGED <<stock, job>>

\* Staff create vendors too, with no look at the business key, and delete them.
Drifts == job' = [job EXCEPT !.drifted = TRUE]
CreateVendor(k) ==
    /\ stock[k] < MaxStock
    /\ stock' = [stock EXCEPT ![k] = @ + 1]
    /\ Drifts
    /\ UNCHANGED importCall
DeleteVendor(k) ==
    /\ stock[k] > 0
    /\ stock' = [stock EXCEPT ![k] = @ - 1]
    /\ Drifts
    /\ UNCHANGED importCall

ImportsNext ==
    \/ \E h \in Handlers :
          \/ Upload(h) \/ PreviewUpload(h)
          \/ Commit(h) \/ CommitImport(h) \/ ImportFails(h) \/ MarkFailed(h) \/ ImportDies(h)
          \/ \E d \in Drafts : BuildPreview(h, d) \/ CommitRow(h, d)
    \/ \E k \in BusinessKeys : CreateVendor(k) \/ DeleteVendor(k)

CatalogueNext == \/ VendorsNext /\ UNCHANGED importVars
                 \/ ImportsNext /\ UNCHANGED vendorVars
CatalogueSpec == CatalogueInit /\ [][CatalogueNext]_catalogueVars

-----------------------------------------------------------------------------
(* Properties.                                                             *)

\* Through changed rates, vendors deleted in between and calls that overlap, a
\* commission is that of the row's own amount at a rate the vendor has had, and a
\* row has had no more codes than calls can be in flight, the last of them stored.
SlipsAddUp ==
    \A i \in DOMAIN slip :
        /\ slip[i].amount = None <=> slip[i].commission = None
        /\ slip[i].amount # None =>
              \E rate \in rates : slip[i].commission = slip[i].amount * rate
        /\ Cardinality(slip[i].codes) <= Cardinality(Handlers)
        /\ slip[i].codes # {} => slip[i].code \in slip[i].codes

\* Unless two commits overlapped, an import is committed if and only if its rows
\* were applied, all of them and once, whatever failed and was tried again, and
\* though the file lists a vendor twice; and unless staff changed the catalogue
\* meanwhile, the vendors that are new then are those that the preview announced.
ImportsApplyOnce ==
    ~job.overlapped =>
        /\ job.applied = IF job.status = "committed" THEN 1 ELSE 0
        /\ \A k \in BusinessKeys : job.created[k] <= job.applied
        /\ job.status = "committed" /\ ~job.drifted =>
              job.toCreate = {k \in BusinessKeys : job.created[k] = 1}
=============================================================================
