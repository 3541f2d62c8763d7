------------------------------- MODULE Prices -------------------------------
(***************************************************************************)
(* What a line item, an estimate and an invoice come to                    *)
(* (shared/invoice, shared/estimate), and the taxable part of an imported   *)
(* invoice (shared/arbostar/derive_taxable_subtotal.ts).  A behaviour is a  *)
(* sheet that somebody fills in line by line.                              *)
(*                                                                         *)
(* Amounts are in cents, quantities in tenths, rates in thousandths.       *)
(***************************************************************************)
EXTENDS Integers, Sequences, FiniteSets, SequencesExt, FiniteSetsExt

CONSTANTS
    None,        \* a field without a value
    LineItems,   \* the lines that may be added
    Discounts,   \* the pairs of discount and discount_rate of a project or an invoice
    Fees, Credits, TaxRate,
    WorkSkills,  \* records of hourly_rate and count
    Hours, CrewSizes, Increments,
    Services, Taxes, Ratios,  \* what an imported invoice says, and the known tax rates
    MaxLines     \* bound on the lines of a sheet

VARIABLE sheet

\* changeDecimalPlaces with the strategy "round".  No property tells apart which way the tie of
\* a negative number goes.
Round(n, d) == IF n >= 0 THEN (2 * n + d) \div (2 * d) ELSE -((-2 * n + d) \div (2 * d))
Total(numbers) == FoldSeq(LAMBDA a, b : a + b, 0, numbers)
Totals(f(_), rows) == Total([i \in DOMAIN rows |-> f(rows[i])])

-----------------------------------------------------------------------------
(* calculate_invoice.ts and calculate_estimate.ts.                         *)

Gross(line) == Round(line.quantity * line.price, 10)
LineDiscount(line) ==
    IF line.discount_rate # None THEN Round(line.discount_rate * Gross(line), 1000)
    ELSE IF line.discount # None THEN line.discount ELSE 0
LineTotal(line) == Gross(line) - LineDiscount(line)

HasDiscount(of) == of.discount # None \/ of.discount_rate # None
\* The assertions of both calculations.
IsRefused(of, lines) ==
    /\ HasDiscount(of)
    /\ \/ \E i \in DOMAIN lines : HasDiscount(lines[i])
       \/ Totals(LineTotal, lines) < 0
Taxable(lines) == SelectSeq(lines, LAMBDA line : line.taxable)
LevelDiscount(of, subtotal) ==
    IF of.discount_rate # None THEN Round(of.discount_rate * subtotal, 1000)
    ELSE IF of.discount # None THEN Min({of.discount, subtotal}) ELSE 0
TaxableAmount(taxable_subtotal, reduction) ==
    IF taxable_subtotal > 0 THEN Max({taxable_subtotal - reduction, 0}) ELSE taxable_subtotal
Tax(of, amount) == IF of.taxable THEN Round(TaxRate * amount, 1000) ELSE 0

CreditApplied(subtotal, discount, available) ==
    IF subtotal < 0 THEN 0 ELSE Min({subtotal - discount, available})

CalculateInvoice(invoice, lines, available_client_credit) ==
    LET subtotal == Totals(LineTotal, lines)
        taxable_subtotal == Totals(LineTotal, Taxable(lines))
        discount == LevelDiscount(invoice, subtotal)
        credit == CreditApplied(subtotal, discount, available_client_credit)
        tax == Tax(invoice, TaxableAmount(taxable_subtotal, discount + credit))
    IN  [subtotal |-> subtotal, taxable_subtotal |-> taxable_subtotal, discount |-> discount,
         credit |-> credit, tax |-> tax, total |-> subtotal - (discount + credit) + tax + invoice.fee]

Accepted(lines) == SelectSeq(lines, LAMBDA line : ~line.client_declined)
CalculateEstimate(project, lines) ==
    LET subtotal == Totals(LineTotal, Accepted(lines))
        taxable_subtotal == Totals(LineTotal, Taxable(Accepted(lines)))
        discount == LevelDiscount(project, subtotal)
        tax == Tax(project, TaxableAmount(taxable_subtotal, discount))
    IN  [subtotal |-> subtotal, taxable_subtotal |-> taxable_subtotal, discount |-> discount,
         tax |-> tax, total |-> subtotal - discount + tax]

-----------------------------------------------------------------------------
(* line_item_price.ts.                                                     *)

People(work_skills) == Total([i \in DOMAIN work_skills |-> work_skills[i].count])
AverageHourlyRate(work_skills) ==
    IF work_skills = <<>> THEN None
    ELSE Round(Total([i \in DOMAIN work_skills |-> work_skills[i].hourly_rate * work_skills[i].count]),
               People(work_skills))
RoundToNearest(amount, increment) ==
    LET remainder == amount % increment IN
    amount - remainder + (IF 2 * remainder >= increment THEN increment ELSE 0)
CalculateLineItemPrice(estimated_hours, crew_size, hourly_rate, increment) ==
    RoundToNearest(hourly_rate * estimated_hours * crew_size, increment)

-----------------------------------------------------------------------------
(* derive_taxable_subtotal.ts: the first rate that explains the tax, or the *)
(* one that comes next to it.                                              *)

RoundsTo(ratio, base, tax) == Round(ratio * base, 1000) = tax
FirstRatio(base, tax) == SelectInSeq(Ratios, LAMBDA ratio : RoundsTo(ratio, base, tax))
Distance(ratio, services, tax) ==
    LET d == Round(ratio * services, 1000) - tax IN IF d < 0 THEN -d ELSE d
BestRatio(services, tax) ==
    FoldLeft(LAMBDA best, ratio :
                 IF Distance(ratio, services, tax) < Distance(best, services, tax) THEN ratio ELSE best,
             Ratios[1], Tail(Ratios))
DivideToCents(tax, ratio) == Round(tax * 1000, ratio)

Derivation(tier, ratio, taxable_subtotal) == [tier |-> tier, ratio |-> ratio, taxable_subtotal |-> taxable_subtotal]
\* (a mistake) The discount that the services are net of is not added back.
DeriveNetTaxableSubtotal(services, discount, tax, lines) ==
    LET whole == FirstRatio(services, tax)
        best == BestRatio(services, tax)
    IN  IF tax = 0 THEN Derivation("untaxed", None, 0)
        ELSE IF whole # 0 THEN Derivation("whole invoice", Ratios[whole], services + discount)
        ELSE Derivation("division", best, DivideToCents(tax, best))
DeriveTaxableSubtotal(services, discount, tax, lines) ==
    LET whole == FirstRatio(services, tax)
        line_sum == Totals(Gross, Taxable(lines))
        by_lines == FirstRatio(line_sum - discount, tax)
        reconcile == lines # <<>> /\ Totals(Gross, lines) - discount = services
        best == BestRatio(services, tax)
    IN  IF tax = 0 THEN Derivation("untaxed", None, 0)
        ELSE IF whole # 0 THEN Derivation("whole invoice", Ratios[whole], services + discount)
        ELSE IF reconcile /\ by_lines # 0 THEN Derivation("lines", Ratios[by_lines], line_sum)
        ELSE Derivation("division", best, DivideToCents(tax, best) + discount)

-----------------------------------------------------------------------------
(* import_projects.ts: the rate and the totals of a project, from the       *)
(* invoices of its lead and from all its lines.                            *)

Abs(n) == IF n < 0 THEN -n ELSE n
\* In tenths of a cent, for nothing is rounded here.
Exact(line) == line.quantity * line.price
TaxOf(invoice) == invoice.tax
TotalOf(invoice) == invoice.services + invoice.tax
SubtotalOf(invoice) == invoice.services + invoice.discount
DiscountOf(invoice) == invoice.discount
TaxableOf(invoice) ==
    DeriveTaxableSubtotal(invoice.services, invoice.discount, invoice.tax, invoice.lines).taxable_subtotal

TaxedBase(invoices, lines) ==
    LET line_sum == Totals(Exact, Taxable(Accepted(lines))) IN
    IF line_sum > 0 THEN line_sum ELSE 10 * (Totals(TotalOf, invoices) - Totals(TaxOf, invoices))
NearestOfficialTax(tax, base) ==
    LET distance(ratio) == Abs(ratio * base - 10000 * tax) IN
    FoldLeft(LAMBDA best, ratio : IF distance(ratio) < distance(best) THEN ratio ELSE best, Ratios[1], Tail(Ratios))
ProjectTaxRate(invoices, lines) ==
    LET tax == Totals(TaxOf, invoices)
        base == TaxedBase(invoices, lines)
    IN  IF tax <= 0 \/ base <= 0 THEN None ELSE NearestOfficialTax(tax, base)

ProjectTotals(invoices, lines) ==
    LET discount == Totals(DiscountOf, invoices)
        quoted == Round(Totals(Exact, Accepted(lines)), 10)
    IN  IF invoices # <<>>
        THEN [subtotal |-> Totals(SubtotalOf, invoices), taxable_subtotal |-> Totals(TaxableOf, invoices),
              discount |-> IF discount = 0 THEN None ELSE discount,
              tax_total |-> Totals(TaxOf, invoices), total |-> Totals(TotalOf, invoices)]
        ELSE IF lines = <<>>
        THEN [subtotal |-> None, taxable_subtotal |-> None, discount |-> None, tax_total |-> None, total |-> None]
        ELSE [subtotal |-> quoted, taxable_subtotal |-> None, discount |-> None, tax_total |-> 0, total |-> quoted]

-----------------------------------------------------------------------------

Init ==
    \/ \E d \in Discounts, fee \in Fees, taxable \in BOOLEAN, available \in Credits :
        sheet = [is |-> "invoice", lines |-> <<>>, credit |-> available,
                 of |-> [discount |-> d[1], discount_rate |-> d[2], fee |-> fee, taxable |-> taxable]]
    \/ \E hours \in Hours, crew_size \in CrewSizes, increment \in Increments :
        sheet = [is |-> "price", lines |-> <<>>, hours |-> hours, crew_size |-> crew_size,
                 increment |-> increment]
    \/ \E services \in Services, tax \in Taxes, d \in Discounts :
        /\ d[2] = None
        /\ sheet = [is |-> "import", lines |-> <<>>, services |-> services, tax |-> tax,
                    discount |-> IF d[1] = None THEN 0 ELSE d[1]]

AddLine(line) ==
    /\ Len(sheet.lines) < MaxLines
    /\ line \in (IF sheet.is = "price" THEN WorkSkills ELSE LineItems)
    /\ sheet' = [sheet EXCEPT !.lines = Append(@, line)]

Next == \E line \in LineItems \cup WorkSkills : AddLine(line)
Spec == Init /\ [][Next]_sheet

-----------------------------------------------------------------------------

\* The invoice of exactly the lines that a client accepted comes to what the estimate came to,
\* with the discount and the taxes, as long as there is neither a fee nor a credit: the two
\* calculations of calculate_estimate.ts and calculate_invoice.ts round alike.
InvoiceOfAnEstimateIsItsTotal ==
    sheet.is = "invoice" /\ ~IsRefused(sheet.of, Accepted(sheet.lines)) =>
        LET estimate == CalculateEstimate(sheet.of, sheet.lines)
            invoice == CalculateInvoice([sheet.of EXCEPT !.fee = 0], Accepted(sheet.lines), 0)
        IN  \A total \in DOMAIN estimate : invoice[total] = estimate[total]

\* No invoice of lines that cost something is reduced below zero, by the discount and the client
\* credit together, and its tax is never more than that of the amount that is left to be paid.
NothingIsPaidTwice ==
    sheet.is = "invoice" /\ (\A i \in DOMAIN sheet.lines : LineTotal(sheet.lines[i]) >= 0)
        /\ ~IsRefused(sheet.of, sheet.lines) =>
        LET invoice == CalculateInvoice(sheet.of, sheet.lines, sheet.credit)
            left == invoice.subtotal - invoice.discount - invoice.credit
        IN  left >= 0 /\ invoice.tax <= Round(TaxRate * left, 1000)

\* The price that the estimate page fills in is a multiple of the company's increment, and none
\* is nearer to hours times crew times the average rate of the work skills (line_item_price.ts).
PriceIsTheNearestMultiple ==
    sheet.is = "price" /\ sheet.lines # <<>> =>
        LET rate == AverageHourlyRate(sheet.lines)
            exact == rate * sheet.hours * sheet.crew_size
            price == CalculateLineItemPrice(sheet.hours, sheet.crew_size, rate, sheet.increment)
        IN  /\ price % sheet.increment = 0
            /\ 2 * price > 2 * exact - sheet.increment - 1
            /\ 2 * price <= 2 * exact + sheet.increment
            /\ \A i \in DOMAIN sheet.lines :
                (\A j \in DOMAIN sheet.lines : sheet.lines[j].hourly_rate = sheet.lines[i].hourly_rate)
                    => rate = sheet.lines[i].hourly_rate

\* Whichever way the taxable subtotal of an imported invoice was found, its rate and its discount
\* give the tax that ArboStar charged, to the cent (derive_taxable_subtotal.ts).
ImportedTaxIsReproduced ==
    sheet.is = "import" /\ sheet.tax # 0 =>
        LET found == DeriveTaxableSubtotal(sheet.services, sheet.discount, sheet.tax, sheet.lines)
        IN  RoundsTo(found.ratio, found.taxable_subtotal - sheet.discount, sheet.tax)

\* A lead with two invoices becomes a project whose total is what both came to, is untaxed only if
\* neither was taxed, and has the one rate that gives the tax on the taxable lines which the client
\* accepted.  A lead without an invoice becomes one that the estimate page shows with the same
\* total, but for half a cent that each line was rounded by (import_projects.ts:119-140, 443-485).
Explains(ratio, base, tax) == 2 * Abs(ratio * base - 10000 * tax) <= 10000
ImportedProjectKeepsItsTotals ==
    sheet.is = "import" =>
        LET lines == Accepted(sheet.lines)
            invoice == [services |-> sheet.services, discount |-> sheet.discount, tax |-> sheet.tax, lines |-> lines]
            taxable_sum == Totals(Exact, SelectSeq(sheet.lines, LAMBDA line : line.taxable /\ ~line.client_declined))
            totals == ProjectTotals(<<invoice, invoice>>, sheet.lines)
            quote == ProjectTotals(<<>>, sheet.lines)
            untaxed == [taxable |-> FALSE, discount |-> None, discount_rate |-> None]
        IN  /\ totals.total = totals.subtotal - (IF totals.discount = None THEN 0 ELSE totals.discount) + totals.tax_total
            /\ totals.taxable_subtotal = 0 => sheet.tax = 0 \/ totals.subtotal = 0
            /\ \A i \in DOMAIN Ratios :
                taxable_sum > 0 /\ sheet.tax > 0
                /\ (\A j \in DOMAIN Ratios : Explains(Ratios[j], taxable_sum, sheet.tax) <=> j = i)
                    => ProjectTaxRate(<<invoice>>, sheet.lines) = Ratios[i]
            /\ sheet.lines # <<>> /\ (\A i \in DOMAIN lines : ~HasDiscount(lines[i]))
               => 2 * Abs(quote.total - CalculateEstimate(untaxed, sheet.lines).total) <= Len(lines) + 1
=============================================================================
