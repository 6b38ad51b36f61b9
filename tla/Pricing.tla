------------------------------- MODULE Pricing -------------------------------
(***************************************************************************)
(* What a request costs: the algorithms of internal/service/cost.go,       *)
(* internal/provider/pricing.go and of the price row and its peak window   *)
(* in internal/model, as pure operators, and beside them a definition of   *)
(* the bill written the other way round, as a reader of the table would    *)
(* work it out (BookCost).  The book follows the code where the comments   *)
(* of model_price.go disagree, see FirstSet and Documented.                *)
(*                                                                         *)
(* A model name is a record: vendor prefix, base name, a date suffix and   *)
(* the case it is written in.  Amounts are integers of the smallest unit   *)
(* in use, times are hours since the epoch in UTC, a day is its number.    *)
(* Four amounts (input, output, cache read, cache write) form a rate; a    *)
(* price row has a base rate, an off-peak rate and an above-threshold one. *)
(***************************************************************************)
EXTENDS Integers, Sequences, FiniteSets, TLC, SequencesExt, FiniteSetsExt

CONSTANTS Names,      \* the names in the byte order the database sorts them in
          Micro       \* the fractions of a dollar a bill is kept in

NoVendor == "none"
NoWindow == [days |-> {}, spans |-> {}, skipHoliday |-> FALSE, makeupWorkday |-> FALSE]
Zero     == [in |-> 0, out |-> 0, read |-> 0, write |-> 0]

(* What the tables hold and what is submitted *)
Amounts == [in : Int, out : Int, read : Int, write : Int]
Spans   == SUBSET (Int \X Int)
Windows == [days : SUBSET Int, spans : Spans, skipHoliday : BOOLEAN, makeupWorkday : BOOLEAN]

Terms ==
    {t \in [currency : {"", "USD", "CNY"}, base : Amounts, off : Amounts, window : Windows,
            threshold : Int, above : Amounts] : t.base.in >= 0 /\ t.base.out >= 0}

Rows == [model : Range(Names), source : {"manual", "synced"}, terms : Terms]

PriceForms ==
    [currency : STRING, base : Amounts, off : Amounts, threshold : Int, above : Amounts,
     window : [items : SUBSET ({<<"!H">>, <<"W">>} \cup ({"days"} \X Int \X Int)), spans : Spans]]

Usages == [style : STRING, prompt : Nat, cached : Nat, written : Nat, completion : Nat]

\* A public price table: each model once, with no rate below zero and no
\* threshold of zero.
IsFeed(feed) ==
    /\ IsFiniteSet(feed)
    /\ \A r \in feed : /\ r.model \in Range(Names)
                       /\ r.base \in Amounts /\ r.base.in >= 0 /\ r.base.out >= 0
                       /\ DOMAIN r.above \in SUBSET (Nat \ {0}) /\ r.above \in [DOMAIN r.above -> Amounts]
    /\ \A r, o \in feed : r.model = o.model => r = o

(* Names and the index *)
Place(row) == CHOOSE i \in DOMAIN Names : Names[i] = row.model

lower(n)            == [n EXCEPT !.caps = FALSE]
trimVendorPrefix(n) == [n EXCEPT !.vendor = NoVendor]
trimDate(n)         == [n EXCEPT !.dated = FALSE]

candidateNames(n) ==
    LET key == lower(n)
    IN  <<key, trimVendorPrefix(key), trimDate(key), trimDate(trimVendorPrefix(key))>>

\* Whoever comes first keeps a key.
put(idx, turn) ==
    [key \in DOMAIN idx \cup turn.keys |-> IF key \in DOMAIN idx THEN idx[key] ELSE turn.entry]

\* Two rounds: the entries by their full names, then by their aliases.
Turns(entries) ==
    LET turn(i, which) ==
            [entry |-> entries[i], keys |-> {candidateNames(entries[i].model)[j] : j \in which}]
    IN  [i \in DOMAIN entries |-> turn(i, {1})] \o [i \in DOMAIN entries |-> turn(i, 2..4)]

IndexPrices(entries) == FoldLeft(put, <<>>, Turns(entries))

Hits(index, name)       == {i \in 1..4 : candidateNames(name)[i] \in DOMAIN index}
Priced(index, name)     == Hits(index, name) # {}
MatchPrice(index, name) == index[candidateNames(name)[Min(Hits(index, name))]]

(* The upstream price table: a set of records that give a model's mode, its
   base rate and, per threshold, the rate above it. *)
FirstThreshold(r) == IF DOMAIN r.above = {} THEN 0 ELSE Min(DOMAIN r.above)
FirstAbove(r)     == IF DOMAIN r.above = {} THEN Zero ELSE r.above[FirstThreshold(r)]

ParsePricing(feed) ==
    {[model |-> r.model,
      terms |-> [currency  |-> "", base |-> r.base, off |-> Zero, window |-> NoWindow,
                 threshold |-> FirstThreshold(r), above |-> FirstAbove(r)]] :
     r \in {x \in feed : x.mode = "chat" /\ (x.base.in > 0 \/ x.base.out > 0)}}

(* The peak window: a rule is a pair of lists, weekday items and spans *)
dayItem(i) ==
    \/ i \in {<<"!H">>, <<"W">>}
    \/ i[1] = "days" /\ 1 <= i[2] /\ i[2] <= i[3] /\ i[3] <= 7

validWindow(rule) ==
    \/ rule.items = {} /\ rule.spans = {}
    \/ /\ rule.items # {} /\ \A i \in rule.items : dayItem(i)
       /\ rule.spans # {} /\ \A s \in rule.spans : 0 <= s[1] /\ s[1] < s[2] /\ s[2] < 24

NewPeakWindow(rule) ==
    [days          |-> UNION {i[2]..i[3] : i \in {x \in rule.items : x[1] = "days"}},
     spans         |-> rule.spans,
     skipHoliday   |-> <<"!H">> \in rule.items,
     makeupWorkday |-> <<"W">> \in rule.items]

beijing(at) == at + 8
dayOf(at)   == beijing(at) \div 24
Weekday(day) ==            \* Go counts from Sunday = 0; day 0 was a Thursday
    LET d == (day + 4) % 7 IN IF d = 0 THEN 7 ELSE d

kindOf(calendar, day) == IF day \in DOMAIN calendar THEN calendar[day] ELSE "none"

IsPeak(w, at, calendar) ==
    \/ w = NoWindow
    \/ LET kind == kindOf(calendar, dayOf(at))
       IN  /\ ~(w.skipHoliday /\ kind = "holiday")
           /\ Weekday(dayOf(at)) \in w.days \/ (w.makeupWorkday /\ kind = "workday")
           /\ \E s \in w.spans : s[1] <= beijing(at) % 24 /\ beijing(at) % 24 < s[2]

Period(w, at, calendar) ==
    IF w = NoWindow THEN "" ELSE IF IsPeak(w, at, calendar) THEN "peak" ELSE "off_peak"

(* The rates of one request and its cost *)
Rates(p, at, prompt, calendar) ==
    LET off  == p.window # NoWindow /\ ~IsPeak(p.window, at, calendar)
        over == p.threshold > 0 /\ prompt > p.threshold
        timed == IF off THEN [in    |-> IF p.off.in > 0 THEN p.off.in ELSE p.base.in,
                              out   |-> IF p.off.out > 0 THEN p.off.out ELSE p.base.out,
                              read  |-> p.off.read,
                              write |-> p.off.write]
                 ELSE p.base
        tiered == IF over THEN [f \in DOMAIN timed |-> IF p.above[f] > 0 THEN p.above[f] ELSE timed[f]]
                  ELSE timed
    IN  [tiered EXCEPT !.read  = IF @ <= 0 THEN tiered.in ELSE @,
                       !.write = IF @ <= 0 THEN tiered.in ELSE @]

\* A mutant: cached tokens are billed as input as well.
SplitInputTokensTwice(u) == [uncached |-> u.prompt, cached |-> u.cached, written |-> u.written]

SplitInputTokens(u) ==
    IF u.style = "anthropic"
    THEN [uncached |-> u.prompt, cached |-> u.cached, written |-> u.written]
    ELSE [uncached |-> IF u.prompt < u.cached THEN 0 ELSE u.prompt - u.cached,
          cached |-> u.cached, written |-> 0]

CurrencyOrDefault(c) == IF c = "CNY" THEN "CNY" ELSE "USD"
IsCNY(p) == CurrencyOrDefault(p.currency) = "CNY"

Calculate(u, p, at, rate, calendar) ==
    LET t   == SplitInputTokens(u)
        r   == Rates(p, at, u.prompt, calendar)
        sum == t.uncached * r.in + t.cached * r.read + t.written * r.write + u.completion * r.out
    IN  IF ~IsCNY(p) THEN sum * Micro
        ELSE IF rate <= 0 THEN 0 ELSE (sum * Micro) \div rate

\* CostService.Cost: what a request u for a model at a time costs by an index,
\* an exchange rate and a calendar, and the period that is noted on its row.
Cost(index, rate, calendar, name, u, at) ==
    IF ~Priced(index, name) THEN [cost |-> 0, period |-> ""]
    ELSE LET p == MatchPrice(index, name).terms
         IN  [cost   |-> Calculate(u, p, at, rate, calendar),
              period |-> Period(p.window, at, calendar)]

(* Rows: what validateRates accepts, applyPriceInput stores, and the index
   entry a row becomes. *)
validateRates(in) ==
    /\ in.currency \in {"", "USD", "CNY"}
    /\ \A f \in DOMAIN Zero : in.base[f] >= 0 /\ in.off[f] >= 0
    /\ in.above.in >= 0 /\ in.above.out >= 0 /\ in.threshold >= 0
    /\ in.base.in > 0 \/ in.base.out > 0
    /\ validWindow(in.window)

applyPriceInput(in) == [in EXCEPT !.currency = CurrencyOrDefault(@), !.window = NewPeakWindow(@)]

entryFromPrice(row) == [model |-> row.model, terms |-> [row.terms EXCEPT !.currency = CurrencyOrDefault(@)]]

syncedPrice(e) ==
    [model |-> e.model, source |-> "synced",
     terms |-> [e.terms EXCEPT !.currency = "USD", !.window = NoWindow, !.off = Zero]]

-------------------------------------------------------------------------------
(* The bill by the book.  A row speaks for its own name and for that name
   without vendor, without date and without both; a request is priced by the
   first of its own candidate names that a row speaks for, a row of that very
   name before one that has it as an alias, and then the first in the table. *)
Speaks(row, key) == \E i \in DOMAIN candidateNames(row.model) : candidateNames(row.model)[i] = key

Before(a, b, key) ==
    LET own(row) == IF lower(row.model) = key THEN 0 ELSE 1
    IN  own(a) < own(b) \/ (own(a) = own(b) /\ Place(a) <= Place(b))

BookRow(rows, name) ==      \* the set of the row that prices name, or the empty set
    LET spoken == {i \in 1..4 : \E row \in rows : Speaks(row, candidateNames(name)[i])}
        key    == candidateNames(name)[Min(spoken)]
        those  == {row \in rows : Speaks(row, key)}
    IN  IF spoken = {} THEN {} ELSE {row \in those : \A other \in those : Before(row, other, key)}

\* Cheap time is every hour outside the listed spans of a working day.
OffPeak(p, at, calendar) ==
    /\ p.window # NoWindow
    /\ LET kind    == kindOf(calendar, dayOf(at))
           working == IF kind = "holiday" /\ p.window.skipHoliday THEN FALSE
                      ELSE IF kind = "workday" /\ p.window.makeupWorkday THEN TRUE
                      ELSE 1 + ((dayOf(at) + 3) % 7) \in p.window.days   \* Monday is 1
       IN  ~working \/ \A s \in p.window.spans : (at + 8) % 24 \notin s[1]..(s[2] - 1)

\* The first amount that is configured.  A cache rate that is not set off peak
\* falls back to the input rate of that time, as the comment of Rates says
\* (model_price.go:86-93), not to its own peak rate, as that of the table does.
FirstSet(amounts) ==
    LET set == {i \in DOMAIN amounts : amounts[i] > 0} IN IF set = {} THEN 0 ELSE amounts[Min(set)]

BookRate(p, f, at, prompt, calendar) ==
    LET off  == OffPeak(p, at, calendar)
        tier(g) == IF p.threshold > 0 /\ prompt > p.threshold THEN p.above[g] ELSE 0
        input == FirstSet(<<tier("in"), IF off THEN p.off.in ELSE 0, p.base.in>>)
    IN  CASE f = "in"  -> input
          [] f = "out" -> FirstSet(<<tier("out"), IF off THEN p.off.out ELSE 0, p.base.out>>)
          [] OTHER     -> FirstSet(<<tier(f), IF off THEN p.off[f] ELSE p.base[f], input>>)

\* What the comment of the table makes of terms (model_price.go:32-33): each of
\* the four off-peak rates that is not set is the peak rate.
Documented(p) == [p EXCEPT !.off = [f \in DOMAIN Zero |-> FirstSet(<<p.off[f], p.base[f]>>)]]

\* Every token is paid for once: a vendor of the openai style counts the
\* cached tokens into the prompt and never bills the writing of a cache.
BookCost(rows, rate, calendar, name, u, at) ==
    LET p == (CHOOSE row \in BookRow(rows, name) : TRUE).terms
        r(f) == BookRate(p, f, at, u.prompt, calendar)
        fresh == IF u.style = "anthropic" THEN u.prompt ELSE Max({u.prompt - u.cached, 0})
        sum == fresh * r("in") + u.cached * r("read") + u.completion * r("out")
               + (IF u.style = "anthropic" THEN u.written * r("write") ELSE 0)
    IN  IF BookRow(rows, name) = {} THEN [cost |-> 0, period |-> ""]
        ELSE [cost   |-> IF p.currency # "CNY" THEN sum * Micro
                         ELSE IF rate = 0 THEN 0 ELSE (sum * Micro) \div rate,
              period |-> IF p.window = NoWindow THEN ""
                         ELSE IF OffPeak(p, at, calendar) THEN "off_peak" ELSE "peak"]
===============================================================================
