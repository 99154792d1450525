----------------------------- MODULE SageOrders -----------------------------
(***************************************************************************)
(* From an order file to the invoices of a Sage import: the reader, the    *)
(* customer and article lookups, the VAT regime and the rows of fabriquer  *)
(* (sage/generator.py), and what the caption tells the sender              *)
(* (sage/service.py generate, handlers/sage_import.py _caption).           *)
(*                                                                         *)
(* A file is a sequence of rows read one at a time: the table format has   *)
(* one row per product, the Taylorman format blocks of labelled rows.  A   *)
(* name is a sequence of words, scores are in hundredths, and countries    *)
(* are written as the exports write them, in capitals without accents.     *)
(***************************************************************************)
EXTENDS Integers, SequencesExt

CONSTANTS
    Files,              \* the order files that may come, as sequences of rows
    CardRows,           \* the rows of the customer export
    ArticleRows,        \* the rows of the article export
    Ratio(_, _),        \* difflib's likeness of two names, in hundredths
    Begins(_, _),       \* str.startswith on two names
    StopWords,          \* MOTS_VIDES
    NotLatin,           \* words cp1252 cannot hold
    Threshold,          \* sage_client_match_threshold
    MinWords,           \* MIN_MOTS_RECOUVREMENT
    MaxWarningLines, MaxClientLines

Norm(name) == SelectSeq(name, LAMBDA w : w \notin NotLatin)

\* The names an order may have.
Names == {<<>>} \cup UNION {{f[i].client : i \in {i \in DOMAIN f : f[i].kind \in {"client", "line"}}} :
                              f \in Files}

ASSUME SageOrdersAssumption ==
    /\ Threshold \in 1 .. 100 /\ MinWords \in Nat \ {0}
    /\ {MaxWarningLines, MaxClientLines} \subseteq Nat
    /\ \A f \in Files : f \in Seq(ToSet(f))
    /\ CardRows \in Seq(ToSet(CardRows)) /\ ArticleRows \in Seq(ToSet(ArticleRows))
    /\ \A name \in Names : name \in Seq(ToSet(name))
    /\ \A c \in ToSet(CardRows) : c.name \in Seq(ToSet(c.name))
    /\ \A name \in Names : \A c \in ToSet(CardRows) : Ratio(Norm(name), Norm(c.name)) \in Nat

\* The numbers of a finite set, in increasing order.
Ascending(S) ==
    CHOOSE s \in [1 .. Cardinality(S) -> S] :
        \A i, j \in 1 .. Cardinality(S) : i < j => s[i] < s[j]

VARIABLES
    file,       \* the file received
    pos,        \* the row the reader is at
    open,       \* Taylorman: an order is open (cur)
    columns,    \* Taylorman: the row whose columns are used (colmap), 0 for none
    orders,     \* what charger_commandes returns
    invoices,   \* the rows written so far, one record for each order
    missing,    \* clients_manquants, articles_manquants, pays_inconnus
    caption,    \* what the sender reads
    pc

vars == <<file, pos, open, columns, orders, invoices, missing, caption, pc>>

NoCaption == [clients |-> <<>>, shown |-> <<>>, more |-> 0]

Init ==
    /\ file \in Files
    /\ pos = 1 /\ open = FALSE /\ columns = 0
    /\ orders = <<>> /\ invoices = <<>>
    /\ missing = [clients |-> <<>>, articles |-> <<>>, countries |-> {}]
    /\ caption = NoCaption /\ pc = "read"
-----------------------------------------------------------------------------
(* Countries and the VAT regime *)

\* norm_nom: a hyphen becomes a space.
NormCountry(country) ==
    CASE country = "PAYS-BAS" -> "PAYS BAS"
      [] country = "NOUVELLE-CALEDONIE" -> "NOUVELLE CALEDONIE"
      [] OTHER -> country

\* lookup_pays: the name _PAYS_TABLE gives a country, however it is written; "" when the
\* table does not know it.
NameOf(country) ==
    LET c == NormCountry(country)
    IN  CASE c \in {"FRANCE", "FR", "FRA"} -> "FRANCE"
          [] c \in {"ITALIE", "IT", "ITA", "ITALY"} -> "ITALIE"
          [] c \in {"PAYS BAS", "NL", "NLD", "NETHERLANDS"} -> "PAYS-BAS"
          [] c \in {"MARTINIQUE", "MTQ", "MQ"} -> "MARTINIQUE"
          [] c = "SUISSE" -> "SUISSE"
          [] OTHER -> ""

IsKnown(country) == NameOf(country) # ""

OverseasCountries == {"MARTINIQUE", "MTQ", "NOUVELLE CALEDONIE"}   \* PAYS_DOM
EuCountries       == {"ITALIE", "IT", "PAYS-BAS", "NL"}            \* PAYS_UE
OverseasCodes     == {"97200"}                                     \* CP_OUTREMER

\* regime_client
RegimeOf(country, cp) ==
    LET c == NormCountry(country)
    IN  IF cp \in OverseasCodes \/ c \in OverseasCountries THEN "OUTREMER"
        ELSE IF c \in {"FRANCE", "FR", ""} THEN "FRANCE"
        ELSE IF c \in EuCountries THEN "CEE" ELSE "HORSCEE"

\* Fault: the postcode is not looked at.
OverseasByCountry(country, cp) == NormCountry(country) \in OverseasCountries

\* est_dom
IsOverseas(country, cp) == NormCountry(country) \in OverseasCountries \/ cp \in OverseasCodes

\* REGIME: the VAT mode of a customer whose card gives none.
ModeOf(region) ==
    CASE region = "FRANCE" -> "LOCAL"
      [] region = "CEE" -> "CEE"
      [] region \in {"HORSCEE", "OUTREMER"} -> "HORS CEE"

DefaultMode(country, cp) ==
    IF IsOverseas(country, cp) THEN "HORS CEE" ELSE ModeOf(RegimeOf(country, cp))

Categorised == {"LOCAL", "CEE", "HORS CEE", "SUSPENSION DE TAXE"}      \* CAT_PAR_MODE
Exempt(mode) == mode \notin {"LOCAL", ""}

\* infos_regime: any other mode of the export is exempt, without a category or a reason.
MentionOf(mode, country, cp) ==
    IF ~Exempt(mode) THEN ""
    ELSE IF mode = "CEE" THEN "CEE"
    ELSE IF IsOverseas(country, cp) THEN "OUTREMER" ELSE "HORSCEE"

VatOf(mode, country, cp) ==
    [mode     |-> mode,
     category |-> mode \in Categorised,
     reason   |-> mode \in Categorised \ {"LOCAL"},
     exempt   |-> Exempt(mode),
     mention  |-> MentionOf(mode, country, cp)]
-----------------------------------------------------------------------------
(* The customer of an order *)

\* build_clients_index: a row without a code is no customer.
Clients == {c \in DOMAIN CardRows : CardRows[c].code # ""}

Words(name) == ToSet(name) \ (NotLatin \cup StopWords)
Smaller(m, n) == IF m < n THEN m ELSE n
Larger(m, n)  == IF m < n THEN n ELSE m

\* Fault: no floor under the number of words.
OverlapUnfloored(a, b) ==
    IF Words(a) = {} \/ Words(b) = {} THEN 0
    ELSE (100 * Cardinality(Words(a) \cap Words(b)))
           \div Smaller(Cardinality(Words(a)), Cardinality(Words(b)))

Overlap(a, b) ==
    IF Words(a) = {} \/ Words(b) = {} THEN 0
    ELSE (100 * Cardinality(Words(a) \cap Words(b)))
           \div Larger(MinWords, Smaller(Cardinality(Words(a)), Cardinality(Words(b))))

OneBeginsOther(a, b) == Begins(Norm(a), Norm(b)) \/ Begins(Norm(b), Norm(a))

ScoreClient(a, b) ==
    IF Norm(a) = <<>> \/ Norm(b) = <<>> THEN 0
    ELSE Larger(Larger(Ratio(Norm(a), Norm(b)), Overlap(a, b)),
                IF OneBeginsOther(a, b) THEN 85 ELSE 0)

\* What a common postcode, town and street number add.
AddressBonus(o, c) ==
      (IF o.cp # "" /\ o.cp = c.cp THEN 20 ELSE 0)
    + (IF o.city # "" /\ o.city = c.city THEN 15 ELSE 0)
    + (IF o.number # "" /\ o.number = c.number THEN 10 ELSE 0)

Score(o, c) == ScoreClient(o.name, c.name) + AddressBonus(o, c)

\* match_client: the first of the best customers, 0 when none reaches the threshold.
IsFirstBest(o, c) ==
    /\ Score(o, CardRows[c]) >= Threshold
    /\ \A d \in Clients : IF d < c THEN Score(o, CardRows[d]) < Score(o, CardRows[c])
                                   ELSE Score(o, CardRows[d]) <= Score(o, CardRows[c])

MatchClient(o) ==
    LET best == {c \in Clients : IsFirstBest(o, c)}
    IN  IF best = {} THEN 0 ELSE CHOOSE c \in best : TRUE
-----------------------------------------------------------------------------
(* The article of a line: build_articles_index keeps the first row of each key *)

DefaultRate == 20      \* TAUX_LOCAL_DEFAUT
NoRate      == -1      \* blank or not a number

FirstArticle(field, key) ==
    IF key = "" THEN 0
    ELSE SelectInSeq(ArticleRows, LAMBDA r : r[field] = key)

\* Fault: the reference without its colour is looked up first.
FindArticleByBase(ref) ==
    LET base == FirstArticle("base", ref.base)
    IN  IF base # 0 THEN base ELSE FirstArticle("full", ref.full)

FindArticle(ref) ==
    LET full == FirstArticle("full", ref.full)
    IN  IF full # 0 THEN full ELSE FirstArticle("base", ref.base)

RateOf(article) ==
    IF article = 0 \/ ArticleRows[article].rate = NoRate THEN DefaultRate
    ELSE ArticleRows[article].rate
-----------------------------------------------------------------------------
(* The reader *)

Row   == file[pos]

\* detect_format looks for the title in the first six rows.
Taylorman == \E i \in 1 .. Smaller(6, Len(file)) : file[i].kind = "title"

\* _parse_adresse: without a postcode only the country is read; a country the table
\* does not know stays part of the town.
ParseAddress(a) ==
    [cp      |-> a.cp,
     city    |-> IF a.cp = "" THEN "" ELSE IF a.country = "" \/ IsKnown(a.country)
                                           THEN a.city ELSE "?",
     country |-> NameOf(a.country),
     number  |-> a.number]

NoAddress == [cp |-> "", city |-> "", country |-> "", number |-> ""]
NewOrder(name, a) ==
    [name |-> name, lines |-> <<>>,
     cp |-> a.cp, city |-> a.city, country |-> a.country, number |-> a.number]

LastOrder(f(_)) == [orders EXCEPT ![Len(orders)] = f(@)]
WithLine(o, cols) == [o EXCEPT !.lines = Append(@, [row |-> pos, ref |-> Row.ref, columns |-> cols])]

Reads(kind) ==
    /\ pc = "read" /\ pos <= Len(file) /\ Taylorman /\ Row.kind = kind
    /\ pos' = pos + 1
    /\ UNCHANGED <<file, invoices, missing, caption, pc>>

ReadTitle == Reads("title") /\ open' = FALSE /\ columns' = 0 /\ UNCHANGED orders

SkipAmount == Reads("amount") /\ UNCHANGED <<open, columns, orders>>

\* Fault: the columns of the last table stay in use.
ReadNumberOnly ==
    /\ Reads("number")
    /\ orders' = Append(orders, NewOrder(<<>>, NoAddress))
    /\ open' = TRUE /\ UNCHANGED columns

ReadNumber ==
    /\ Reads("number")
    /\ orders' = Append(orders, NewOrder(<<>>, NoAddress))
    /\ open' = TRUE /\ columns' = 0

\* A label outside an order is no header and no product: nothing happens.
ReadClient ==
    /\ Reads("client")
    /\ orders' = IF open THEN LastOrder(LAMBDA o : [o EXCEPT !.name = Row.client]) ELSE orders
    /\ UNCHANGED <<open, columns>>

ReadAddress ==
    /\ Reads("address")
    /\ orders' = IF open THEN LastOrder(LAMBDA o :
                                      [NewOrder(o.name, ParseAddress(Row.address))
                                         EXCEPT !.lines = o.lines]) ELSE orders
    /\ UNCHANGED <<open, columns>>

ReadHeader == Reads("header") /\ columns' = pos /\ UNCHANGED <<open, orders>>

\* A product row one of whose cells says REFERENCE is taken for a header.
ReadProduct ==
    /\ Reads("product")
    /\ columns' = IF Row.mentions THEN pos ELSE columns
    /\ orders' = IF open /\ columns # 0 /\ Row.ref.text /\ ~Row.mentions
                 THEN LastOrder(LAMBDA o : WithLine(o, columns)) ELSE orders
    /\ UNCHANGED open

\* lire_commandes: a row with a client opens an order; of a file without its columns it
\* reads nothing.
ReadLine ==
    /\ pc = "read" /\ pos <= Len(file) /\ ~Taylorman
    /\ pos' = pos + 1
    /\ IF Row.kind # "line" THEN UNCHANGED orders
       ELSE LET read == IF Row.client = <<>> THEN orders
                        ELSE Append(orders, NewOrder(Row.client, Row.address))
            IN  orders' = IF read = <<>> \/ ~Row.ref.text THEN read
                          ELSE [read EXCEPT ![Len(read)] = WithLine(@, 0)]
    /\ UNCHANGED <<file, open, columns, invoices, missing, caption, pc>>

\* generate: a file without any order is refused with a reason.
EndOfFile ==
    /\ pc = "read" /\ pos > Len(file)
    /\ pc' = IF orders = <<>> THEN "refused" ELSE "make"
    /\ UNCHANGED <<file, pos, open, columns, orders, invoices, missing, caption>>
-----------------------------------------------------------------------------
(* fabriquer *)

\* What the card leaves blank comes from the order.
Preferred(card, o, field) ==
    IF card # 0 /\ CardRows[card][field] # "" THEN CardRows[card][field] ELSE o[field]

VatFor(o) ==
    LET card    == MatchClient(o)
        country == Preferred(card, o, "country")
        cp      == Preferred(card, o, "cp")
        mode    == IF card # 0 /\ CardRows[card].mode # "" THEN CardRows[card].mode
                   ELSE DefaultMode(country, cp)
    IN  VatOf(mode, country, cp)

ArticleLines(o) ==
    [n \in DOMAIN o.lines |->
       LET article == FindArticle(o.lines[n].ref)
       IN  [no |-> n, row |-> o.lines[n].row, article |-> article, mention |-> "",
            rate |-> IF VatFor(o).exempt THEN 0 ELSE RateOf(article)]]

MentionLine(o) ==
    IF VatFor(o).mention = "" THEN <<>>
    ELSE <<[no |-> Len(o.lines) + 1, row |-> 0, article |-> 0,
            mention |-> VatFor(o).mention, rate |-> 0]>>

Invoice(o) ==
    [card    |-> MatchClient(o),
     country |-> Preferred(MatchClient(o), o, "country"),
     vat     |-> VatFor(o),
     lines   |-> ArticleLines(o) \o MentionLine(o)]

\* The rows of the lines of o whose article the export lacks, in their order.
Unfound(o) ==
    LET places == Ascending({n \in DOMAIN o.lines : FindArticle(o.lines[n].ref) = 0})
    IN  [n \in DOMAIN places |-> o.lines[places[n]].row]

MakeInvoice ==
    LET o == orders[Len(invoices) + 1]
        i == Invoice(o)
    IN  /\ pc = "make" /\ Len(invoices) < Len(orders)
        /\ invoices' = Append(invoices, i)
        /\ missing' =
             [clients   |-> IF i.card = 0 THEN Append(missing.clients, Len(invoices) + 1)
                            ELSE missing.clients,
              articles  |-> missing.articles \o Unfound(o),
              countries |-> IF i.country = "" \/ IsKnown(i.country) THEN missing.countries
                            ELSE missing.countries \cup {i.country}]
        /\ UNCHANGED <<file, pos, open, columns, orders, caption, pc>>

\* The name of an order is written when it has no customer: cp1252 may refuse it, and
\* the file it truncated stays empty.
WriteFile ==
    /\ pc = "make" /\ Len(invoices) = Len(orders)
    /\ pc' = IF \E k \in DOMAIN orders :
                  invoices[k].card = 0 /\ ToSet(orders[k].name) \cap NotLatin # {}
             THEN "refused" ELSE "written"
    /\ UNCHANGED <<file, pos, open, columns, orders, invoices, missing, caption>>
-----------------------------------------------------------------------------
(* What the sender reads *)

Item(kind, what) == [kind |-> kind, what |-> what]

Section(heading, kind, items) ==
    IF items = <<>> THEN <<>>
    ELSE <<Item(heading, 0)>> \o [n \in DOMAIN items |-> Item(kind, items[n])]

\* Fault: reading stops at the blank line that ends a section.
FirstWarnings ==
    IF missing.clients # <<>> THEN Section("clients", "client", missing.clients)
    ELSE Section("articles", "article", missing.articles)

\* _warnings: the sections of the report, with their details.
Warnings ==
    Section("clients", "client", missing.clients)
    \o Section("articles", "article", missing.articles)
    \o (IF missing.countries = {} THEN <<>> ELSE <<Item("countries", 0)>>)

Answer ==
    /\ pc = "written" /\ pc' = "answered"
    /\ caption' =
         [clients |-> [k \in 1 .. Smaller(MaxClientLines, Len(orders)) |-> MatchClient(orders[k])],
          shown   |-> SubSeq(Warnings, 1, Smaller(MaxWarningLines, Len(Warnings))),
          more    |-> Len(Warnings) - Smaller(MaxWarningLines, Len(Warnings))]
    /\ UNCHANGED <<file, pos, open, columns, orders, invoices, missing>>

Read ==
    \/ ReadTitle \/ SkipAmount \/ ReadNumber \/ ReadClient \/ ReadAddress
    \/ ReadHeader \/ ReadProduct \/ ReadLine \/ EndOfFile

Next == Read \/ MakeInvoice \/ WriteFile \/ Answer

Spec == Init /\ [][Next]_vars
-----------------------------------------------------------------------------
(* Properties *)

Written == pc \in {"written", "answered"}

RowsOf(kinds) == {i \in DOMAIN file : file[i].kind \in kinds}
Between(i, j, kinds) == \E k \in RowsOf(kinds) : i < k /\ k < j

\* The rows that open an order, and the product rows that belong to it.
Heads ==
    IF Taylorman THEN RowsOf({"number"})
    ELSE {i \in RowsOf({"line"}) : file[i].client # <<>>}
Products(head) ==
    IF Taylorman
    THEN {i \in RowsOf({"product"}) :
            /\ head < i /\ file[i].ref.text
            /\ ~Between(head, i, {"number", "title"}) /\ Between(head, i, {"header"})}
    ELSE {i \in RowsOf({"line"}) :
            head <= i /\ file[i].ref.text /\ ~\E h \in Heads : head < h /\ h <= i}

\* The place of a head is that of its order.
PlaceOf(head) == Cardinality({h \in Heads : h <= head})

\* Every product of every order is invoiced once, in the order of the file, on the
\* invoice of its own order and read with the columns of its own table: no file makes
\* the reader drop, repeat or move a line.  (A product row that says REFERENCE is taken
\* for a header: files without one.)
LinesKept ==
    Written /\ ~(\E i \in RowsOf({"product"}) : file[i].mentions) =>
        /\ Len(invoices) = Cardinality(Heads)
        /\ \A head \in Heads :
             LET lines == invoices[PlaceOf(head)].lines
                 goods == {n \in DOMAIN lines : lines[n].mention = ""}
             IN  /\ {lines[n].row : n \in goods} = Products(head)
                 /\ \A m, n \in goods : m < n => lines[m].row < lines[n].row
                 /\ \A l \in ToSet(orders[PlaceOf(head)].lines) :
                      \/ ~Taylorman
                      \/ /\ l.columns \in RowsOf({"header"}) /\ head < l.columns
                         /\ ~Between(l.columns, l.row, {"header"})

\* An invoice goes to a customer only for a reason: names that are alike enough, the
\* address helping, one that begins the other, two words in common, or one word and a
\* part of the address; one common word alone attaches nothing (generator.py,
\* score_client).  No other customer fits better, and an invoice stays without one only
\* if nobody reaches the threshold.
AttachedForAReason ==
    \A k \in DOMAIN invoices :
        LET o == orders[k]
            c == CardRows[invoices[k].card]
        IN  IF invoices[k].card = 0
            THEN \A d \in Clients : Score(o, CardRows[d]) < Threshold
            ELSE /\ \/ Ratio(Norm(o.name), Norm(c.name)) + AddressBonus(o, c) >= Threshold
                    \/ OneBeginsOther(o.name, c.name)
                    \/ Cardinality(Words(o.name) \cap Words(c.name)) >= 2
                    \/ Words(o.name) \cap Words(c.name) # {} /\ AddressBonus(o, c) > 0
                 /\ \A d \in Clients : Score(o, CardRows[d]) <= Score(o, c)

\* The region an invoice goes to, whatever the spelling of its country: overseas by the
\* postcode or the country, else the region of the country _PAYS_TABLE names.
RegionOf(country, cp) ==
    CASE \/ cp \in OverseasCodes \/ NameOf(country) = "MARTINIQUE"
         \/ NormCountry(country) = "NOUVELLE CALEDONIE" -> "OUTREMER"
      [] cp \notin OverseasCodes /\ (country = "" \/ NameOf(country) = "FRANCE") -> "FRANCE"
      [] cp \notin OverseasCodes /\ NameOf(country) \in {"ITALIE", "PAYS-BAS"} -> "CEE"
      [] OTHER -> "HORSCEE"

\* The spellings _PAYS_TABLE knows and neither PAYS_DOM, PAYS_UE nor regime_client does:
\* "PAYS-BAS" is in PAYS_UE, but is compared with "PAYS BAS".
Missed == {"FRA", "ITA", "ITALY", "PAYS-BAS", "PAYS BAS", "NLD", "NETHERLANDS", "MQ"}

\* The invoice of a customer whose card gives no VAT mode has the legal mention of the
\* region it goes to, as its last line, and VAT on every line exactly when that region
\* is France; but a country in a spelling the region tables lack is invoiced without
\* VAT, as outside the Union, unless its postcode is overseas.
MentionMatchesRegion ==
    \A k \in DOMAIN invoices :
        LET o      == orders[k]
            i      == invoices[k]
            cp     == Preferred(i.card, o, "cp")
            region == IF i.country \in Missed /\ cp \notin OverseasCodes THEN "HORSCEE"
                      ELSE RegionOf(i.country, cp)
            given  == i.card # 0 /\ CardRows[i.card].mode # ""
        IN  /\ ~given => i.vat.mention = IF region = "FRANCE" THEN "" ELSE region
            /\ \A n \in DOMAIN i.lines :
                 /\ i.lines[n].no = n
                 /\ i.lines[n].mention # "" <=> n = Len(i.lines) /\ i.vat.mention # ""
                 /\ i.lines[n].rate = IF i.vat.exempt THEN 0 ELSE RateOf(i.lines[n].article)
            /\ i.vat.exempt /\ i.vat.mode \in Categorised => i.vat.category /\ i.vat.reason

\* A line is invoiced as the article of its own colour whenever the export has it, and
\* otherwise as one of the same reference.
OwnColourFirst ==
    \A k \in DOMAIN invoices : \A n \in DOMAIN orders[k].lines :
        LET ref     == orders[k].lines[n].ref
            article == invoices[k].lines[n].article
            known(field) == ref[field] # "" /\ \E r \in ToSet(ArticleRows) : r[field] = ref[field]
        IN  \/ article = 0 /\ ~known("base")
            \/ article # 0 /\ ArticleRows[article].full = ref.full
            \/ article # 0 /\ ArticleRows[article].base = ref.base /\ ~known("full")

\* Every invoice without a customer, every article the export lacks and the unknown
\* countries are in the caption or counted by its last line: nothing to check in Sage
\* is hidden from the sender (service.py, _warnings).
NothingHidden ==
    LET faults ==
          {Item("client", k) : k \in {k \in DOMAIN invoices : invoices[k].card = 0}}
          \cup {Item("article", i) : i \in
                  {i \in DOMAIN file : \E k \in DOMAIN invoices : \E l \in ToSet(invoices[k].lines) :
                     l.row = i /\ l.article = 0}}
          \cup (IF \E k \in DOMAIN invoices :
                     invoices[k].country # "" /\ ~IsKnown(invoices[k].country)
                THEN {Item("countries", 0)} ELSE {})
    IN  pc = "answered" => Cardinality(faults \ ToSet(caption.shown)) <= caption.more
=============================================================================
