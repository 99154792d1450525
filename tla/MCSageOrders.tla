---------------------------- MODULE MCSageOrders ----------------------------
(***************************************************************************)
(* Values for SageOrders: small customer and article exports in which      *)
(* every branch of the lookups is taken, files in both formats.            *)
(***************************************************************************)
EXTENDS SageOrders

Card(code, name, cp, city, number, country, mode) ==
    [code |-> code, name |-> name, cp |-> cp, city |-> city, number |-> number,
     country |-> country, mode |-> mode]

\* A one-word customer, one with a VAT mode of its own, two alike, one without a code,
\* one whose country PAYS_UE cannot match.
MCCardRows == <<
    Card("C1", <<"PAS">>, "75001", "PARIS", "6", "FRANCE", ""),
    Card("C2", <<"KUBERA", "SARL">>, "20100", "MILAN", "", "ITALIE", ""),
    Card("C3", <<"KUBERA", "MODE">>, "97200", "", "", "", "AUTRE"),
    Card("",   <<"SANS", "CODE">>, "", "", "", "", "LOCAL"),
    Card("C5", <<"TULIP", "BV">>, "1012", "AMSTERDAM", "", "PAYS-BAS", ""),
    Card("C4", <<"GRAND", "LARGE", "MODE">>, "", "", "", "SUISSE", "SUSPENSION DE TAXE") >>

Article(full, base, rate) == [full |-> full, base |-> base, rate |-> rate]

MCArticleRows == <<
    Article("CFA-2", "CFA", 5), Article("CFA-1", "CFA", NoRate), Article("", "", 20),
    Article("CFB", "CFB", 20), Article("-1", "", 5) >>

MCRatio(a, b) == IF a = b THEN 100 ELSE IF Len(a) = Len(b) THEN 45 ELSE 30
MCBegins(a, b) == IsPrefix(b, a)

Address(cp, city, number, country) ==
    [cp |-> cp, city |-> city, number |-> number, country |-> country]

Paris    == Address("75001", "PARIS", "", "FRANCE")
Reunion  == Address("97200", "", "6", "")
Rome     == Address("", "", "", "ITALY")
Noumea   == Address("98800", "NOUMEA", "", "NOUVELLE-CALEDONIE")
Lille    == Address("59000", "LILLE", "", "FRA")
Utrecht  == Address("", "", "", "NL")
FortDeFrance == Address("", "", "", "MQ")
Narnia   == Address("75001", "PARIS", "6", "NARNIA")

Ref(full, base) == [full |-> full, base |-> base, text |-> TRUE]
Colour1  == Ref("CFA-1", "CFA")
Colour3  == Ref("CFA-3", "CFA")
Unknown  == Ref("CFZ", "CFZ")
Symbols  == Ref("-3", "")
Blank    == [full |-> "", base |-> "", text |-> FALSE]

ClientNames == {<<"PAS">>, <<"N", "EXISTE", "PAS", "SARL">>, <<"KUBERA">>, <<"GRAND", "MODE">>,
                <<"PAS", "ZHUANG">>, <<"ZHUANG">>, <<"TULIP", "BV">>}

Line(client, address, ref) ==
    [kind |-> "line", client |-> client, address |-> address, ref |-> ref]

OrderLines == {Line(n, a, r) : n \in ClientNames, a \in {Paris, Reunion, Rome, Noumea, Narnia},
                               r \in {Colour1, Unknown, Blank}}
    \cup {Line(<<"N", "EXISTE", "PAS", "SARL">>, a, Colour1) :
            a \in {Lille, Utrecht, FortDeFrance}}
MoreLines  == {Line(<<>>, NoAddress, r) : r \in {Colour3, Unknown, Symbols, Blank}}

Tables ==
    {<<l>> : l \in OrderLines \cup MoreLines}
    \cup {<<l, m>> : l \in OrderLines, m \in OrderLines \cup MoreLines}
    \cup {<<m, l, n, o>> : l \in OrderLines, m, n, o \in MoreLines}

Title   == [kind |-> "title"]
Number  == [kind |-> "number"]
Header  == [kind |-> "header"]
Client(name) == [kind |-> "client", client |-> name]
Product(ref, mentions) == [kind |-> "product", ref |-> ref, mentions |-> mentions]

BlockRows ==
    {Title, Number, Header, [kind |-> "amount"],
     Client(<<"PAS">>), [kind |-> "address", address |-> Narnia],
     Product(Colour1, FALSE), Product(Unknown, TRUE), Product(Blank, FALSE)}

Blocks ==
    {<<Title, Number>> \o s : s \in TupleOf(BlockRows \ {Product(Blank, FALSE), [kind |-> "amount"]}, 5)}
    \cup {<<Client(<<"PAS">>), Title>> \o s : s \in TupleOf(BlockRows, 3)}
    \cup TupleOf(BlockRows, 2)
    \cup {<<Title, Number, Client(n), [kind |-> "address", address |-> a], Header,
            Product(r, FALSE)>> :
            n \in ClientNames, a \in {Paris, Reunion, Rome, Noumea, Narnia, Lille,
                                       Utrecht, FortDeFrance},
            r \in {Colour1, Colour3, Symbols}}

MCFiles == Tables \cup Blocks
=============================================================================
