----------------------------- MODULE MCPipeline -----------------------------
(***************************************************************************)
(* Values for Pipeline: addresses in every form an operator may type, and  *)
(* one or two messages at a time.                                          *)
(***************************************************************************)
EXTENDS Pipeline

Typed(text, at, legacy, digits) ==
    [text |-> text, at |-> at, legacy |-> legacy, digits |-> digits]

Phone    == Typed("33612345678", "", FALSE, 11)
Device   == Typed("33612345678", "s.whatsapp.net", FALSE, 0)
Stranger == Typed("118141732556813", "lid", FALSE, 0)
Group    == Typed("120363000000000000", "", FALSE, 18)
OldGroup == Typed("33612345678-1612345678", "", TRUE, 0)
Short    == Typed("1234567", "", FALSE, 7)
Channel  == Typed("33612345678", "newsletter", FALSE, 0)
Nord     == Typed("nord", "", FALSE, 0)
Sud      == Typed("sud", "", FALSE, 0)
Nobody   == Typed("", "", FALSE, 0)

MCAdmins  == {Phone, Short}
MCStored  == [nord |-> OldGroup]
MCEnv     == [nord |-> Phone, sud |-> Channel]
MCTargets == <<<<"120363000000000000", "g.us">>, <<"33612345678-1612345678", "g.us">>>>

Chat(from, group) == IF group THEN <<"120363000000000001", "g.us">> ELSE NormaliseJid(from)

Text(from, group, command, keyword, lines) ==
    [type |-> "text", spreadsheet |-> FALSE, file |-> FALSE, from |-> from, group |-> group,
     chat |-> Chat(from, group), command |-> command, keyword |-> keyword, lines |-> lines,
     long |-> FALSE]
Document(from, spreadsheet, file) ==
    [type |-> "document", spreadsheet |-> spreadsheet, file |-> file, from |-> from,
     group |-> FALSE, chat |-> Chat(from, FALSE), command |-> "", keyword |-> FALSE,
     lines |-> <<>>, long |-> FALSE]

Long(m) == [m EXCEPT !.long = TRUE]

Skipped(kind)   == [kind |-> kind, to |-> Nobody, text |-> FALSE]
Entry(to, text) == [kind |-> "entry", to |-> to, text |-> text]

Batches ==
    { <<Skipped("blank")>>,
      <<Skipped("blank"), Entry(Group, TRUE), Skipped("comment"), Entry(Nord, TRUE), Entry(Sud, TRUE)>>,
      <<Entry(Short, TRUE), Skipped("bare"), Entry(Phone, TRUE), Entry(Nobody, TRUE)>>,
      <<Entry(Phone, FALSE), Entry(Channel, TRUE)>>,
      <<Entry(Phone, TRUE), Entry(Phone, TRUE), Entry(Group, TRUE)>> }

Messages ==
    {Text(Device, FALSE, "!envoi", TRUE, b) : b \in Batches}
    \cup {Text(Stranger, FALSE, "!envoi", TRUE, <<Entry(Phone, TRUE)>>),
          Text(Device, TRUE, "!envoi", TRUE, <<Entry(Phone, TRUE)>>),
          Text(Device, FALSE, "!ping", TRUE, <<>>), Text(Device, TRUE, "!ping", TRUE, <<>>),
          Text(Stranger, FALSE, "", TRUE, <<>>), Text(Stranger, FALSE, "", FALSE, <<>>),
          Document(Device, TRUE, TRUE), Document(Device, TRUE, FALSE),
          Long(Text(Stranger, FALSE, "", TRUE, <<>>)),
          Long(Text(Device, FALSE, "!envoi", FALSE, <<Entry(Phone, TRUE), Skipped("bare")>>)),
          Document(Device, FALSE, TRUE), Document(Stranger, TRUE, TRUE)}

MCInbox ==
    {{m} : m \in Messages}
    \cup {{Text(Device, FALSE, "", TRUE, <<>>),
           Text(Device, FALSE, "!envoi", TRUE, <<Entry(Group, TRUE), Entry(Sud, TRUE)>>)}}
=============================================================================
