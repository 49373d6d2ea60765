--------------------------- MODULE MCNbdHandshake ---------------------------
(* Values of the constants of NbdHandshake for the model checker. *)
EXTENDS NbdHandshake

Magic == <<9, 8, 1, 11, 5, 15, 14, 13>>
Name  == <<5, 9>>
Names == {Name}

UInt(n) == <<(n \div (Base * Base * Base)) % Base, (n \div (Base * Base)) % Base,
             (n \div Base) % Base, n % Base>>
Header(id, length) == Magic \o UInt(id) \o UInt(length)
Option(id, data) == Header(id, Len(data)) \o data

GoodFlags == UInt(0)
ExportName(name) == Option(NBD_OPT_EXPORT_NAME, name)

\* Options that are skipped: without data, short, long, one that looks like
\* the start of another option.
Skipped == {<<>>, Option(3, <<>>), Option(2, <<1, 2, 3>>),
            Option(1 + Base, <<9, 8, 7, 6, 5>>), Option(6, Magic)}

\* Sends that end in transmission mode, after up to two other options.
GoodStreams == {GoodFlags \o x \o y \o ExportName(Name) : x, y \in Skipped}

\* Sends that are wrong at some point, or stop half way.
BadStreams ==
  {UInt(1), UInt(Base),
   GoodFlags \o ExportName(<<5, 8>>),
   GoodFlags \o ExportName(<<5>>),
   GoodFlags \o ExportName(Name \o <<0>>),
   GoodFlags \o ExportName(Name) \o <<9>>,
   GoodFlags \o Option(3, <<4>>) \o Magic \o <<1>>,
   GoodFlags \o <<9, 8, 1, 11, 6>>,
   GoodFlags \o Option(2, <<1, 2>>) \o <<1>>,
   GoodFlags \o Header(2, Width - 20) \o <<1, 2>>}

AllStreams == GoodStreams \cup BadStreams

\* A client that sends its flags, any options and then EXPORT_NAME for a device
\* that is there gets into transmission mode, unless the connection fails
\* (NbdServer.cpp:350-548).
EntersTransmission ==
  stream \in GoodStreams => <>(handler = "transmission" \/ lost)

\* An option as long as a UINT can say.
LongStreams == {GoodFlags \o Header(2, Width - 19) \o <<1, 2>>}
=============================================================================
