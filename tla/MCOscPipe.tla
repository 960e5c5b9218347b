----------------------------- MODULE MCOscPipe -----------------------------
(* An instance of OscPipe for TLC: short messages with every kind of        *)
(* argument, with bytes that are SLIP delimiters and escapes; the texts are *)
(* those of the comment in CreatePacketWriterForString, with shorter words. *)
EXTENDS OscPipe

Arg(type, value) == [type |-> type, value |-> value]
Message(path, args) == [path |-> path, args |-> args]

x == <<120>>
y == <<121>>
MCMethods == {<<>>, <<x>>, <<x, y>>}

\* The word of the bytes END, ESC, ESC_END, 1, and the other way around.
Specials == Int32(<<END, ESC, ESC_END, 1>>)
Slaicep  == Int32(<<1, ESC_ESC, ESC, END>>)

\* /x/y, /x, /x/z and /w/x
Special == Message(<<47, 120, 47, 121>>, <<Arg("INT32", <<Specials>>), Arg("FLOAT32", <<Slaicep>>)>>)
Mixed   == Message(<<47, 120>>, <<Arg("STRING", <<97, 98, 99>>), Arg("BLOB", <<ESC, ESC_ESC>>), Arg("TRUE", <<>>), Arg("FALSE", <<>>)>>)
Wide    == Message(<<47, 120, 47, 122>>, <<Arg("CHAR", <<65>>), Arg("INT64", <<-2, 5>>), Arg("MIDI", <<7>>)>>)
Bare    == Message(<<47, 119, 47, 120>>, <<>>)
Short   == Message(<<47, 121>>, <<Arg("INFINITY", <<>>), Arg("STRING", <<99>>)>>)
Long    == Message(<<47, 120, 47, 121>>, [i \in 1..6 |-> IF i = 4 THEN Arg("STRING", [j \in 1..21 |-> 97]) ELSE Arg("INT32", <<i>>)])

\* Two short ones fit a bundle; all of a blob may have to be escaped; a color.
Tiny    == Message(<<47, 120>>, <<Arg("INT32", <<Specials>>)>>)
Flags   == Message(<<47, 121>>, <<Arg("INFINITY", <<>>), Arg("NULL", <<>>)>>)
Eights  == Message(<<47, 120>>, <<Arg("FLOAT64", <<1, Specials>>), Arg("TIME", <<-1, 3>>)>>)
Doubled == Message(<<47, 120>>, <<Arg("BLOB", [i \in 1..28 |-> END])>>)
Colored == Message(<<47, 120>>, <<Arg("RGBA32", <<7>>), Arg("INT32", <<1>>)>>)

Packet(message)        == [kind |-> "packet", messages |-> <<message>>]
Bundle(messages)       == [kind |-> "bundle", messages |-> messages]
List(message, limit)   == [kind |-> "list", messages |-> <<message>>, limit |-> limit]

\* /o=text means strings or numbers
o == <<47, 111>>
Text(text, args) == [kind |-> "text", text |-> o \o <<EQUALS>> \o text, messages |-> <<Message(o, args)>>]
S(chars) == Arg("STRING", chars)
N(n)     == Arg("INT32", <<n>>)

\* A text without a path makes no packet.
NoPath == [kind |-> "text", text |-> <<111, EQUALS, 97>>, messages |-> <<>>]

a == 97
b == 98
c == COMMA
q == QUOTE
Texts == <<
  Text(<<a>>, <<S(<<a>>)>>),
  Text(<<a, c, b>>, <<S(<<a>>), S(<<b>>)>>),
  Text(<<q, a, c, b, q>>, <<S(<<a, c, b>>)>>),
  Text(<<q, a, c, q, c, q, b, c, q>>, <<S(<<a, c>>), S(<<b, c>>)>>),
  Text(<<q, q, q, a, c, b, q, q, q>>, <<S(<<q, a, c, b, q>>)>>),
  Text(<<q, q, q, a, c, q, q, q, c, q, q, q, b, c, q, q, q>>, <<S(<<q, a, c, q>>), S(<<q, b, c, q>>)>>),
  Text(<<49, 50, c, c, SPACE, 45, 55, SPACE, c, q, 51, q, c, 43>>, <<N(12), N(-7), S(<<51>>), S(<<43>>)>>)
  >>

MCPrograms == {
  <<Packet(Special), Packet(Mixed), Packet(Wide)>>,
  <<Packet(Bare), Bundle(<<Tiny, Flags>>), Packet(Short)>>,
  <<Packet(Doubled), Packet(Eights)>>,
  <<Packet(Long), List(Long, 40)>>,
  <<List(Long, 44), Packet(Mixed), Packet(Wide)>>, <<List(Long, 32)>>, <<List(Bare, 20), Packet(Special)>>,
  SubSeq(Texts, 1, 4), <<NoPath>> \o SubSeq(Texts, 5, 7)
  }

MCColors == {<<Packet(Colored)>>}
=============================================================================
