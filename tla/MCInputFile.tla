------------------------------ MODULE MCInputFile ------------------------------
\* Every file of up to four lines, the last one with or without a newline, made
\* of empty lines and lines of three lengths with one of four contents.  An
\* unsigned int has 4 values and an unsigned long 16: the numbers 4, 5, 16 and 17
\* do not survive.
EXTENDS InputFileProperties, SequencesExt
Content == {<<0, 1, 3, "n">>, <<1, 2, 2, "p">>, <<5, 5, 4, "p">>, <<16, 17, 16, "n">>}
TextLine(n, e, c) ==
  [length |-> n, ended |-> e, arrival |-> c[1], pid |-> c[2], exec |-> c[3], flag |-> c[4]]
EmptyLine == TextLine(0, TRUE, <<0, 0, 0, "n">>)
LinesThatEnd == {TextLine(n, TRUE, c) : n \in 7 .. 9, c \in Content} \cup {EmptyLine}
LinesThatDoNot == {TextLine(n, FALSE, c) : n \in 7 .. 9, c \in Content}
MCInputFiles ==
  BoundedSeq(LinesThatEnd, 4)
  \cup {Append(f, l) : f \in BoundedSeq(LinesThatEnd, 3), l \in LinesThatDoNot}
=============================================================================
