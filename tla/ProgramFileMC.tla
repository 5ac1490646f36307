---------------------------- MODULE ProgramFileMC ----------------------------
\* Sources and runtimes for the model checking of ProgramFile: machines with two
\* registers and two constants, programs that fill them and that need one or
\* two more, word sizes and builds that match or not, one of them without a runtime.
EXTENDS ProgramFile, TLC

Escapes == "\\n" :> "newline" @@ "\\t" :> "tab"

Word(v) == [type |-> "WORD", val |-> v]
Ptr(v)  == [type |-> "PTR", val |-> v]
Str(t)  == [type |-> "STR", val |-> t]

Source(ws, zlib, registers, constants) ==
  [ws |-> ws, zlib |-> zlib, registers |-> registers, constants |-> constants, vmem |-> <<>>]

Small  == Source(16, TRUE, <<>>, <<>>)
Filled == Source(16, TRUE, <<"A", "B">>, <<Str(<<"x", "\\n", "y", "\\t">>), Ptr(4)>>)
Plain  == Source(16, FALSE, <<"A">>, <<Str(<<"x", "\\n">>), Word(1)>>)
Wide   == Source(32, TRUE, <<"A">>, <<Word(1)>>)
Alien  == Source(64, FALSE, <<>>, <<>>)
Virtual == [Wide EXCEPT !.vmem = <<"segment">>]
ManyRegisters == Source(16, TRUE, <<"A", "B", "C">>, <<>>)
Constants3 == Source(16, TRUE, <<>>, <<Word(1), Word(2), Word(3)>>)
Constants4 == Source(16, FALSE, <<>>, <<Word(1), Word(2), Word(3), Word(4)>>)

AllSources == {Small, Filled, Plain, Wide, Alien, Virtual, ManyRegisters, Constants3, Constants4}
AllBuilds == {[ws |-> 16, zlib |-> TRUE], [ws |-> 16, zlib |-> FALSE], [ws |-> 32, zlib |-> TRUE]}
MadeScripts == {Filled, Constants3}
==============================================================================
