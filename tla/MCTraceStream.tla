--------------------------- MODULE MCTraceStream ----------------------------
EXTENDS TraceStream

MCDerived == 21 :> <<"u64", "u64", "InternedString", "u64", "InternedString", "u64">> @@
             22 :> <<"u16", "f64", "String">>
MCNarrowWidth == [u8 |-> 8, u16 |-> 16, u32 |-> 32]
MCNoThreadName == <<60>>

Raw(name, ts, values) == [name |-> name, ts |-> ts, values |-> values]
MCEvents == {Raw(PollStartEvent, 0, <<<<1>>, <<9>>, <<5>>, <<97>>>>),
             Raw(TaskSpawnEvent, 3, <<<<31>>, <<>>>>),
             Raw(CpuSampleEvent, 1, <<<<2>>, <<7>>, <<1>>, <<97>>, <<0, 4, 6>>>>),
             Raw(CpuSampleEvent, 5, <<<<2>>, <<7>>, <<0>>, <<>>, <<9, 12, 13>>>>),
             Raw(SegmentMetadataEvent, 2, <<<<<<<<97>>, <<98, 99>>>>>>>>),
             Raw(22, 6, <<<<9>>, <<1>>, <<98>>>>)}
MCManual == {[name |-> PollEndEvent, fields |-> <<U32, Bool>>, ts |-> 4, values |-> <<<<7>>, <<1>>>>,
              read_as |-> <<<<7>>>>],
             [name |-> 21, fields |-> <<Bool, String, Bytes>>, ts |-> 0,
              values |-> <<<<0>>, <<97>>, <<NotUtf8>>>>, read_as |-> <<>>],
             [name |-> QueueSampleEvent, fields |-> <<String>>, ts |-> 0, values |-> <<<<97>>>>,
              read_as |-> <<>>]}

\* overlapping mappings, a path with a blank, and lines that are passed over
MCProcMaps == <<<<<<2, 9>>, {"r"}, 0, 0, 0, <<47, 99>>>>,
                <<<<0, 2>>, {"r", "x"}, 0, 0, 0>>,
                <<<<3, 5>>, {"r", "x"}, 1, 0, 0, <<47, 97>>>>,
                <<<<4, 8>>, {"r", "x"}, 2, 0, 0, <<47, 98>>, <<99>>>>,
                <<<<9, 12>>, {"r", "x"}, 0, 0, 0, <<91, 97>>>>,
                <<<<9, 32>>, {"r", "x"}, 0, 0, 0, <<47, 99>>>>>>
NoCode == <<>>
CodeAt(dir, file, line) == <<[dir |-> dir, file |-> file, line |-> line]>>
MCCode == <<<<47, 97>>, 2>> :> <<[name |-> <<97>>, code |-> NoCode],
                                 [name |-> <<98>>, code |-> CodeAt(<<97>>, <<98>>, <<2>>)]>> @@
          <<<<47, 98>>, 4>> :> <<[name |-> <<98>>, code |-> CodeAt(<<>>, <<97>>, <<>>)]>> @@
          <<<<47, 98>>, 2>> :> <<[name |-> <<97>>, code |-> NoCode]>> @@
          <<<<107>>, 12>> :> <<[name |-> <<99>>, code |-> NoCode]>>
=============================================================================
