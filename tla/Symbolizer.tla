----------------------------- MODULE Symbolizer ------------------------------
(***************************************************************************)
(* From addresses to functions (perf-self-profile/src: symbolize.rs and    *)
(* offline_symbolize.rs), by the memory map of the process and what        *)
(* blazesym, which is external, finds in the files that are mapped.  One   *)
(* address is resolved while the program runs, all of a trace afterwards,  *)
(* in batches.                                                             *)
(***************************************************************************)
EXTENDS TraceEvents

CONSTANTS
    ProcMaps,     \* /proc/self/maps: the words of its lines; the first is a pair of numbers,
                  \* the second the set of the permissions
    KernelStart,  \* USER_ADDR_LIMIT
    Code,         \* what blazesym finds at a place in a file: a function and those that were
                  \* inlined into it, each with its name and its code (file and line, or <<>>)
    SymbolTable   \* the name of SymbolTableEntry

\* what blazesym says of a function: names are texts, a line fits, where there is one
IsFunction(f) ==
    /\ f.name \in Texts
    /\ f.code # <<>> => /\ f.code = <<f.code[1]>> /\ f.code[1].dir \in Texts /\ f.code[1].file \in Texts
                        /\ f.code[1].line # <<>> => f.code[1].line \in {<<n>> : n \in 0 .. Width - 1}

ASSUME SymbolizerAssumption ==
    /\ SymbolTable \in DOMAIN Structs
    /\ Structs[SymbolTable] = <<"u64", "u64", "InternedString", "u64", "InternedString", "u64">>
    /\ ProcMaps \in Seq(Range(ProcMaps)) /\ \A i \in DOMAIN ProcMaps : Len(ProcMaps[i]) >= 6 => ProcMaps[i][6] \in Texts
    /\ \A place \in DOMAIN Code : /\ Code[place] \in Seq(Range(Code[place])) /\ Len(Code[place]) <= Width
                                  /\ \A d \in DOMAIN Code[place] : IsFunction(Code[place][d])

Slash == 47

\* Only code that is mapped from a file counts; a path ends at its first blank, and a
\* number that does not fit drops the line.
parse_maps_line(words) ==
    IF /\ Len(words) >= 6 /\ "x" \in words[2] /\ Head(words[6]) = Slash
       /\ Len(words[1]) = 2 /\ \A n \in {words[1][1], words[1][2], words[3]} : n < Width
    THEN <<[start |-> words[1][1], end |-> words[1][2], file_offset |-> words[3], path |-> words[6]]>>
    ELSE <<>>

parse_proc_maps(lines) == FlattenSeq([i \in DOMAIN lines |-> parse_maps_line(lines[i])])
Mappings == parse_proc_maps(ProcMaps)

\* Where an address belongs: to the kernel, or to the first mapping it is in, if any
Kernel == 0
KernelFile == <<107>>
MappingOf(a) ==
    LET in(i) == Mappings[i].start <= a /\ a < Mappings[i].end
    IN  IF a >= KernelStart THEN {Kernel} ELSE {i \in DOMAIN Mappings : in(i) /\ \A j \in 1 .. i - 1 : ~in(j)}

\* what blazesym finds
Functions(place) == IF place \in DOMAIN Code THEN Code[place] ELSE <<>>

\* the text of an address, which is like no other
Hex(a) == <<NotUtf8 + 1 + a>>

\* dir and file of the debug information in one
Joined(c) == IF c.dir = <<>> THEN c.file ELSE c.dir \o <<Slash>> \o c.file

-----------------------------------------------------------------------------
(* While the program runs *)

convert_code_info(code) == [i \in DOMAIN code |-> [file |-> Joined(code[i]), line |-> code[i].line]]
SymbolInfo(f) == [name |-> f.name, code_info |-> convert_code_info(f.code)]
Unnamed(a) == [name |-> Hex(a), code_info |-> <<>>]

\* from the outermost function to the innermost; blazesym fails on the files in broken
resolve_symbols_with_maps(a, broken) ==
    LET place(i) == IF i = Kernel THEN <<KernelFile, a>>
                    ELSE <<Mappings[i].path, a - Mappings[i].start + Mappings[i].file_offset>>
        functions(i) == IF i \in broken THEN <<>> ELSE Functions(place(i))
        infos(i) == [d \in DOMAIN functions(i) |-> SymbolInfo(functions(i)[d])]
    IN  CASE MappingOf(a) = {} -> <<>>
          [] MappingOf(a) = {Kernel} /\ infos(Kernel) = <<>> -> <<Unnamed(a)>>
          [] OTHER -> infos(CHOOSE i \in MappingOf(a) : TRUE)

-----------------------------------------------------------------------------
(* Afterwards *)

\* collect_stack_frame_addresses
Addresses(d) ==
    LET stacks(e) == {e.values[i] : i \in {j \in DOMAIN e.values : e.types[j] = StackFrames}}
    IN  UNION {UNION {Range(v) : v \in stacks(e)} : e \in Range(d.events)} \ {0}

FileOf(i) == IF i = Kernel THEN KernelFile ELSE Mappings[i].path
\* variant: a mapping is taken for the beginning of its file
Offset_of_first(i, a) == IF i = Kernel THEN a ELSE a - Mappings[i].start
Offset(i, a) == IF i = Kernel THEN a ELSE a - Mappings[i].start + Mappings[i].file_offset
Found(i, a) == Functions(<<FileOf(i), Offset(i, a)>>)

SymbolEntry(a, name, depth, file, line) ==
    [name |-> SymbolTable, ts |-> 0, values |-> <<<<a>>, <<0>>, name, <<depth>>, file, <<line>>>>]

\* where there is no debug information the file is empty and the line 0
intern_code_info(code) ==
    IF code = <<>> THEN [file |-> <<>>, line |-> 0]
    ELSE [file |-> Joined(code[1]), line |-> IF code[1].line = <<>> THEN 0 ELSE code[1].line[1]]

\* write_symbolized_batch: the entries of one address
Symbols(i, a) ==
    LET entry(d) == LET c == intern_code_info(Found(i, a)[d].code)
                    IN  SymbolEntry(a, Found(i, a)[d].name, d - 1, c.file, c.line)
    IN  [d \in DOMAIN Found(i, a) |-> entry(d)]
Placeholder(i, a) == <<SymbolEntry(a, Hex(a), 0, FileOf(i), 0)>>

\* what is written for an address that is looked up in mapping i
Entries(i, broken, known, a) ==
    IF a \notin known \/ i \notin MappingOf(a) THEN <<>>
    ELSE IF i \in broken THEN Placeholder(i, a) ELSE Symbols(i, a)

\* what is written for the mappings in this order, each by address; a batch fails as a
\* whole, an address alone is left out
InOrder(order, broken, known) ==
    LET lines(i) == FlattenSeq([n \in 1 .. Width |-> Entries(i, broken, known, n - 1)])
    IN  FlattenSeq([i \in DOMAIN order |-> lines(order[i])])

\* write_symbol_data: the kernel's addresses first, then mapping by mapping in the
\* order of a hash map.  The sequences of entries that may come of it:
SymbolData(addresses) ==
    LET known == {a \in addresses : MappingOf(a) # {}}
        groups == UNION {MappingOf(a) : a \in known}
        kernel == IF Kernel \in groups THEN <<Kernel>> ELSE <<>>
        all(broken) == {InOrder(kernel \o user, broken, known) : user \in SetToSeqs(groups \ {Kernel})}
    IN  UNION {all(broken) : broken \in SUBSET groups}
=============================================================================
