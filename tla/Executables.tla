------------------------------ MODULE Executables ------------------------------
(***************************************************************************)
(* How a program gets from the sections of its COFF file, by way of the    *)
(* NOFF file that bin/coff2noff.c makes of them, into its address space,   *)
(* where the constructor of AddrSpace (userprog/addrspace.cc) puts its     *)
(* bytes.                                                                  *)
(***************************************************************************)
EXTENDS Integers, Sequences

CONSTANTS PageSize, UserStackSize

-------------------------------------------------------------------------------
(* From the NOFF file into the address space. Code starts at virtual address 0  *)
(* and the data is to follow it at once; a byte is given by where it comes from. *)
(* The size of the last data page is a variable that nothing sets. Its value,   *)
(* read as the number of bytes to copy, is a parameter: the bytes of the data   *)
(* are the last ones of the file, so that any greater number copies what is     *)
(* left, and a negative one copies nothing.                                     *)

Zero == <<"zero", 0>>
Code(k) == <<"code", k>>
Data(k) == <<"data", k>>

DivRoundUp(n, s) == IF n % s = 0 THEN n \div s ELSE n \div s + 1

NumPages(codeSize, dataSize, bssSize) ==
  DivRoundUp(codeSize + dataSize + bssSize + UserStackSize, PageSize)

NumCodePages(codeSize) == DivRoundUp(codeSize, PageSize)
LastCodePageSize(codeSize) == codeSize - (NumCodePages(codeSize) - 1) * PageSize

\* The data bytes that do not fit behind the code in its last page.
TempDataSize(codeSize, dataSize) == dataSize - (PageSize - LastCodePageSize(codeSize))

NumDataPages(codeSize, dataSize) ==
  LET more == TempDataSize(codeSize, dataSize)
  IN  IF more < 0 THEN 0 ELSE DivRoundUp(more, PageSize)

\* A slip: the first data bytes fill a page of their own.
FirstDataPageSizeWhole(codeSize, dataSize) == IF dataSize < PageSize THEN dataSize ELSE PageSize

FirstDataPageSize(codeSize, dataSize) ==
  IF TempDataSize(codeSize, dataSize) < 0 THEN dataSize
  ELSE PageSize - LastCodePageSize(codeSize)

\* Byte offset of page, after the three loops over pages that bzero has cleared.
LoadedByte(codeSize, dataSize, lastDataPageSize, page, offset) ==
  LET codePages == NumCodePages(codeSize)
      lastCode == LastCodePageSize(codeSize)
      firstData == FirstDataPageSize(codeSize, dataSize)
      dataPages == NumDataPages(codeSize, dataSize)
      j == page - codePages
      from == j * PageSize + firstData + offset
  IN  CASE page < codePages - 1 -> Code(page * PageSize + offset)
        [] page = codePages - 1 ->
             IF offset < lastCode THEN Code(page * PageSize + offset)
             ELSE IF offset < lastCode + firstData THEN Data(offset - lastCode)
             ELSE Zero
        [] j \in 0..(dataPages - 1) ->
             IF from < dataSize /\ (j < dataPages - 1 \/ offset < lastDataPageSize)
             THEN Data(from) ELSE Zero
        [] OTHER -> Zero

-------------------------------------------------------------------------------
(* From the sections of the COFF file to the NOFF file *)

NoSegment == [virtualAddr |-> 0, size |-> 0]

Segment(section) == [virtualAddr |-> section.paddr, size |-> section.size]

\* One section of the file: its segment, or an error that ends the conversion.
\* Two sections of uninitialized data are an error when they are contiguous.
AddSection(header, section) ==
  LET rejected == [header EXCEPT !.accepted = FALSE]
      bss == header.uninitData
  IN  IF ~header.accepted \/ section.size = 0 THEN header
      ELSE CASE section.name = ".text" -> [header EXCEPT !.code = Segment(section)]
             [] section.name \in {".data", ".rdata"} ->
                  IF header.initData.size # 0 THEN rejected
                  ELSE [header EXCEPT !.initData = Segment(section)]
             [] section.name \in {".bss", ".sbss"} ->
                  IF bss.size = 0 THEN [header EXCEPT !.uninitData = Segment(section)]
                  ELSE IF section.paddr = bss.virtualAddr + bss.size THEN rejected
                  ELSE [header EXCEPT !.uninitData.size = @ + section.size]
             [] OTHER -> rejected

NoHeader ==
  [code |-> NoSegment, initData |-> NoSegment, uninitData |-> NoSegment, accepted |-> TRUE]

NoffHeader(sections) ==
  LET header[i \in 0..Len(sections)] ==
        IF i = 0 THEN NoHeader ELSE AddSection(header[i - 1], sections[i])
  IN  header[Len(sections)]

\* The sections that the linker script makes: one behind the other from 0.
LinkedNames == <<".text", ".rdata", ".data", ".sbss", ".bss">>
Linked(sizes) ==
  LET start[i \in 1..5] == IF i = 1 THEN 0 ELSE start[i - 1] + sizes[i - 1]
  IN  [i \in 1..5 |-> [name |-> LinkedNames[i], size |-> sizes[i], paddr |-> start[i]]]

\* Byte k of section i.
Bytes(sections, i) == 0..(sections[i].size - 1)
Blank == <<0, 0>>

\* bin/coff2flat.c: what the sections hold, but for the uninitialized ones, one
\* behind the other wherever they are to be.
FlatByte(sections, address) ==
  LET copied == {i \in DOMAIN sections : sections[i].name \notin {".bss", ".sbss"}}
      start[i \in 1..Len(sections)] ==
        IF i = 1 THEN 0
        ELSE start[i - 1] + IF i - 1 \in copied THEN sections[i - 1].size ELSE 0
      held == {i \in copied : address - start[i] \in Bytes(sections, i)}
  IN  IF held = {} THEN Blank ELSE LET i == CHOOSE i \in held : TRUE IN <<i, address - start[i]>>

\* Its length, the stack included: a blank word is written at the end.
FlatLength(sections) ==
  LET top[i \in 0..Len(sections)] ==
        IF i = 0 THEN 0
        ELSE IF sections[i].paddr + sections[i].size > top[i - 1]
             THEN sections[i].paddr + sections[i].size ELSE top[i - 1]
  IN  top[Len(sections)] + UserStackSize

\* bin/main.c, load_program: each section that the file holds, at its address.
ExecutedByte(sections, address) ==
  LET held == {i \in DOMAIN sections : /\ sections[i].name \notin {".bss", ".sbss"}
                                       /\ address - sections[i].paddr \in Bytes(sections, i)}
  IN  IF held = {} THEN Blank
      ELSE LET i == CHOOSE i \in held : \A j \in held : j <= i
           IN  <<i, address - sections[i].paddr>>

\* The loader of the earlier stage, nachos-1,2: one program in memory that is
\* not translated, code and data each copied at once to where they belong.
EarlyByte(header, address) ==
  LET Within(segment) == address - segment.virtualAddr \in 0..(segment.size - 1)
  IN  CASE Within(header.initData) -> Data(address - header.initData.virtualAddr)
        [] Within(header.code) -> Code(address - header.code.virtualAddr)
        [] OTHER -> Zero

-------------------------------------------------------------------------------
(* What is right *)

\* The byte that the sections put at address.
LinkedByte(sections, address) ==
  LET Holds(i) == address - sections[i].paddr \in 0..(sections[i].size - 1)
  IN  CASE Holds(1) -> Code(address - sections[1].paddr)
        [] Holds(2) -> Data(address - sections[2].paddr)
        [] Holds(3) -> Data(address - sections[3].paddr)
        [] OTHER -> Zero

\* The tools and the linker agree on every byte, whatever sections there are.
ToolsAgree(sections) ==
  /\ FlatLength(sections) = sections[5].paddr + sections[5].size + UserStackSize
  /\ \A address \in 0..(FlatLength(sections) - 1) :
       FlatByte(sections, address) = ExecutedByte(sections, address)

\* A program comes into memory byte for byte as the linker laid it out, with
\* room for its stack, except that the last page of data keeps zeroes behind
\* the bytes that an unset variable lets it have. A program with two kinds of
\* initialized or of uninitialized data is refused.
LoadedRight(sizes, lastDataPageSize) ==
  LET sections == Linked(sizes)
      header   == NoffHeader(sections)
      code     == header.code.size
      data     == header.initData.size
      pages    == NumPages(code, data, header.uninitData.size)
  IN  /\ ToolsAgree(sections)
      /\ header.accepted <=> (sizes[2] = 0 \/ sizes[3] = 0) /\ (sizes[4] = 0 \/ sizes[5] = 0)
      /\ header.accepted =>
           /\ \A address \in 0..(pages * PageSize - 1) :
                EarlyByte(header, address) = LinkedByte(sections, address)
           /\ sections[5].paddr + sizes[5] + UserStackSize <= pages * PageSize
           /\ \A page \in 0..(pages - 1), offset \in 0..(PageSize - 1) :
                LET byte == LoadedByte(code, data, lastDataPageSize, page, offset)
                IN  \/ byte = LinkedByte(sections, page * PageSize + offset)
                    \/ /\ byte = Zero /\ offset >= lastDataPageSize
                       /\ page = NumCodePages(code) + NumDataPages(code, data) - 1
                       /\ NumDataPages(code, data) > 0
===============================================================================
