------------------------------ MODULE Container ------------------------------
(***************************************************************************)
(* How a section is parsed: Container, SimpleContainer, IndexedContainer   *)
(* and the deserialize and child_factory methods of the sections and of    *)
(* the chunks inside them, down to members of structures.                  *)
(*                                                                         *)
(* tokens is what the parser meets on its way through the bytes: the fixed *)
(* part of a chunk, a property, an end marker, an index, at the file       *)
(* offsets pos.  Where the next token begins is for the bytes of the last  *)
(* to say: its chunk type, the lengths of its strings, the size of an      *)
(* index.  A section in which one of these is damaged is a section with    *)
(* other tokens from there on, and the sequence ends where the walk leaves *)
(* the file.                                                               *)
(*                                                                         *)
(* A token has its chunk type, id and name; a group the number n of its    *)
(* references; a type definition says whether it is a structure.  fault is *)
(* what reading the token comes to: UnknownType of psfdata_size, for a     *)
(* definition; length_error of std::string, for a negative string length;  *)
(* undefined for one that reaches beyond the file, for an index that does, *)
(* and for a value whose type the type section lacks.                      *)
(*                                                                         *)
(* A chunk object is named by the token it was read from, the section      *)
(* itself by 0.                                                            *)
(*                                                                         *)
(* For the properties, an intact section says how it was written: tail is  *)
(* the token behind the last chunk, parent[t] the chunk that token t was   *)
(* written in, after the first token of the next section.                  *)
(***************************************************************************)
EXTENDS Integers, Sequences, FiniteSets

CONSTANTS
  Files,     \* the sections that may be parsed
  Names      \* of chunks and properties

(* What new a chunk type makes, in each container: child_factory.          *)
Factory ==
  ({"header"} \X {33, 34, 35} \X {"property"}) \cup
  {<<"header", 1, "end">>, <<"sweep", 3, "end">>, <<"def", 18, "end">>,
   <<"type", 16, "def">>, <<"def", 16, "def">>,
   <<"sweep", 16, "ref">>, <<"trace", 16, "ref">>, <<"group", 16, "ref">>,
   <<"trace", 17, "group">>, <<"values", 16, "value">>}

Indexed == {"type", "trace", "values"}
Kinds   == {"header", "sweep"} \cup Indexed

Faults  == {"none", "UnknownType", "length_error", "undefined"}

ASSUME FilesAssumed ==
  \A f \in Files :
    /\ f.kind \in Kinds /\ f.intact \in BOOLEAN
    /\ f.tokens \in Seq([type : Int, id : Int, name : Names, n : Int,
                         struct : BOOLEAN, fault : Faults])
    /\ Len(f.tokens) >= 2
    /\ f.pos \in [1 .. Len(f.tokens) + 1 -> Int] /\ f.endpos \in Int

(* A property stands in the header section or in the block of a chunk.     *)
IsProperty(t) == t \in 33 .. 35

(* The first child is behind the headers of section and sub container.     *)
FirstChild(kind) == IF kind \in Indexed THEN 3 ELSE 2

(* What an intact section says token t is, 0 the section.                  *)
Written(f, t) ==
  IF t = 0 THEN f.kind
  ELSE CASE IsProperty(f.tokens[t].type) -> "property"
         [] f.tokens[t].type = 18 -> "end"
         [] f.tokens[t].type = 17 -> "group"
         [] OTHER -> CASE f.kind = "type" -> "def" [] f.kind = "values" -> "value" [] OTHER -> "ref"

WrittenIn(f, c) == {t \in DOMAIN f.parent : f.parent[t] = c}

(* The frame of an intact section: its headers, what is behind the chunks, *)
(* and an end position before or behind its end marker.                    *)
FrameIntact(f) ==
  /\ f.kind # "values" => f.tokens[1].type = 21
  /\ f.kind \in Indexed => f.tokens[2].type = 22
  /\ f.tail \in FirstChild(f.kind) .. Len(f.tokens)
  /\ f.tokens[f.tail].fault = "none"
  /\ f.tokens[f.tail].type = CASE f.kind = "header" -> 1 [] f.kind = "sweep" -> 3 [] OTHER -> 19
  /\ \A j, k \in DOMAIN f.pos : j < k => f.pos[j] < f.pos[k]
  /\ \/ f.endpos = f.pos[f.tail] /\ f.after = IF f.kind \in Indexed THEN f.tail + 1 ELSE f.tail
     \/ f.endpos = f.pos[f.tail + 1] /\ f.after = f.tail + 1 /\ f.kind \notin Indexed

(* Chunks stand in the order of a walk through the tree they form, and a   *)
(* chunk holds what its kind may: a group its count of references, a       *)
(* structure definitions, the end marker and properties, others properties.*)
ChunkIntact(f, t) ==
  /\ f.parent[t] \in {0} \cup FirstChild(f.kind) .. t - 1
  /\ \A u \in f.parent[t] + 1 .. t : u \in DOMAIN f.parent => f.parent[u] >= f.parent[t]
  /\ \/ Written(f, t) = "property" /\ Written(f, f.parent[t]) \in {"def", "ref", "value"}
     \/ <<Written(f, f.parent[t]), f.tokens[t].type, Written(f, t)>> \in Factory
  /\ f.tokens[t].fault = "none"
  /\ Written(f, t) = "group" => f.tokens[t].n = Cardinality(WrittenIn(f, t))
  /\ IF Written(f, t) = "def" /\ f.tokens[t].struct
     THEN \E m \in WrittenIn(f, t) :
            /\ Written(f, m) = "end"
            /\ \A u \in WrittenIn(f, t) \ {m} : Written(f, u) = IF u < m THEN "def" ELSE "property"
     ELSE Written(f, t) # "group" => \A u \in WrittenIn(f, t) : Written(f, u) = "property"

Intact(f) ==
  /\ FrameIntact(f)
  /\ DOMAIN f.parent = FirstChild(f.kind) .. f.tail - 1
  /\ \A t \in DOMAIN f.parent : ChunkIntact(f, t)

ASSUME IntactAssumed == \A f \in Files : f.intact => Intact(f)

VARIABLES
  file,      \* the section, in its file
  pc,        \* "begin", "children", "index", "parsed" or "failed"
  buf,       \* the next token
  stack,     \* chunks whose deserialize is running, the section first
  chunk,     \* the class of each chunk object allocated
  owner,     \* the container that holds a chunk
  members,   \* structure definitions whose end marker is still to come
  ended,     \* the section's end marker was found
  props,     \* property tokens appended to a chunk's m_properties: m_proplist
  propmap,   \* m_propmap: the property of a name, in each chunk's block and, 0, the header's
  result     \* what the call returned or threw

vars == <<file, pc, buf, stack, chunk, owner, members, ended, props, propmap, result>>

Results == {"pending", "ok", "IncorrectChunk", "UnknownType", "length_error", "abort", "undefined"}

Token == file.tokens[buf]
Eof   == buf \notin DOMAIN file.tokens
Type  == IF Eof THEN -1 ELSE Token.type
Top   == stack[Len(stack)]

Class(k) == IF k = 0 THEN file.kind ELSE chunk[k]

(* The children of a container.                                            *)
Members(k) == {c \in DOMAIN owner : owner[c] = k}

Bind(f, k, v) == [x \in DOMAIN f \cup {k} |-> IF x = k THEN v ELSE f[x]]

Init ==
  /\ file \in Files
  /\ pc = "begin" /\ buf = 1 /\ stack = <<0>>
  /\ chunk = << >> /\ owner = << >> /\ members = {} /\ ended = FALSE
  /\ props = << >> /\ propmap = Bind(<< >>, 0, << >>)
  /\ result = "pending"

First == FirstChild(file.kind)

(* An exception leaves the chunks on the stack, which no container holds.  *)
Throw(ex) ==
  /\ pc' = "failed" /\ result' = ex
  /\ UNCHANGED <<file, buf, stack, owner, members, ended, props, propmap>>

-----------------------------------------------------------------------------
(* The section's own chunk type, its end position, for an IndexedContainer *)
(* the sub container.  ValueSectionNonSweep sets no m_chunktype to check.  *)
Begin ==
  /\ pc = "begin"
  /\ \/ /\ Type # 21 /\ file.kind # "values"
        /\ Throw("IncorrectChunk") /\ UNCHANGED chunk
     \/ /\ Type = 21 \/ file.kind = "values"
        /\ file.kind \in Indexed /\ file.tokens[2].type # 22
        /\ Throw("abort") /\ UNCHANGED chunk
     \/ /\ Type = 21 \/ file.kind = "values"
        /\ file.kind \in Indexed => file.tokens[2].type = 22
        /\ pc' = "children"
        /\ buf' = First
        /\ UNCHANGED <<file, stack, chunk, owner, members, ended, props, propmap, result>>

(* Mutant: a section stops at its end marker, not at its end position.     *)
WantsToMarker(k) ==
  CASE k = 0 -> ~ended
    [] Class(k) = "group" -> Cardinality(Members(k)) < file.tokens[k].n
    [] OTHER -> k \in members

(* Does the container read another child: a section up to its end          *)
(* position, a group its count, a structure definition up to the marker.   *)
Wants(k) ==
  CASE k = 0 -> ~ended /\ file.pos[buf] < file.endpos
    [] Class(k) = "group" -> Cardinality(Members(k)) < file.tokens[k].n
    [] OTHER -> k \in members

Parsing == pc = "children" /\ ~Eof
Faulty  == Token.fault # "none"
Makes(m) == <<Class(Top), Type, m>> \in Factory

(* Mutant: a child is added to its container before it is read.            *)
BeginChildAdded ==
  /\ Parsing /\ Wants(Top)
  /\ \E m \in {"def", "ref", "group", "value"} :
       /\ Makes(m)
       /\ chunk' = Bind(chunk, buf, m)
       /\ owner' = Bind(owner, buf, Top)
       /\ stack' = Append(stack, buf)
       /\ members' = IF m = "def" /\ Token.struct THEN members \cup {buf} ELSE members
       /\ props' = Bind(props, buf, << >>) /\ propmap' = Bind(propmap, buf, << >>)
       /\ buf' = buf + 1
       /\ UNCHANGED <<file, pc, ended, result>>

(* A chunk that itself holds chunks or properties begins.                  *)
BeginChild ==
  /\ Parsing /\ Wants(Top)
  /\ \E m \in {"def", "ref", "group", "value"} :
       /\ Makes(m)
       /\ chunk' = Bind(chunk, buf, m)
       /\ \/ Faulty /\ Throw(Token.fault)
          \/ /\ ~Faulty
             /\ stack' = Append(stack, buf)
             /\ members' = IF m = "def" /\ Token.struct THEN members \cup {buf} ELSE members
             /\ props' = Bind(props, buf, << >>)
             /\ propmap' = Bind(propmap, buf, << >>)
             /\ buf' = buf + 1
             /\ UNCHANGED <<file, pc, owner, ended, result>>

(* Mutant: the property is a local object, as in PropertyBlock.            *)
HeaderPropertyLocal ==
  /\ Parsing /\ Wants(Top) /\ Makes("property")
  /\ owner' = Bind(owner, buf, Top)
  /\ buf' = buf + 1
  /\ UNCHANGED <<file, pc, stack, chunk, members, ended, props, propmap, result>>

(* A property is a child of its own only in the header section.            *)
HeaderProperty ==
  /\ Parsing /\ Wants(Top) /\ Makes("property")
  /\ chunk' = Bind(chunk, buf, "property")
  /\ \/ Faulty /\ Throw(Token.fault)
     \/ /\ ~Faulty
        /\ owner' = Bind(owner, buf, Top)
        /\ buf' = buf + 1
        /\ UNCHANGED <<file, pc, stack, members, ended, props, propmap, result>>

(* Mutant: the marker is neither consumed nor the loop left.               *)
EndMarkerPassed ==
  /\ Parsing /\ Wants(Top) /\ Makes("end")
  /\ UNCHANGED vars

(* child_factory returns NULL: the marker is consumed, the loop left.      *)
EndMarker ==
  /\ Parsing /\ Wants(Top) /\ Makes("end")
  /\ buf' = buf + 1
  /\ ended' = (ended \/ Top = 0)
  /\ members' = members \ {Top}
  /\ UNCHANGED <<file, pc, stack, chunk, owner, props, propmap, result>>

WrongChild ==
  /\ Parsing /\ Wants(Top)
  /\ \A m \in {"def", "ref", "group", "value", "property", "end"} : ~Makes(m)
  /\ Throw("IncorrectChunk") /\ UNCHANGED chunk

(* PropertyBlock::deserialize, one property; a group has no such block.    *)
HasBlock(k)   == k # 0 /\ Class(k) # "group"

(* Mutant: the property goes to the chunk below as well.                   *)
AppendPropertyTwice ==
  /\ Parsing /\ ~Wants(Top) /\ HasBlock(Top) /\ IsProperty(Type)
  /\ props' = [k \in DOMAIN props |-> IF k \in {stack[d] : d \in DOMAIN stack}
                                     THEN Append(props[k], buf) ELSE props[k]]
  /\ propmap' = [propmap EXCEPT ![Top] = Bind(@, Token.name, buf)]
  /\ buf' = buf + 1
  /\ UNCHANGED <<file, pc, stack, chunk, owner, members, ended, result>>

(* Mutant: the map keeps the first property of a name, as insert would.    *)
AppendPropertyInsert ==
  /\ Parsing /\ ~Wants(Top) /\ HasBlock(Top) /\ IsProperty(Type)
  /\ props' = [props EXCEPT ![Top] = Append(@, buf)]
  /\ propmap' = [propmap EXCEPT ![Top] = IF Token.name \in DOMAIN @ THEN @ ELSE Bind(@, Token.name, buf)]
  /\ buf' = buf + 1
  /\ UNCHANGED <<file, pc, stack, chunk, owner, members, ended, result>>

(* append_prop: the value that a name had before stays allocated.          *)
AppendProperty ==
  /\ Parsing /\ ~Wants(Top) /\ HasBlock(Top) /\ IsProperty(Type)
  /\ UNCHANGED chunk
  /\ \/ Faulty /\ Throw(Token.fault)
     \/ /\ ~Faulty
        /\ props' = [props EXCEPT ![Top] = Append(@, buf)]
        /\ propmap' = [propmap EXCEPT ![Top] = Bind(@, Token.name, buf)]
        /\ buf' = buf + 1
        /\ UNCHANGED <<file, pc, stack, owner, members, ended, result>>

(* deserialize returns and the caller adds the child.                      *)
EndChild ==
  /\ pc = "children" /\ ~Wants(Top) /\ Top # 0
  /\ HasBlock(Top) => ~Eof /\ ~IsProperty(Type)
  /\ owner' = Bind(owner, Top, stack[Len(stack) - 1])
  /\ stack' = SubSeq(stack, 1, Len(stack) - 1)
  /\ UNCHANGED <<file, pc, buf, chunk, members, ended, props, propmap, result>>

(* The map that append_prop leaves, child after child of the header.       *)
HeaderProperties ==
  [name \in {file.tokens[c].name : c \in Members(0)} |->
     CHOOSE c \in Members(0) :
       /\ file.tokens[c].name = name
       /\ \A d \in Members(0) : file.tokens[d].name = name => d <= c]

EndSection ==
  /\ pc = "children" /\ ~Wants(Top) /\ Top = 0
  /\ pc' = IF file.kind \in Indexed THEN "index" ELSE "parsed"
  /\ result' = IF file.kind \in Indexed THEN result ELSE "ok"
  /\ propmap' = IF file.kind = "header" THEN Bind(propmap, 0, HeaderProperties) ELSE propmap
  /\ UNCHANGED <<file, buf, stack, chunk, owner, members, ended, props>>

(* Index or TraceIndex: read over, the maps are made from the children.    *)
ReadIndex ==
  /\ pc = "index" /\ ~Eof
  /\ \/ /\ Type = 19 /\ Faulty
        /\ Throw(Token.fault) /\ UNCHANGED chunk
     \/ /\ Type = 19 /\ ~Faulty
        /\ pc' = "parsed" /\ result' = "ok" /\ buf' = buf + 1
        /\ UNCHANGED <<file, stack, chunk, owner, members, ended, props, propmap>>
     \/ /\ Type # 19
        /\ Throw("IncorrectChunk") /\ UNCHANGED chunk

(* Mutant: ~Container of the section's children is not run.                *)
FreedFlat == {0} \cup Members(0)

(* ~Container and ~DataTypeDef, from the section down.  PropertyBlock has  *)
(* no destructor: the values in its map, clones of the list's, stay.       *)
Freed ==
  LET held[n \in 0 .. Len(file.tokens)] ==
        IF n = 0 THEN {0}
        ELSE LET above == held[n - 1] IN above \cup {c \in DOMAIN owner : owner[c] \in above}
  IN held[Len(file.tokens)]

Delete ==
  /\ pc \in {"parsed", "failed"} /\ result \notin {"abort", "undefined"}
  /\ pc' = "deleted"
  /\ chunk' = [c \in DOMAIN chunk \ Freed |-> chunk[c]]
  /\ owner' = [c \in DOMAIN owner \ Freed |-> owner[c]]
  /\ UNCHANGED <<file, buf, stack, members, ended, props, propmap, result>>

-----------------------------------------------------------------------------
(* The next chunk type is read from behind the end of the file.            *)
ReadPastEnd ==
  /\ pc \in {"children", "index"} /\ Eof
  /\ pc = "children" => Wants(Top) \/ HasBlock(Top)
  /\ Throw("undefined") /\ UNCHANGED chunk

Parse ==
  \/ Begin \/ BeginChild \/ HeaderProperty \/ EndMarker \/ WrongChild \/ AppendProperty
  \/ EndChild \/ EndSection \/ ReadIndex \/ ReadPastEnd

Next == Parse \/ Delete

Spec == Init /\ [][Next]_vars

(* Parsing is one call and runs until it returns or throws.                *)
FairSpec == Spec /\ WF_vars(Parse)

-----------------------------------------------------------------------------
(* Properties.                                                             *)

TypeOK ==
  /\ pc \in {"begin", "children", "index", "parsed", "failed", "deleted"}
  /\ buf \in 1 .. Len(file.tokens) + 1
  /\ stack \in Seq({0} \cup DOMAIN file.tokens) /\ stack # << >> /\ stack[1] = 0
  /\ DOMAIN chunk \subseteq DOMAIN file.tokens
  /\ \A c \in DOMAIN chunk : chunk[c] \in {"def", "ref", "group", "value", "property"}
  /\ DOMAIN owner \subseteq DOMAIN chunk
  /\ \A c \in DOMAIN owner : owner[c] \in {0} \cup DOMAIN file.tokens
  /\ members \subseteq DOMAIN file.tokens /\ ended \in BOOLEAN
  /\ DOMAIN props \subseteq DOMAIN file.tokens
  /\ \A c \in DOMAIN props : props[c] \in Seq(DOMAIN file.tokens)
  /\ DOMAIN propmap = {0} \cup DOMAIN props
  /\ result \in Results

Stacked == {stack[d] : d \in 1 .. Len(stack)}

(* A chunk object is deleted exactly once: it is held by one container or  *)
(* is still being deserialized, and holders are older than what they hold, *)
(* so ~Container reaches it once and comes to an end.                      *)
HeldOnce ==
  pc # "deleted" =>
    /\ DOMAIN owner \cap Stacked = {}
    /\ \A c \in DOMAIN chunk :
         \/ c \in DOMAIN owner \cup Stacked
         \/ result \in Faults \ {"none"} /\ c = buf
    /\ \A c \in DOMAIN owner : owner[c] < c /\ owner[c] \in DOMAIN owner \cup Stacked

(* Every chunk type the parser met and passed made an object or was        *)
(* appended to the properties of one object: no loop skips one or reads it *)
(* twice, whatever the counts and end positions in the file say.           *)
PropTokens(k) == {props[k][j] : j \in DOMAIN props[k]}

NothingSkipped ==
  pc # "deleted" =>
    \A t \in First .. buf - 1 : file.tokens[t].type \in {16, 17, 33, 34, 35} =>
      IF t \in DOMAIN chunk THEN \A k \in DOMAIN props : t \notin PropTokens(k)
      ELSE \E k \in DOMAIN props : /\ t \in PropTokens(k) /\ k < t
                                  /\ \A l \in DOMAIN props \ {k} : t \notin PropTokens(l)

(* A property is found under its name in the block it was appended to, and *)
(* of several with one name the last, as they stand in the file: in every  *)
(* block at every moment, in the header's when it is read.                 *)
Block(k) == IF k # 0 THEN PropTokens(k) ELSE IF file.kind = "header" /\ result = "ok" THEN Members(0) ELSE {}

FindsLast(map, tokens) ==
  /\ DOMAIN map = {file.tokens[t].name : t \in tokens}
  /\ \A name \in DOMAIN map :
       /\ map[name] \in tokens /\ file.tokens[map[name]].name = name
       /\ \A t \in tokens : file.tokens[t].name = name => t <= map[name]

PropertiesFound == pc # "deleted" => \A k \in DOMAIN propmap : FindsLast(propmap[k], Block(k))

(* Chunks are lost only by a call that throws.                             *)
AllFreed == pc = "deleted" /\ result = "ok" => DOMAIN chunk = {}

(* Every section comes to an end.                                          *)
ParseEnds == <>(pc \in {"parsed", "failed", "deleted"})

(* An intact section is read as written: every chunk is held by the chunk  *)
(* it was written in (file.parent), every property is in the block of the  *)
(* chunk it was written for, and the walk ends where it was written to.    *)
ReadAsWritten ==
  file.intact /\ pc # "deleted" =>
    /\ result \in {"pending", "ok"}
    /\ \A c \in DOMAIN owner : owner[c] = file.parent[c]
    /\ \A k \in DOMAIN props : \A t \in PropTokens(k) : file.parent[t] = k
    /\ result = "ok" =>
         /\ buf = file.after
         /\ \A t \in DOMAIN file.parent :
              \/ Written(file, t) = "end" \/ t \in DOMAIN owner
              \/ t \in PropTokens(file.parent[t])
=============================================================================
