--------------------------- MODULE Container_proofs ---------------------------
(***************************************************************************)
(* Theorems about Container, for every sequence of tokens the parser may   *)
(* meet, of intact sections and of damaged ones: chunk objects have one    *)
(* holder and are deleted, nothing that is read is lost, and properties    *)
(* are found under their names.  An intact section is read as written.     *)
(***************************************************************************)
EXTENDS Container, Induction, SequenceTheorems, FiniteSetTheorems, NaturalsInduction, WellFoundedInduction, TLAPS

-----------------------------------------------------------------------------
(* The stack of chunks.                                                    *)
Elems(s)  == {s[d] : d \in 1 .. Len(s)}
Rising(s) == \A d, e \in 1 .. Len(s) : d < e => s[d] < s[e]

LEMMA PushFacts ==
  ASSUME NEW S, NEW s \in Seq(S), s # << >>, NEW x \in S
  PROVE  /\ Append(s, x) \in Seq(S) /\ Append(s, x) # << >>
         /\ Append(s, x)[1] = s[1]
         /\ Elems(Append(s, x)) = Elems(s) \cup {x}
         /\ Rising(s) /\ (\A y \in Elems(s) : y < x) => Rising(Append(s, x))
<1>1. /\ Append(s, x) \in Seq(S) /\ Append(s, x) # << >>
      /\ Len(Append(s, x)) = Len(s) + 1 /\ Len(s) \in Nat \ {0}
      /\ \A d \in 1 .. Len(s) : Append(s, x)[d] = s[d]
      /\ Append(s, x)[Len(s) + 1] = x
  OBVIOUS
<1>2. \A d : d \in 1 .. Len(Append(s, x)) <=> d \in 1 .. Len(s) \/ d = Len(s) + 1
  BY <1>1
<1>3. Elems(Append(s, x)) = Elems(s) \cup {x}
  <2>1. ASSUME NEW y \in Elems(s) \cup {x}
        PROVE  y \in Elems(Append(s, x))
    BY <1>1, <1>2 DEF Elems
  <2>2. ASSUME NEW y \in Elems(Append(s, x))
        PROVE  y \in Elems(s) \cup {x}
    BY <1>1, <1>2 DEF Elems
  <2> QED
    BY <2>1, <2>2
<1>4. ASSUME Rising(s), \A y \in Elems(s) : y < x
      PROVE  Rising(Append(s, x))
  BY <1>1, <1>2, <1>4 DEF Rising, Elems
<1> QED
  BY <1>1, <1>3, <1>4

LEMMA PopFacts ==
  ASSUME NEW s \in Seq(Int), Len(s) > 1, Rising(s)
  PROVE  LET t == SubSeq(s, 1, Len(s) - 1)
         IN /\ t \in Seq(Int) /\ t # << >> /\ t[1] = s[1] /\ Rising(t)
            /\ Elems(s) = Elems(t) \cup {s[Len(s)]} /\ s[Len(s)] \notin Elems(t)
            /\ s[Len(s) - 1] \in Elems(t) /\ s[Len(s) - 1] < s[Len(s)]
<1> DEFINE t == SubSeq(s, 1, Len(s) - 1)
<1>1. /\ t \in Seq(Int) /\ Len(t) = Len(s) - 1 /\ Len(s) \in Nat
      /\ \A d \in 1 .. Len(t) : t[d] = s[d]
  <2>1. \A d \in 1 .. Len(s) - 1 : s[d] \in Int
    OBVIOUS
  <2> QED
    BY <2>1, SubSeqProperties
<1> HIDE DEF t
<1>2. \A d : d \in 1 .. Len(s) <=> d \in 1 .. Len(t) \/ d = Len(s)
  BY <1>1
<1>3. t # << >> /\ t[1] = s[1]
  BY <1>1
<1>4. Rising(t)
  BY <1>1, <1>2 DEF Rising
<1>5. Elems(s) = Elems(t) \cup {s[Len(s)]}
  <2>1. ASSUME NEW y \in Elems(t) \cup {s[Len(s)]}
        PROVE  y \in Elems(s)
    BY <1>1, <1>2 DEF Elems
  <2>2. ASSUME NEW y \in Elems(s)
        PROVE  y \in Elems(t) \cup {s[Len(s)]}
    BY <1>1, <1>2 DEF Elems
  <2> QED
    BY <2>1, <2>2
<1>6. \A d \in 1 .. Len(t) : s[d] < s[Len(s)]
  <2>1. \A d \in 1 .. Len(t) : d \in 1 .. Len(s) /\ d < Len(s) /\ Len(s) \in 1 .. Len(s)
    BY <1>1
  <2> QED
    BY <2>1 DEF Rising
<1>7. s[Len(s)] \notin Elems(t)
  <2>1. \A d \in 1 .. Len(t) : t[d] # s[Len(s)]
    BY <1>1, <1>2, <1>6
  <2> QED
    BY <2>1 DEF Elems
<1>8. s[Len(s) - 1] \in Elems(t) /\ s[Len(s) - 1] < s[Len(s)]
  BY <1>1, <1>6 DEF Elems
<1> QED
  BY <1>1, <1>3, <1>4, <1>5, <1>7, <1>8 DEF t

LEMMA AppendElems ==
  ASSUME NEW S, NEW s \in Seq(S), NEW x \in S
  PROVE  /\ Append(s, x) \in Seq(S)
         /\ {Append(s, x)[j] : j \in DOMAIN Append(s, x)} = {s[j] : j \in DOMAIN s} \cup {x}
<1>1. /\ Append(s, x) \in Seq(S) /\ Len(Append(s, x)) = Len(s) + 1 /\ Len(s) \in Nat
      /\ \A j \in 1 .. Len(s) : Append(s, x)[j] = s[j]
      /\ Append(s, x)[Len(s) + 1] = x
      /\ DOMAIN s = 1 .. Len(s) /\ DOMAIN Append(s, x) = 1 .. Len(s) + 1
  OBVIOUS
<1>2. \A j : j \in 1 .. Len(s) + 1 <=> j \in 1 .. Len(s) \/ j = Len(s) + 1
  BY <1>1
<1> QED
  BY <1>1, <1>2

-----------------------------------------------------------------------------
(* The token a step reads is one of the section's.                         *)
LEMMA TokenFacts ==
  ASSUME file \in Files
  PROVE  /\ DOMAIN file.tokens = 1 .. Len(file.tokens)
         /\ Len(file.tokens) \in Nat /\ Len(file.tokens) >= 2
<1>1. file.tokens \in Seq([type : Int, id : Int, name : Names, n : Int,
                           struct : BOOLEAN, fault : Faults])
      /\ Len(file.tokens) >= 2
  BY FilesAssumed
<1> QED
  BY <1>1

(* Chunks whose deserialize is running were allocated, have properties,    *)
(* and were allocated in the order of the stack; everything allocated or   *)
(* appended is behind the read position, except the chunk that threw.      *)
Running ==
  /\ Elems(stack) \ {0} \subseteq DOMAIN chunk \cap DOMAIN props
  /\ Rising(stack)
  /\ \A k \in Elems(stack) : k < buf
  /\ \A c \in DOMAIN chunk : c < buf \/ (c = buf /\ result \in Faults \ {"none"})
  /\ \A k \in DOMAIN props : k < buf /\ \A t \in PropTokens(k) : k < t /\ t < buf
  /\ \A c \in DOMAIN owner : c < buf
  /\ pc \in {"begin", "children", "index"} => result = "pending"
  /\ pc = "begin" => /\ chunk = << >> /\ owner = << >> /\ props = << >> /\ stack = <<0>>

TypeInv == TypeOK /\ file \in Files /\ (pc # "deleted" => Running)

LEMMA BindFacts ==
  ASSUME NEW f, NEW k, NEW v
  PROVE  /\ DOMAIN Bind(f, k, v) = DOMAIN f \cup {k}
         /\ \A x \in DOMAIN f \cup {k} : Bind(f, k, v)[x] = IF x = k THEN v ELSE f[x]
  BY DEF Bind

(* A call that throws leaves everything but the chunk it was creating.     *)
LEMMA ThrowType ==
  ASSUME TypeInv, pc \in {"begin", "children", "index"},
         NEW ex \in Results \ {"pending"}, Throw(ex),
         \/ UNCHANGED chunk
         \/ /\ ex \in Faults \ {"none"} /\ buf \in DOMAIN file.tokens
            /\ \E m \in {"def", "ref", "group", "value", "property"} : chunk' = Bind(chunk, buf, m)
  PROVE  TypeInv'
<1>1. /\ pc' = "failed" /\ result' = ex
      /\ UNCHANGED <<file, buf, stack, owner, members, ended, props, propmap>>
  BY DEF Throw
<1>2. /\ DOMAIN chunk \subseteq DOMAIN chunk'
      /\ DOMAIN chunk' \subseteq DOMAIN file.tokens
      /\ \A c \in DOMAIN chunk' : chunk'[c] \in {"def", "ref", "group", "value", "property"}
  BY BindFacts DEF TypeInv, TypeOK, Bind
<1>3. TypeOK'
  BY <1>1, <1>2 DEF TypeInv, TypeOK
<1>4. Running
  BY DEF TypeInv
<1>5. \A c \in DOMAIN chunk' : c < buf \/ (c = buf /\ ex \in Faults \ {"none"})
  BY <1>4 DEF Running, Bind, Faults
<1>6. Running'
  BY <1>1, <1>2, <1>4, <1>5 DEF Running, Elems, Rising, PropTokens
<1> QED
  BY <1>1, <1>3, <1>6 DEF TypeInv

(* The chunk types are integers, the read position is one.                 *)
LEMMA BufFacts ==
  ASSUME TypeInv
  PROVE  buf \in Nat /\ buf \in 1 .. Len(file.tokens) + 1
         /\ (~Eof => buf \in DOMAIN file.tokens /\ buf + 1 \in 1 .. Len(file.tokens) + 1)
  BY TokenFacts DEF TypeInv, TypeOK, Eof

(* A damaged token throws what reading it comes to.                        *)
LEMMA FaultFacts ==
  ASSUME TypeInv, ~Eof, Faulty
  PROVE  Token.fault \in Faults \ {"none"} /\ Token.fault \in Results \ {"pending", "ok"}
<1>1. /\ file.tokens \in Seq([type : Int, id : Int, name : Names, n : Int,
                              struct : BOOLEAN, fault : Faults])
      /\ buf \in DOMAIN file.tokens
  BY FilesAssumed DEF TypeInv, Eof
<1>2. Token.fault \in Faults
  <2>1. buf \in 1 .. Len(file.tokens)
    BY <1>1, TokenFacts DEF TypeInv
  <2>2. file.tokens[buf] \in [type : Int, id : Int, name : Names, n : Int, struct : BOOLEAN, fault : Faults]
    BY <1>1, <2>1, ElementOfSeq
  <2> QED
    BY <2>2 DEF Token
<1> QED
  BY <1>2 DEF Faulty, Faults, Results

LEMMA FaultType ==
  ASSUME TypeInv, pc \in {"children", "index"}, ~Eof, Faulty, Throw(Token.fault),
         \/ UNCHANGED chunk
         \/ \E m \in {"def", "ref", "group", "value", "property"} : chunk' = Bind(chunk, buf, m)
  PROVE  TypeInv'
  BY FaultFacts, BufFacts, ThrowType

LEMMA InitType == Init => TypeInv
<1> SUFFICES ASSUME Init PROVE TypeInv
  OBVIOUS
<1>1. file \in Files /\ pc = "begin" /\ buf = 1 /\ stack = <<0>> /\ chunk = << >> /\ owner = << >>
      /\ props = << >> /\ members = {} /\ ended = FALSE /\ result = "pending"
      /\ propmap = Bind(<< >>, 0, << >>)
  BY DEF Init
<1>2. DOMAIN chunk = {} /\ DOMAIN owner = {} /\ DOMAIN props = {} /\ DOMAIN propmap = {0}
  BY <1>1 DEF Bind
<1>3. <<0>> \in Seq({0} \cup DOMAIN file.tokens) /\ <<0>> # << >> /\ <<0>>[1] = 0
  OBVIOUS
<1>4. TypeOK
  <2>1. buf \in 1 .. Len(file.tokens) + 1
    BY <1>1, TokenFacts
  <2>2. stack \in Seq({0} \cup DOMAIN file.tokens) /\ stack # << >> /\ stack[1] = 0
    BY <1>1, <1>3
  <2> QED
    BY <1>1, <1>2, <2>1, <2>2 DEF TypeOK, Results
<1>5. Elems(stack) = {0} /\ Rising(stack)
  BY <1>1 DEF Elems, Rising
<1>6. Running
  BY <1>1, <1>2, <1>5 DEF Running
<1> QED
  BY <1>1, <1>4, <1>6 DEF TypeInv

(* What TypeInv says of the chunk on top of the stack.                     *)
LEMMA TopFacts ==
  ASSUME TypeInv, pc # "deleted"
  PROVE  /\ stack \in Seq(Int) /\ Len(stack) \in Nat \ {0}
         /\ Top \in Elems(stack) /\ Top \in {0} \cup DOMAIN file.tokens
         /\ Top # 0 => Top \in DOMAIN chunk /\ Top \in DOMAIN props /\ Len(stack) > 1
<1>1. /\ stack \in Seq({0} \cup DOMAIN file.tokens) /\ stack # << >> /\ stack[1] = 0
      /\ DOMAIN file.tokens \subseteq Int
  BY TokenFacts DEF TypeInv, TypeOK
<1>2. stack \in Seq(Int) /\ Len(stack) \in Nat \ {0}
  BY <1>1
<1>3. Top \in {0} \cup DOMAIN file.tokens
  BY <1>1, <1>2, ElementOfSeq DEF Top
<1>4. Top \in Elems(stack)
  BY <1>2 DEF Top, Elems
<1>5. Top # 0 => Len(stack) > 1
  BY <1>1, <1>2 DEF Top
<1>6. Top # 0 => Top \in DOMAIN chunk /\ Top \in DOMAIN props
  BY <1>4 DEF TypeInv, Running
<1> QED
  BY <1>2, <1>3, <1>4, <1>5, <1>6

(* Chunks are named by positions.                                          *)
LEMMA NameFacts ==
  ASSUME TypeInv
  PROVE  /\ DOMAIN chunk \subseteq Nat \ {0} /\ DOMAIN props \subseteq Nat \ {0}
         /\ DOMAIN owner \subseteq Nat \ {0} /\ Elems(stack) \subseteq Nat
         /\ \A k \in DOMAIN props : PropTokens(k) \subseteq Nat
<1>1. DOMAIN file.tokens \subseteq Nat \ {0}
  BY TokenFacts DEF TypeInv
<1>2. Elems(stack) \subseteq {0} \cup DOMAIN file.tokens
  BY ElementOfSeq DEF Elems, TypeInv, TypeOK
<1>3. \A k \in DOMAIN props : PropTokens(k) \subseteq DOMAIN file.tokens
  BY DEF PropTokens, TypeInv, TypeOK
<1> QED
  BY <1>1, <1>2, <1>3 DEF TypeInv, TypeOK

-----------------------------------------------------------------------------
(* One lemma for each action.                                              *)
LEMMA BeginType == TypeInv /\ Begin => TypeInv'
<1> SUFFICES ASSUME TypeInv, Begin PROVE TypeInv'
  OBVIOUS
<1>1. pc = "begin"
  BY DEF Begin
<1>2. CASE Throw("IncorrectChunk") /\ UNCHANGED chunk
  BY <1>1, <1>2, ThrowType DEF Results
<1>3. CASE Throw("abort") /\ UNCHANGED chunk
  BY <1>1, <1>3, ThrowType DEF Results
<1>4. CASE /\ pc' = "children" /\ buf' = First
           /\ UNCHANGED <<file, stack, chunk, owner, members, ended, props, propmap, result>>
  <2>1. First \in 1 .. Len(file.tokens) + 1 /\ First > 1
    BY TokenFacts DEF First, FirstChild, TypeInv
  <2>2. TypeOK'
    BY <1>4, <2>1 DEF TypeInv, TypeOK
  <2>3. chunk = << >> /\ owner = << >> /\ props = << >> /\ stack = <<0>> /\ result = "pending"
    BY <1>1 DEF TypeInv, Running
  <2>4. DOMAIN chunk' = {} /\ DOMAIN owner' = {} /\ DOMAIN props' = {}
    BY <1>4, <2>3
  <2>5. Elems(stack') = {0} /\ Rising(stack')
    BY <1>4, <2>3 DEF Elems, Rising
  <2>6. Running'
    BY <1>4, <2>1, <2>3, <2>4, <2>5 DEF Running
  <2> QED
    BY <1>4, <2>2, <2>6 DEF TypeInv
<1> QED
  BY <1>2, <1>3, <1>4 DEF Begin

(* A new chunk on the stack, with an empty property block.                 *)
LEMMA BeginChildType == TypeInv /\ BeginChild => TypeInv'
<1> SUFFICES ASSUME TypeInv, BeginChild PROVE TypeInv'
  OBVIOUS
<1>1. PICK m \in {"def", "ref", "group", "value"} :
        /\ chunk' = Bind(chunk, buf, m)
        /\ \/ Faulty /\ Throw(Token.fault)
           \/ /\ stack' = Append(stack, buf)
              /\ members' = IF m = "def" /\ Token.struct THEN members \cup {buf} ELSE members
              /\ props' = Bind(props, buf, << >>)
              /\ propmap' = Bind(propmap, buf, << >>)
              /\ buf' = buf + 1
              /\ UNCHANGED <<file, pc, owner, ended, result>>
  BY DEF BeginChild
<1>2. pc = "children" /\ ~Eof /\ buf \in DOMAIN file.tokens
  BY BufFacts DEF BeginChild, Parsing
<1>3. CASE Faulty /\ Throw(Token.fault)
  BY <1>1, <1>2, <1>3, FaultType
<1>4. CASE /\ stack' = Append(stack, buf)
           /\ members' = IF m = "def" /\ Token.struct THEN members \cup {buf} ELSE members
           /\ props' = Bind(props, buf, << >>)
           /\ propmap' = Bind(propmap, buf, << >>)
           /\ buf' = buf + 1
           /\ UNCHANGED <<file, pc, owner, ended, result>>
  <2>1. stack \in Seq({0} \cup DOMAIN file.tokens) /\ stack # << >> /\ stack[1] = 0
    BY DEF TypeInv, TypeOK
  <2>2. Running /\ result = "pending"
    BY <1>2 DEF TypeInv, Running
  <2>3. buf \in Nat /\ buf' \in 1 .. Len(file.tokens) + 1
    BY <1>2, <1>4, BufFacts
  <2>4. /\ stack' \in Seq({0} \cup DOMAIN file.tokens) /\ stack' # << >> /\ stack'[1] = 0
        /\ Elems(stack') = Elems(stack) \cup {buf} /\ Rising(stack')
    <3>1. Rising(stack) /\ \A y \in Elems(stack) : y < buf
      BY <2>2 DEF Running
    <3> QED
      BY <1>2, <1>4, <2>1, <3>1, PushFacts
  <2>5. /\ DOMAIN chunk' = DOMAIN chunk \cup {buf}
        /\ \A c \in DOMAIN chunk' : chunk'[c] \in {"def", "ref", "group", "value", "property"}
    BY <1>1 DEF Bind, TypeInv, TypeOK
  <2>6. /\ DOMAIN props' = DOMAIN props \cup {buf}
        /\ \A k \in DOMAIN props : props'[k] = props[k]
        /\ props'[buf] = << >>
    <3>1. buf \notin DOMAIN props
      BY <2>2, <2>3 DEF Running
    <3> QED
      BY <1>4, <3>1 DEF Bind
  <2>7. \A c \in DOMAIN props' : props'[c] \in Seq(DOMAIN file.tokens)
    <3>1. << >> \in Seq(DOMAIN file.tokens)
      OBVIOUS
    <3> QED
      BY <2>6, <3>1 DEF TypeInv, TypeOK
  <2>8. members' \subseteq DOMAIN file.tokens
    BY <1>2, <1>4 DEF TypeInv, TypeOK
  <2>9. DOMAIN propmap' = {0} \cup DOMAIN props'
    <3>1. DOMAIN propmap' = DOMAIN propmap \cup {buf}
      BY <1>4 DEF Bind
    <3> QED
      BY <2>6, <3>1 DEF TypeInv, TypeOK
  <2>10. TypeOK'
    BY <1>2, <1>4, <2>3, <2>4, <2>5, <2>6, <2>7, <2>8, <2>9 DEF TypeInv, TypeOK
  <2>11. \A k \in DOMAIN props' : k < buf' /\ \A t \in PropTokens(k)' : k < t /\ t < buf'
    <3>1. ASSUME NEW k \in DOMAIN props
          PROVE  PropTokens(k)' = PropTokens(k)
      BY <2>6 DEF PropTokens
    <3>2. ASSUME NEW k \in {buf}
          PROVE  PropTokens(k)' = {}
      BY <2>6 DEF PropTokens
    <3> QED
      BY <1>4, <2>2, <2>3, <2>6, <3>1, <3>2, NameFacts DEF Running
  <2>12. Running'
    <3>1. Elems(stack') \ {0} \subseteq DOMAIN chunk' \cap DOMAIN props'
      BY <2>2, <2>4, <2>5, <2>6 DEF Running
    <3>2. \A k \in Elems(stack') : k < buf'
      BY <1>4, <2>2, <2>3, <2>4, NameFacts DEF Running
    <3>3. \A c \in DOMAIN chunk' : c < buf'
      BY <1>4, <2>2, <2>3, <2>5, NameFacts DEF Running
    <3>4. \A c \in DOMAIN owner' : c < buf'
      BY <1>4, <2>2, <2>3, NameFacts DEF Running
    <3> QED
      BY <1>2, <1>4, <2>2, <2>4, <2>11, <3>1, <3>2, <3>3, <3>4 DEF Running
  <2> QED
    BY <1>4, <2>10, <2>12 DEF TypeInv
<1> QED
  BY <1>1, <1>3, <1>4

LEMMA HeaderPropertyType == TypeInv /\ HeaderProperty => TypeInv'
<1> SUFFICES ASSUME TypeInv, HeaderProperty PROVE TypeInv'
  OBVIOUS
<1>1. chunk' = Bind(chunk, buf, "property") /\ pc = "children" /\ ~Eof
  BY DEF HeaderProperty, Parsing
<1>2. CASE Faulty /\ Throw(Token.fault)
  BY <1>1, <1>2, FaultType
<1>3. CASE /\ owner' = Bind(owner, buf, Top) /\ buf' = buf + 1
           /\ UNCHANGED <<file, pc, stack, members, ended, props, propmap, result>>
  <2>1. Running /\ result = "pending"
    BY <1>1 DEF TypeInv, Running
  <2>2. buf \in Nat /\ buf \in DOMAIN file.tokens /\ buf' \in 1 .. Len(file.tokens) + 1
    BY <1>1, <1>3, BufFacts
  <2>3. /\ DOMAIN chunk' = DOMAIN chunk \cup {buf} /\ DOMAIN owner' = DOMAIN owner \cup {buf}
        /\ \A c \in DOMAIN chunk' : chunk'[c] \in {"def", "ref", "group", "value", "property"}
        /\ \A c \in DOMAIN owner' : owner'[c] \in {0} \cup DOMAIN file.tokens
    BY <1>1, <1>3, TopFacts DEF Bind, TypeInv, TypeOK
  <2>4. TypeOK'
    BY <1>1, <1>3, <2>2, <2>3 DEF TypeInv, TypeOK
  <2>5. /\ \A k \in Elems(stack) : k < buf'
        /\ \A k \in DOMAIN props : k < buf' /\ \A t \in PropTokens(k) : k < t /\ t < buf'
        /\ \A c \in DOMAIN chunk' \cup DOMAIN owner' : c < buf'
    BY <1>3, <2>1, <2>2, <2>3, NameFacts DEF Running
  <2>6. Running'
    BY <1>1, <1>3, <2>1, <2>3, <2>5 DEF Running, Elems, Rising, PropTokens
  <2> QED
    BY <1>3, <2>4, <2>6 DEF TypeInv
<1> QED
  BY <1>2, <1>3 DEF HeaderProperty

LEMMA EndMarkerType == TypeInv /\ EndMarker => TypeInv'
<1> SUFFICES ASSUME TypeInv, EndMarker PROVE TypeInv'
  OBVIOUS
<1>1. /\ buf' = buf + 1 /\ members' = members \ {Top} /\ ended' = (ended \/ Top = 0)
      /\ UNCHANGED <<file, pc, stack, chunk, owner, props, propmap, result>>
      /\ pc = "children" /\ ~Eof
  BY DEF EndMarker, Parsing
<1>2. Running /\ result = "pending"
  BY <1>1 DEF TypeInv, Running
<1>3. buf \in Nat /\ buf' \in 1 .. Len(file.tokens) + 1
  BY <1>1, BufFacts
<1>4. ended' \in BOOLEAN
  BY <1>1 DEF TypeInv, TypeOK
<1>5. TypeOK'
  BY <1>1, <1>3, <1>4 DEF TypeInv, TypeOK
<1>6. Running'
  <2>1. /\ \A k \in Elems(stack) : k < buf'
        /\ \A k \in DOMAIN props : k < buf' /\ \A t \in PropTokens(k) : k < t /\ t < buf'
        /\ \A c \in DOMAIN chunk \cup DOMAIN owner : c < buf'
    BY <1>1, <1>2, <1>3, NameFacts DEF Running, TypeInv, TypeOK
  <2> QED
    BY <1>1, <1>2, <2>1 DEF Running, Elems, Rising, PropTokens
<1> QED
  BY <1>1, <1>5, <1>6 DEF TypeInv

LEMMA WrongChildType == TypeInv /\ WrongChild => TypeInv'
<1> SUFFICES ASSUME TypeInv, WrongChild PROVE TypeInv'
  OBVIOUS
<1> QED
  BY ThrowType DEF WrongChild, Parsing, Results

LEMMA BlockElems ==
  ASSUME TypeInv, NEW k \in DOMAIN props, buf \in DOMAIN file.tokens
  PROVE  /\ Append(props[k], buf) \in Seq(DOMAIN file.tokens)
         /\ {Append(props[k], buf)[j] : j \in DOMAIN Append(props[k], buf)} = PropTokens(k) \cup {buf}
<1> DEFINE S == DOMAIN file.tokens
           q == props[k]
<1>1. q \in Seq(S) /\ buf \in S
  BY DEF TypeInv, TypeOK
<1> HIDE DEF S, q
<1>2. /\ Append(q, buf) \in Seq(S)
      /\ {Append(q, buf)[j] : j \in DOMAIN Append(q, buf)} = {q[j] : j \in DOMAIN q} \cup {buf}
  BY <1>1, AppendElems
<1> QED
  BY <1>2 DEF S, q, PropTokens

(* A property is appended to the block of the chunk on top.                *)
LEMMA AppendPropertyType == TypeInv /\ AppendProperty => TypeInv'
<1> SUFFICES ASSUME TypeInv, AppendProperty PROVE TypeInv'
  OBVIOUS
<1>0. CASE Faulty /\ Throw(Token.fault)
  BY <1>0, FaultType DEF AppendProperty, Parsing
<1> SUFFICES ASSUME ~(Faulty /\ Throw(Token.fault)) PROVE TypeInv'
  BY <1>0
<1>1. /\ props' = [props EXCEPT ![Top] = Append(@, buf)] /\ buf' = buf + 1
      /\ DOMAIN propmap' = DOMAIN propmap
      /\ UNCHANGED <<file, pc, stack, chunk, owner, members, ended, result>>
      /\ pc = "children" /\ ~Eof /\ Top # 0
  BY DEF AppendProperty, Parsing, HasBlock
<1>2. Running /\ result = "pending"
  BY <1>1 DEF TypeInv, Running
<1>3. buf \in Nat /\ buf \in DOMAIN file.tokens /\ buf' \in 1 .. Len(file.tokens) + 1
  BY <1>1, BufFacts
<1>4. Top \in DOMAIN props /\ Top < buf /\ Top \in Nat
  BY <1>1, <1>2, TopFacts, NameFacts DEF Running
<1>6. /\ Append(props[Top], buf) \in Seq(DOMAIN file.tokens)
      /\ {Append(props[Top], buf)[j] : j \in DOMAIN Append(props[Top], buf)} = PropTokens(Top) \cup {buf}
  BY <1>3, <1>4, BlockElems
<1>7. /\ DOMAIN props' = DOMAIN props
      /\ \A k \in DOMAIN props : props'[k] = IF k = Top THEN Append(props[Top], buf) ELSE props[k]
  BY <1>1
<1>8. \A k \in DOMAIN props' : props'[k] \in Seq(DOMAIN file.tokens)
  BY <1>6, <1>7 DEF TypeInv, TypeOK
<1>9. TypeOK'
  BY <1>1, <1>3, <1>7, <1>8 DEF TypeInv, TypeOK
<1>10. \A k \in DOMAIN props' : k < buf' /\ \A t \in PropTokens(k)' : k < t /\ t < buf'
  <2>1. ASSUME NEW k \in DOMAIN props, k # Top
        PROVE  PropTokens(k)' = PropTokens(k)
    BY <1>7, <2>1 DEF PropTokens
  <2>2. ASSUME NEW k \in DOMAIN props, k = Top
        PROVE  PropTokens(k)' = PropTokens(k) \cup {buf}
    BY <1>6, <1>7, <2>2 DEF PropTokens
  <2> QED
    BY <1>1, <1>2, <1>3, <1>4, <1>7, <2>1, <2>2, NameFacts DEF Running
<1>11. Running'
  <2>1. /\ \A k \in Elems(stack) : k < buf'
        /\ \A c \in DOMAIN chunk \cup DOMAIN owner : c < buf'
    BY <1>1, <1>2, <1>3, NameFacts DEF Running, TypeInv, TypeOK
  <2> QED
    BY <1>1, <1>2, <1>7, <1>10, <2>1 DEF Running, Elems, Rising
<1> QED
  BY <1>1, <1>9, <1>11 DEF TypeInv

(* A chunk that is read leaves the stack and gets its holder.              *)
LEMMA EndChildType == TypeInv /\ EndChild => TypeInv'
<1> SUFFICES ASSUME TypeInv, EndChild PROVE TypeInv'
  OBVIOUS
<1>1. /\ owner' = Bind(owner, Top, stack[Len(stack) - 1])
      /\ stack' = SubSeq(stack, 1, Len(stack) - 1)
      /\ UNCHANGED <<file, pc, buf, chunk, members, ended, props, propmap, result>>
      /\ pc = "children" /\ Top # 0
  BY DEF EndChild
<1>2. Running /\ result = "pending"
  BY <1>1 DEF TypeInv, Running
<1>3. /\ stack' \in Seq(Int) /\ stack' # << >> /\ stack'[1] = stack[1] /\ Rising(stack')
      /\ Elems(stack) = Elems(stack') \cup {Top} /\ stack[Len(stack) - 1] \in Elems(stack')
  BY <1>1, <1>2, TopFacts, PopFacts DEF Running, Top
<1>4. Elems(stack) \subseteq {0} \cup DOMAIN file.tokens
  BY ElementOfSeq DEF Elems, TypeInv, TypeOK
<1>5. stack' \in Seq({0} \cup DOMAIN file.tokens)
  <2>1. \A d \in 1 .. Len(stack') : stack'[d] \in {0} \cup DOMAIN file.tokens
    BY <1>3, <1>4 DEF Elems
  <2> QED
    BY <1>3, <2>1
<1>6. /\ DOMAIN owner' = DOMAIN owner \cup {Top}
      /\ \A c \in DOMAIN owner' : owner'[c] \in {0} \cup DOMAIN file.tokens
  BY <1>1, <1>3, <1>4 DEF Bind, TypeInv, TypeOK
<1>7. Top \in DOMAIN chunk /\ Top < buf
  BY <1>1, <1>2, TopFacts DEF Running
<1>8. TypeOK'
  BY <1>1, <1>3, <1>5, <1>6, <1>7 DEF TypeInv, TypeOK
<1>9. Running'
  <2>1. /\ \A k \in Elems(stack') : k < buf
        /\ \A c \in DOMAIN owner' : c < buf
    BY <1>2, <1>3, <1>6, <1>7 DEF Running
  <2> QED
    BY <1>1, <1>2, <1>3, <2>1 DEF Running, PropTokens
<1> QED
  BY <1>1, <1>8, <1>9 DEF TypeInv

LEMMA EndSectionType == TypeInv /\ EndSection => TypeInv'
<1> SUFFICES ASSUME TypeInv, EndSection PROVE TypeInv'
  OBVIOUS
<1>1. /\ pc' \in {"index", "parsed"} /\ result' \in {result, "ok"}
      /\ pc' = "index" => result' = result
      /\ UNCHANGED <<file, buf, stack, chunk, owner, members, ended, props>>
      /\ pc = "children"
  BY DEF EndSection
<1>5. DOMAIN propmap' = {0} \cup DOMAIN props'
  <2>1. DOMAIN propmap' = DOMAIN propmap \/ DOMAIN propmap' = DOMAIN propmap \cup {0}
    BY BindFacts DEF EndSection
  <2> QED
    BY <1>1, <2>1 DEF TypeInv, TypeOK
<1>2. Running /\ result = "pending"
  BY <1>1 DEF TypeInv, Running
<1>3. TypeOK'
  BY <1>1, <1>2, <1>5 DEF TypeInv, TypeOK, Results
<1>4. Running'
  BY <1>1, <1>2, <1>3 DEF Running, Faults, Elems, Rising, PropTokens
<1> QED
  BY <1>1, <1>3, <1>4 DEF TypeInv

LEMMA ReadIndexType == TypeInv /\ ReadIndex => TypeInv'
<1> SUFFICES ASSUME TypeInv, ReadIndex PROVE TypeInv'
  OBVIOUS
<1>1. CASE Throw("IncorrectChunk") /\ UNCHANGED chunk
  BY <1>1, ThrowType DEF ReadIndex, Results
<1>2. CASE /\ pc' = "parsed" /\ result' = "ok" /\ buf' = buf + 1
           /\ UNCHANGED <<file, stack, chunk, owner, members, ended, props, propmap>>
  <2>1. Running /\ result = "pending"
    BY DEF TypeInv, Running, ReadIndex
  <2>2. buf \in Nat /\ buf' \in 1 .. Len(file.tokens) + 1
    BY <1>2, BufFacts DEF ReadIndex
  <2>3. TypeOK'
    BY <1>2, <2>2 DEF TypeInv, TypeOK, Results
  <2>4. /\ \A k \in Elems(stack) : k < buf'
        /\ \A k \in DOMAIN props : k < buf' /\ \A t \in PropTokens(k) : k < t /\ t < buf'
        /\ \A c \in DOMAIN chunk \cup DOMAIN owner : c < buf'
    BY <1>2, <2>1, <2>2, NameFacts DEF Running, TypeInv, TypeOK
  <2>5. Running'
    BY <1>2, <2>1, <2>4 DEF Running, Elems, Rising, PropTokens
  <2> QED
    BY <1>2, <2>3, <2>5 DEF TypeInv
<1>3. CASE Faulty /\ Throw(Token.fault) /\ UNCHANGED chunk
  BY <1>3, FaultType DEF ReadIndex
<1> QED
  BY <1>1, <1>2, <1>3 DEF ReadIndex

LEMMA DeleteType == TypeInv /\ Delete => TypeInv'
<1> SUFFICES ASSUME TypeInv, Delete PROVE TypeInv'
  OBVIOUS
<1>1. /\ pc' = "deleted"
      /\ chunk' = [c \in DOMAIN chunk \ Freed |-> chunk[c]]
      /\ owner' = [c \in DOMAIN owner \ Freed |-> owner[c]]
      /\ UNCHANGED <<file, buf, stack, members, ended, props, propmap, result>>
  BY DEF Delete
<1>2. TypeOK'
  BY <1>1 DEF TypeInv, TypeOK
<1> QED
  BY <1>1, <1>2 DEF TypeInv

LEMMA StepType == TypeInv /\ [Next]_vars => TypeInv'
<1> SUFFICES ASSUME TypeInv, [Next]_vars PROVE TypeInv'
  OBVIOUS
<1>1. CASE ReadPastEnd
  BY <1>1, ThrowType DEF ReadPastEnd, Results
<1>2. CASE UNCHANGED vars
  BY <1>2 DEF vars, TypeInv, TypeOK, Running, Elems, Rising, PropTokens
<1> QED
  BY <1>1, <1>2, BeginType, BeginChildType, HeaderPropertyType, EndMarkerType, WrongChildType,
     AppendPropertyType, EndChildType, EndSectionType, ReadIndexType, DeleteType DEF Next, Parse

(* The parser's state has its type, for every section.                     *)
THEOREM TypeCorrect == Spec => []TypeOK
<1>1. TypeInv => TypeOK
  BY DEF TypeInv
<1> QED
  BY <1>1, InitType, StepType, PTL DEF Spec

-----------------------------------------------------------------------------
(* Every chunk has one holder, or is on the stack.                         *)
Held(c) == c \in DOMAIN owner \cup Elems(stack)

HeldInv ==
  pc # "deleted" =>
    /\ DOMAIN owner \cap Elems(stack) = {}
    /\ \A c \in DOMAIN chunk : Held(c) \/ (result \in Faults \ {"none"} /\ c = buf)
    /\ \A c \in DOMAIN owner : owner[c] < c /\ Held(owner[c])

LEMMA HeldStep == TypeInv /\ HeldInv /\ [Next]_vars => HeldInv'
<1> SUFFICES ASSUME TypeInv, HeldInv, [Next]_vars, pc' # "deleted"
             PROVE  /\ DOMAIN owner' \cap Elems(stack') = {}
                    /\ \A c \in DOMAIN chunk' :
                         \/ c \in DOMAIN owner' \cup Elems(stack')
                         \/ result' \in Faults \ {"none"} /\ c = buf'
                    /\ \A c \in DOMAIN owner' :
                         owner'[c] < c /\ owner'[c] \in DOMAIN owner' \cup Elems(stack')
  BY DEF HeldInv, Held, Elems
<1>1. CASE /\ UNCHANGED <<stack, owner, chunk>> /\ pc # "deleted"
           /\ result = "pending" \/ UNCHANGED <<result, buf>>
  BY <1>1 DEF HeldInv, Held, Faults, Elems
<1>2. CASE Parse
  <2>1. pc \in {"begin", "children", "index"} /\ Running /\ result = "pending"
    BY <1>2 DEF Parse, Begin, BeginChild, HeaderProperty, EndMarker, WrongChild, AppendProperty, EndChild,
                EndSection, ReadIndex, ReadPastEnd, Parsing, TypeInv, Running
  <2>2. /\ DOMAIN owner \cap Elems(stack) = {}
        /\ \A c \in DOMAIN chunk : c \in DOMAIN owner \cup Elems(stack)
        /\ \A c \in DOMAIN owner : owner[c] < c /\ owner[c] \in DOMAIN owner \cup Elems(stack)
    BY <2>1 DEF HeldInv, Held, Faults
  <2>3. buf \in Nat /\ buf \notin DOMAIN owner \cup Elems(stack)
    BY <2>1, BufFacts, NameFacts DEF Running
  <2>4. CASE BeginChild
    <3>1. PICK m \in {"def", "ref", "group", "value"} :
            /\ chunk' = Bind(chunk, buf, m) /\ owner' = owner
            /\ \/ /\ result' \in Faults \ {"none"} /\ stack' = stack /\ buf' = buf
               \/ stack' = Append(stack, buf)
      BY <2>4, FaultFacts DEF BeginChild, Parsing, Throw
    <3>2. DOMAIN chunk' = DOMAIN chunk \cup {buf}
      BY <3>1 DEF Bind
    <3>3. CASE result' \in Faults \ {"none"} /\ stack' = stack /\ buf' = buf
      BY <2>2, <3>1, <3>2, <3>3
    <3>4. CASE stack' = Append(stack, buf)
      <4>1. buf \in DOMAIN file.tokens
        BY <2>4, BufFacts DEF BeginChild, Parsing
      <4>2. Elems(stack') = Elems(stack) \cup {buf}
        BY <3>4, <4>1, PushFacts DEF TypeInv, TypeOK
      <4> QED
        BY <2>2, <2>3, <3>1, <3>2, <4>2
    <3> QED
      BY <3>1, <3>3, <3>4
  <2>5. CASE HeaderProperty
    <3>1. /\ chunk' = Bind(chunk, buf, "property") /\ stack' = stack
          /\ \/ result' \in Faults \ {"none"} /\ owner' = owner /\ buf' = buf
             \/ owner' = Bind(owner, buf, Top)
      BY <2>5, FaultFacts DEF HeaderProperty, Parsing, Throw
    <3>2. Top \in Elems(stack) /\ Top < buf
      BY <2>1, TopFacts DEF Running
    <3>3. DOMAIN chunk' = DOMAIN chunk \cup {buf}
      BY <3>1 DEF Bind
    <3>4. CASE result' \in Faults \ {"none"} /\ owner' = owner /\ buf' = buf
      BY <2>2, <3>1, <3>3, <3>4
    <3>5. CASE owner' = Bind(owner, buf, Top)
      <4>1. /\ DOMAIN owner' = DOMAIN owner \cup {buf}
            /\ owner'[buf] = Top /\ \A c \in DOMAIN owner : owner'[c] = owner[c]
        BY <2>3, <3>5 DEF Bind
      <4> QED
        BY <2>2, <2>3, <3>1, <3>2, <3>3, <4>1
    <3> QED
      BY <3>1, <3>4, <3>5
  <2>6. CASE EndChild
    <3>1. /\ owner' = Bind(owner, Top, stack[Len(stack) - 1]) /\ chunk' = chunk
          /\ stack' = SubSeq(stack, 1, Len(stack) - 1)
          /\ Top # 0
      BY <2>6 DEF EndChild
    <3>2. /\ Elems(stack) = Elems(stack') \cup {Top} /\ Top \notin Elems(stack')
          /\ stack[Len(stack) - 1] \in Elems(stack') /\ stack[Len(stack) - 1] < Top
      BY <2>1, <3>1, TopFacts, PopFacts DEF Running, Top
    <3>3. Top \notin DOMAIN owner
      BY <2>2, <2>1, TopFacts
    <3>4. /\ DOMAIN owner' = DOMAIN owner \cup {Top}
          /\ owner'[Top] = stack[Len(stack) - 1]
          /\ \A c \in DOMAIN owner : owner'[c] = owner[c]
      BY <3>1, <3>3 DEF Bind
    <3> QED
      BY <2>2, <3>1, <3>2, <3>3, <3>4
  <2>7. CASE Begin \/ EndMarker \/ WrongChild \/ AppendProperty \/ EndSection \/ ReadIndex \/ ReadPastEnd
    <3>1. UNCHANGED <<stack, owner, chunk>>
      BY <2>7 DEF Begin, EndMarker, WrongChild, AppendProperty, EndSection, ReadIndex, ReadPastEnd, Throw
    <3> QED
      BY <1>1, <2>1, <3>1
  <2> QED
    BY <1>2, <2>4, <2>5, <2>6, <2>7 DEF Parse
<1>3. CASE Delete
  BY <1>3 DEF Delete
<1>4. CASE UNCHANGED vars
  BY <1>1, <1>4 DEF vars
<1> QED
  BY <1>2, <1>3, <1>4 DEF Next

(* However damaged a section is, a chunk object that deserialize_child     *)
(* made is in one container or still being read, and containers were made  *)
(* before what they hold: Container::~Container deletes it once.           *)
THEOREM ChunksHeldOnce == Spec => []HeldOnce
<1>1. Init => HeldInv
  <2> SUFFICES ASSUME Init PROVE HeldInv
    OBVIOUS
  <2>1. DOMAIN owner = {} /\ DOMAIN chunk = {}
    BY DEF Init
  <2> QED
    BY <2>1 DEF HeldInv
<1>2. HeldInv => HeldOnce
  BY DEF HeldInv, Held, HeldOnce, Stacked, Elems
<1> QED
  BY <1>1, <1>2, InitType, StepType, HeldStep, PTL DEF Spec

-----------------------------------------------------------------------------
(* What became of token t, if it is a chunk or a property.                 *)
Kept(t) ==
  IF t \in DOMAIN chunk THEN \A k \in DOMAIN props : t \notin PropTokens(k)
  ELSE \E k \in DOMAIN props : /\ t \in PropTokens(k) /\ k < t
                               /\ \A l \in DOMAIN props \ {k} : t \notin PropTokens(l)

(* An end marker is neither a chunk nor a property.                        *)
LEMMA MarkerTypes ==
  ASSUME Makes("end") PROVE Type \in {1, 3, 18}
  BY DEF Makes, Factory

LEMMA KeptStep == TypeInv /\ NothingSkipped /\ [Next]_vars => NothingSkipped'
<1> DEFINE Kind(t) == file.tokens[t].type \in {16, 17, 33, 34, 35}
<1> SUFFICES ASSUME TypeInv, NothingSkipped, [Next]_vars, pc' # "deleted",
                    NEW t \in First' .. buf' - 1, file'.tokens[t].type \in {16, 17, 33, 34, 35}
             PROVE  Kept(t)'
  BY DEF NothingSkipped, Kept
<1>1. file' = file /\ First' = First /\ Kind(t)
  BY DEF Next, Parse, vars, Begin, BeginChild, HeaderProperty, EndMarker, WrongChild, AppendProperty, EndChild,
         EndSection, ReadIndex, ReadPastEnd, Delete, Throw, First
<1>2. First \in {2, 3} /\ t \in Nat /\ buf \in Nat
  BY <1>1, BufFacts DEF First, FirstChild
<1>3. CASE UNCHANGED <<chunk, props, buf>> /\ pc # "deleted"
  BY <1>1, <1>2, <1>3 DEF NothingSkipped, Kept, PropTokens
<1>4. CASE Parse
  <2>1. pc \in {"begin", "children", "index"} /\ Running /\ result = "pending"
    BY <1>4 DEF Parse, Begin, BeginChild, HeaderProperty, EndMarker, WrongChild, AppendProperty, EndChild,
                EndSection, ReadIndex, ReadPastEnd, Parsing, TypeInv, Running
  <2>2. t < buf => Kept(t)
    BY <1>1, <1>2, <2>1 DEF NothingSkipped, Kept
  <2>3. buf \notin DOMAIN chunk /\ \A k \in DOMAIN props : buf \notin PropTokens(k)
    BY <1>2, <2>1 DEF Running, Faults
  <2>4. CASE Begin
    <3>1. CASE Throw("IncorrectChunk") /\ UNCHANGED chunk
      BY <1>3, <2>1, <3>1 DEF Throw
    <3>2. CASE Throw("abort") /\ UNCHANGED chunk
      BY <1>3, <2>1, <3>2 DEF Throw
    <3>3. CASE buf' = First
      BY <1>1, <1>2, <3>3
    <3> QED
      BY <2>4, <3>1, <3>2, <3>3 DEF Begin
  <2>5. CASE BeginChild
    <3>1. PICK m \in {"def", "ref", "group", "value"} :
            /\ chunk' = Bind(chunk, buf, m)
            /\ \/ props' = props /\ buf' = buf
               \/ props' = Bind(props, buf, << >>) /\ buf' = buf + 1
      BY <2>5 DEF BeginChild, Throw
    <3>2. DOMAIN chunk' = DOMAIN chunk \cup {buf}
      BY <3>1 DEF Bind
    <3>3. CASE props' = props /\ buf' = buf
      BY <1>1, <1>2, <2>2, <3>2, <3>3 DEF Kept, PropTokens
    <3>4. CASE props' = Bind(props, buf, << >>) /\ buf' = buf + 1
      <4>1. buf \notin DOMAIN props
        BY <1>2, <2>1 DEF Running
      <4>2. DOMAIN props' = DOMAIN props \cup {buf}
        BY <3>4 DEF Bind
      <4>3. ASSUME NEW k \in DOMAIN props
            PROVE  PropTokens(k)' = PropTokens(k)
        BY <3>4, <4>1 DEF Bind, PropTokens
      <4>4. ASSUME NEW k \in {buf}
            PROVE  PropTokens(k)' = {}
        BY <3>4 DEF Bind, PropTokens
      <4>5. CASE t < buf
        BY <2>2, <3>2, <4>1, <4>2, <4>3, <4>4, <4>5 DEF Kept
      <4>6. CASE t = buf
        BY <2>3, <3>2, <4>2, <4>3, <4>4, <4>6 DEF Kept
      <4> QED
        BY <1>2, <3>4, <4>5, <4>6
    <3> QED
      BY <3>1, <3>3, <3>4
  <2>6. CASE HeaderProperty
    <3>1. /\ props' = props /\ DOMAIN chunk' = DOMAIN chunk \cup {buf}
          /\ buf' = buf \/ buf' = buf + 1
      BY <2>6 DEF HeaderProperty, Bind, Throw
    <3>2. CASE t < buf
      BY <2>2, <3>1, <3>2 DEF Kept, PropTokens
    <3>3. CASE t = buf
      BY <2>3, <3>1, <3>3 DEF Kept, PropTokens
    <3> QED
      BY <1>2, <3>1, <3>2, <3>3
  <2>7. CASE EndMarker
    <3>1. UNCHANGED <<chunk, props>> /\ buf' = buf + 1 /\ ~Kind(buf)
      BY <2>7, MarkerTypes DEF EndMarker, Type, Token, Parsing
    <3>2. t < buf
      BY <1>1, <1>2, <3>1
    <3> QED
      BY <2>2, <3>1, <3>2 DEF Kept, PropTokens
  <2>8. CASE AppendProperty
    <3>0. CASE Throw(Token.fault)
      BY <1>3, <2>1, <2>8, <3>0 DEF AppendProperty, Throw
    <3> SUFFICES ASSUME ~Throw(Token.fault) PROVE Kept(t)'
      BY <3>0
    <3>1. /\ props' = [props EXCEPT ![Top] = Append(@, buf)] /\ buf' = buf + 1 /\ chunk' = chunk
          /\ Top \in DOMAIN props /\ Top < buf /\ buf \in DOMAIN file.tokens
      BY <2>1, <2>8, TopFacts, BufFacts DEF AppendProperty, HasBlock, Running, Parsing
    <3>2. DOMAIN props' = DOMAIN props
      BY <3>1
    <3>3. ASSUME NEW k \in DOMAIN props, k # Top
          PROVE  PropTokens(k)' = PropTokens(k)
      BY <3>1, <3>3 DEF PropTokens
    <3>4. ASSUME NEW k \in DOMAIN props, k = Top
          PROVE  PropTokens(k)' = PropTokens(k) \cup {buf}
      <4>1. props'[k] = Append(props[k], buf)
        BY <3>1, <3>4
      <4>2. {Append(props[k], buf)[j] : j \in DOMAIN Append(props[k], buf)} = PropTokens(k) \cup {buf}
        BY <3>1, BlockElems
      <4> QED
        BY <4>1, <4>2 DEF PropTokens
    <3>5. CASE t < buf
      BY <2>2, <3>1, <3>2, <3>3, <3>4, <3>5 DEF Kept
    <3>6. CASE t = buf
      BY <2>3, <3>1, <3>2, <3>3, <3>4, <3>6 DEF Kept
    <3> QED
      BY <1>2, <3>1, <3>5, <3>6
  <2>9. CASE ReadIndex
    <3>1. CASE (Throw("IncorrectChunk") \/ Throw(Token.fault)) /\ UNCHANGED chunk
      BY <1>3, <2>1, <3>1 DEF Throw
    <3>2. CASE UNCHANGED <<chunk, props>> /\ buf' = buf + 1 /\ Type = 19 /\ ~Eof
      <4>1. t < buf
        BY <1>1, <1>2, <3>2 DEF Type, Token
      <4> QED
        BY <2>2, <3>2, <4>1 DEF Kept, PropTokens
    <3> QED
      BY <2>9, <3>1, <3>2 DEF ReadIndex
  <2>10. CASE WrongChild \/ EndChild \/ EndSection \/ ReadPastEnd
    BY <1>3, <2>1, <2>10 DEF WrongChild, EndChild, EndSection, ReadPastEnd, Throw
  <2> QED
    BY <1>4, <2>4, <2>5, <2>6, <2>7, <2>8, <2>9, <2>10 DEF Parse
<1>5. CASE Delete
  BY <1>5 DEF Delete
<1>6. CASE UNCHANGED vars
  BY <1>3, <1>6 DEF vars
<1> QED
  BY <1>4, <1>5, <1>6 DEF Next

(* Whatever counts and end positions a damaged section has, every chunk    *)
(* and property the parser meets is kept, in one place: no turn of the     *)
(* loops reads something twice or steps over it.                           *)
THEOREM TokensKept == Spec => []NothingSkipped
<1>1. Init => NothingSkipped
  BY DEF Init, NothingSkipped, First, FirstChild
<1> QED
  BY <1>1, InitType, StepType, KeptStep, PTL DEF Spec


-----------------------------------------------------------------------------
(* Property maps.  FindsLast, Block and PropertiesFound with the state they *)
(* read as arguments, so that a step's two states can be compared.         *)
LastIn(f, map, tokens) ==
  /\ DOMAIN map = {f.tokens[t].name : t \in tokens}
  /\ \A name \in DOMAIN map :
       /\ map[name] \in tokens /\ f.tokens[map[name]].name = name
       /\ \A t \in tokens : f.tokens[t].name = name => t <= map[name]

Children(o) == {c \in DOMAIN o : o[c] = 0}
TokensIn(p, k) == {p[k][j] : j \in DOMAIN p[k]}
BlockIn(f, p, o, r, k) ==
  IF k # 0 THEN TokensIn(p, k) ELSE IF f.kind = "header" /\ r = "ok" THEN Children(o) ELSE {}
FoundIn(f, p, m, o, r) == \A k \in DOMAIN m : LastIn(f, m[k], BlockIn(f, p, o, r, k))

FoundInv ==
  /\ pc # "deleted" => FoundIn(file, props, propmap, owner, result)
  /\ pc = "index" => file.kind # "header"

LEMMA FoundMeans == FoundInv => PropertiesFound
  BY DEF FoundInv, FoundIn, LastIn, BlockIn, Children, TokensIn,
         PropertiesFound, FindsLast, Block, Members, PropTokens

(* A map with the last of some tokens, and one more behind them.           *)
LEMMA BindLast ==
  ASSUME NEW f, NEW map, NEW tokens \in SUBSET Nat, LastIn(f, map, tokens),
         NEW t \in Nat, \A u \in tokens : u < t
  PROVE  LastIn(f, Bind(map, f.tokens[t].name, t), tokens \cup {t})
<1> DEFINE name == f.tokens[t].name
           new  == Bind(map, name, t)
<1>1. DOMAIN new = DOMAIN map \cup {name}
  BY DEF Bind
<1>2. \A n \in DOMAIN new : new[n] = IF n = name THEN t ELSE map[n]
  BY DEF Bind
<1> HIDE DEF new
<1>3. DOMAIN new = {f.tokens[u].name : u \in tokens \cup {t}}
  BY <1>1 DEF LastIn
<1>4. ASSUME NEW n \in DOMAIN new
      PROVE  /\ new[n] \in tokens \cup {t} /\ f.tokens[new[n]].name = n
             /\ \A u \in tokens \cup {t} : f.tokens[u].name = n => u <= new[n]
  <2>1. CASE n = name
    <3>1. new[n] = t
      BY <1>2, <2>1
    <3> QED
      BY <2>1, <3>1
  <2>2. CASE n # name
    <3>1. n \in DOMAIN map /\ new[n] = map[n]
      BY <1>1, <1>2, <2>2
    <3> QED
      BY <2>2, <3>1 DEF LastIn
  <2> QED
    BY <2>1, <2>2
<1>5. LastIn(f, new, tokens \cup {t})
  BY <1>3, <1>4 DEF LastIn
<1> QED
  BY <1>5 DEF new

(* Of the header's properties of one name there is a last one.             *)
LEMMA HeaderLast ==
  ASSUME TypeInv
  PROVE  LastIn(file, HeaderProperties, Children(owner))
<1> DEFINE N == Len(file.tokens)
           M == Members(0)
<1>1. N \in Nat /\ M \subseteq 1 .. N /\ M = Children(owner)
  BY TokenFacts DEF TypeInv, TypeOK, Members, Children
<1>2. ASSUME NEW name \in {file.tokens[c].name : c \in M}
      PROVE  \E c \in M : /\ file.tokens[c].name = name
                          /\ \A d \in M : file.tokens[d].name = name => d <= c
  <2> DEFINE T == {c \in M : file.tokens[c].name = name}
             U == {N - c : c \in T}
  <2>0. T \subseteq 1 .. N /\ T # {}
    BY <1>1, <1>2
  <2> HIDE DEF T, N
  <2>1. U \subseteq Nat /\ U # {}
    <3>1. \A c \in T : N - c \in Nat
      BY <1>1, <2>0
    <3>2. PICK c \in T : TRUE
      BY <2>0
    <3>3. N - c \in U
      OBVIOUS
    <3> QED
      BY <3>1, <3>3
  <2> HIDE DEF U
  <2>2. PICK u \in U : \A v \in U : ~(<<v, u>> \in OpToRel(<, Nat))
    BY <2>1, WFMin, NatLessThanWellFounded, Zenon
  <2>3. \A v \in U : ~(v < u)
    BY <2>1, <2>2 DEF OpToRel
  <2>4. PICK c \in T : u = N - c
    BY DEF U
  <2>5. ASSUME NEW d \in T
        PROVE  d <= c
    <3>1. N - d \in U
      BY DEF U
    <3>2. ~(N - d < N - c)
      BY <2>3, <2>4, <3>1
    <3>3. N \in Int /\ c \in Int /\ d \in Int
      BY <1>1, <2>0
    <3> QED
      BY <3>2, <3>3
  <2> QED
    BY <2>5 DEF T
<1> HIDE DEF M
<1>3. /\ DOMAIN HeaderProperties = {file.tokens[c].name : c \in M}
      /\ \A name \in DOMAIN HeaderProperties :
           /\ HeaderProperties[name] \in M /\ file.tokens[HeaderProperties[name]].name = name
           /\ \A d \in M : file.tokens[d].name = name => d <= HeaderProperties[name]
  BY <1>2 DEF HeaderProperties, M
<1> QED
  BY <1>1, <1>3 DEF LastIn

(* Without tokens, the empty map.                                          *)
LEMMA EmptyLast == ASSUME NEW f PROVE LastIn(f, << >>, {})
  BY DEF LastIn

(* A step that appends nothing and reads no header leaves the maps right.  *)
LEMMA MapsStay ==
  ASSUME FoundInv, pc # "deleted", UNCHANGED <<file, props, propmap>>,
         result' # "ok" \/ file.kind # "header", result # "ok"
  PROVE  FoundIn(file', props', propmap', owner', result')
  BY DEF FoundInv, FoundIn, BlockIn

LEMMA FoundStep == TypeInv /\ FoundInv /\ [Next]_vars => FoundInv'
<1> SUFFICES ASSUME TypeInv, FoundInv, [Next]_vars PROVE FoundInv'
  OBVIOUS
<1>0. /\ pc \in {"begin", "children", "index"} => result = "pending" /\ Running
      /\ DOMAIN propmap = {0} \cup DOMAIN props
  BY DEF TypeInv, TypeOK, Running
<1>1. CASE UNCHANGED vars
  BY <1>1 DEF vars, FoundInv
<1>2. CASE Delete
  BY <1>2 DEF Delete, FoundInv
<1>3. ASSUME NEW ex \in Results \ {"pending", "ok"}, Throw(ex), pc \in {"begin", "children", "index"}
      PROVE  FoundInv'
  <2>1. /\ pc' = "failed" /\ result' = ex /\ UNCHANGED <<file, props, propmap>>
        /\ result = "pending" /\ pc # "deleted"
    BY <1>0, <1>3 DEF Throw
  <2>2. FoundIn(file', props', propmap', owner', result')
    BY <2>1, MapsStay
  <2> QED
    BY <2>1, <2>2 DEF FoundInv
<1>8. CASE Faulty /\ Throw(Token.fault) /\ ~Eof /\ pc \in {"children", "index"}
  BY <1>3, <1>8, FaultFacts
<1>4. CASE Begin \/ HeaderProperty \/ EndMarker \/ EndChild \/ WrongChild \/ ReadPastEnd \/ ReadIndex
  <2>1. CASE Throw("IncorrectChunk") \/ Throw("abort") \/ Throw("undefined")
    <3>1. pc \in {"begin", "children", "index"}
      BY <1>4 DEF Begin, HeaderProperty, EndMarker, EndChild, WrongChild, ReadPastEnd, ReadIndex, Parsing
    <3> QED
      BY <1>3, <2>1, <3>1 DEF Results
  <2>2. CASE ~(Throw("IncorrectChunk") \/ Throw("abort") \/ Throw("undefined"))
    <3>0. CASE (HeaderProperty \/ ReadIndex) /\ Faulty /\ Throw(Token.fault)
      BY <1>8, <3>0 DEF HeaderProperty, ReadIndex, Parsing
    <3> SUFFICES ASSUME ~((HeaderProperty \/ ReadIndex) /\ Faulty /\ Throw(Token.fault)) PROVE FoundInv'
      BY <3>0
    <3>1. /\ UNCHANGED <<file, props, propmap>> /\ pc # "deleted" /\ result = "pending"
          /\ result' # "ok" \/ file.kind # "header"
          /\ pc' # "index"
      BY <1>0, <1>4, <2>2 DEF Begin, HeaderProperty, EndMarker, EndChild, WrongChild, ReadPastEnd, ReadIndex,
                              Parsing, FoundInv
    <3>2. FoundIn(file', props', propmap', owner', result')
      BY <3>1, MapsStay
    <3> QED
      BY <3>1, <3>2 DEF FoundInv
  <2> QED
    BY <2>1, <2>2
<1>5. CASE EndSection
  <2>1. /\ UNCHANGED <<file, props, owner>> /\ pc = "children" /\ result = "pending"
        /\ pc' = "index" => file.kind # "header"
    BY <1>0, <1>5 DEF EndSection, Indexed
  <2>2. CASE file.kind # "header"
    <3>1. propmap' = propmap
      BY <1>5, <2>2 DEF EndSection
    <3>2. FoundIn(file', props', propmap', owner', result')
      BY <2>1, <2>2, <3>1, MapsStay
    <3> QED
      BY <2>1, <3>2 DEF FoundInv
  <2>3. CASE file.kind = "header"
    <3>1. result' = "ok" /\ propmap' = Bind(propmap, 0, HeaderProperties)
      BY <1>5, <2>3 DEF EndSection, Indexed
    <3>2. /\ DOMAIN propmap' = DOMAIN propmap
          /\ propmap'[0] = HeaderProperties
          /\ \A k \in DOMAIN propmap \ {0} : propmap'[k] = propmap[k]
      BY <1>0, <3>1 DEF Bind
    <3>3. ASSUME NEW k \in DOMAIN propmap'
          PROVE  LastIn(file', propmap'[k], BlockIn(file', props', owner', result', k))
      <4>1. CASE k = 0
        BY <2>1, <2>3, <3>1, <3>2, <4>1, HeaderLast DEF BlockIn
      <4>2. CASE k # 0
        BY <2>1, <3>2, <4>2 DEF FoundInv, FoundIn, BlockIn
      <4> QED
        BY <4>1, <4>2
    <3> QED
      BY <2>1, <3>3 DEF FoundInv, FoundIn
  <2> QED
    BY <2>2, <2>3
<1>6. CASE BeginChild
  <2>1. CASE Faulty /\ Throw(Token.fault)
    BY <1>6, <1>8, <2>1 DEF BeginChild, Parsing
  <2>2. CASE /\ props' = Bind(props, buf, << >>) /\ propmap' = Bind(propmap, buf, << >>)
             /\ UNCHANGED <<file, pc, owner, result>>
    <3>1. PICK b : b = buf
      OBVIOUS
    <3>2. /\ DOMAIN propmap' = DOMAIN propmap \cup {b} /\ propmap'[b] = << >>
          /\ \A k \in DOMAIN propmap \ {b} : propmap'[k] = propmap[k]
      BY <2>2, <3>1 DEF Bind
    <3>3. props'[b] = << >> /\ \A k \in DOMAIN props \ {b} : props'[k] = props[k]
      BY <2>2, <3>1 DEF Bind
    <3>4. pc = "children" /\ result = "pending" /\ b # 0
      BY <1>0, <1>6, <3>1, BufFacts DEF BeginChild, Parsing
    <3>5. ASSUME NEW k \in DOMAIN propmap'
          PROVE  LastIn(file', propmap'[k], BlockIn(file', props', owner', result', k))
      <4>1. CASE k = b
        <5>1. BlockIn(file', props', owner', result', k) = {}
          BY <3>3, <3>4, <4>1 DEF BlockIn, TokensIn
        <5> QED
          BY <3>2, <4>1, <5>1, EmptyLast
      <4>2. CASE k # b
        <5>1. k \in DOMAIN propmap /\ propmap'[k] = propmap[k]
          BY <3>2, <4>2
        <5>2. BlockIn(file', props', owner', result', k) = BlockIn(file, props, owner, result, k)
          BY <1>0, <2>2, <3>3, <4>2, <5>1 DEF BlockIn, TokensIn
        <5> QED
          BY <2>2, <3>4, <5>1, <5>2 DEF FoundInv, FoundIn
      <4> QED
        BY <4>1, <4>2
    <3> QED
      BY <2>2, <3>4, <3>5 DEF FoundInv, FoundIn
  <2> QED
    BY <1>6, <2>1, <2>2 DEF BeginChild
<1>7. CASE AppendProperty
  <2>0. CASE Faulty /\ Throw(Token.fault)
    BY <1>7, <1>8, <2>0 DEF AppendProperty, Parsing
  <2> SUFFICES ASSUME ~(Faulty /\ Throw(Token.fault)) PROVE FoundInv'
    BY <2>0
  <2>1. /\ props' = [props EXCEPT ![Top] = Append(@, buf)]
        /\ propmap' = [propmap EXCEPT ![Top] = Bind(@, Token.name, buf)]
        /\ UNCHANGED <<file, pc, owner, result>>
        /\ pc = "children" /\ Top # 0 /\ ~Eof /\ result = "pending" /\ Running
    BY <1>0, <1>7 DEF AppendProperty, Parsing, HasBlock
  <2>2. Top \in DOMAIN props /\ buf \in DOMAIN file.tokens /\ buf \in Nat
    BY <2>1, TopFacts, BufFacts
  <2>3. PICK h \in DOMAIN props : h = Top
    BY <2>2
  <2>4. h # 0 /\ h \in DOMAIN propmap
    BY <1>0, <2>1, <2>3
  <2>5. {Append(props[h], buf)[j] : j \in DOMAIN Append(props[h], buf)} = TokensIn(props, h) \cup {buf}
    BY <2>2, BlockElems DEF TokensIn, PropTokens
  <2>6. TokensIn(props, h) \subseteq Nat /\ \A u \in TokensIn(props, h) : u < buf
    BY <2>1, NameFacts DEF Running, TokensIn, PropTokens
  <2>7. LastIn(file, propmap[h], TokensIn(props, h))
    BY <2>1, <2>4 DEF FoundInv, FoundIn, BlockIn
  <2>8. LastIn(file, Bind(propmap[h], Token.name, buf), TokensIn(props, h) \cup {buf})
    BY <2>2, <2>6, <2>7, BindLast DEF Token
  <2>9. PICK q : q = Append(props[h], buf)
    OBVIOUS
  <2>10. {q[j] : j \in DOMAIN q} = TokensIn(props, h) \cup {buf}
    BY <2>5, <2>9
  <2>11. /\ DOMAIN propmap' = DOMAIN propmap
         /\ propmap'[h] = Bind(propmap[h], Token.name, buf) /\ props'[h] = q
         /\ \A k \in DOMAIN propmap \ {h} : propmap'[k] = propmap[k]
         /\ \A k \in DOMAIN props \ {h} : props'[k] = props[k]
    BY <2>1, <2>3, <2>4, <2>9
  <2>12. ASSUME NEW k \in DOMAIN propmap'
         PROVE  LastIn(file', propmap'[k], BlockIn(file', props', owner', result', k))
    <3>1. CASE k = h
      <4>1. BlockIn(file', props', owner', result', k) = TokensIn(props, h) \cup {buf}
        BY <2>4, <2>10, <2>11, <3>1 DEF BlockIn, TokensIn
      <4> QED
        BY <2>1, <2>8, <2>11, <3>1, <4>1
    <3>2. CASE k # h
      <4>1. k \in DOMAIN propmap /\ propmap'[k] = propmap[k]
        BY <2>11, <3>2
      <4>2. BlockIn(file', props', owner', result', k) = BlockIn(file, props, owner, result, k)
        <5>1. /\ k = 0 \/ props'[k] = props[k]
              /\ file' = file /\ owner' = owner /\ result' = result
          BY <1>0, <2>1, <2>11, <3>2, <4>1
        <5> QED
          BY <5>1 DEF BlockIn, TokensIn
      <4> QED
        BY <2>1, <4>1, <4>2 DEF FoundInv, FoundIn
    <3> QED
      BY <3>1, <3>2
  <2> QED
    BY <2>1, <2>12 DEF FoundInv, FoundIn
<1> QED
  BY <1>1, <1>2, <1>4, <1>5, <1>6, <1>7 DEF Next, Parse

(* In every block the properties read so far are found under their names,  *)
(* the last of each (psfpropertyblock.cc:42-67), in the header's once it is *)
(* read (psfsections.cc:19-22), whatever the section looks like.           *)
THEOREM PropertiesAreFound == Spec => []PropertiesFound
<1>1. Init => FoundInv
  <2> SUFFICES ASSUME Init PROVE FoundInv
    OBVIOUS
  <2>1. DOMAIN propmap = {0} /\ propmap[0] = << >> /\ BlockIn(file, props, owner, result, 0) = {}
    BY DEF Init, Bind, BlockIn
  <2>2. FoundIn(file, props, propmap, owner, result)
    BY <2>1, EmptyLast DEF FoundIn
  <2> QED
    BY <2>2 DEF Init, FoundInv
<1> QED
  BY <1>1, FoundMeans, InitType, StepType, FoundStep, PTL DEF Spec

-----------------------------------------------------------------------------
(* The chunks ~Container reaches, level by level.                          *)
Levels == [A \in SUBSET ({0} \cup DOMAIN owner) |-> A \cup {c \in DOMAIN owner : owner[c] \in A}]

LEMMA FreedFacts ==
  ASSUME file \in Files
  PROVE  \E held \in [0 .. Len(file.tokens) -> SUBSET ({0} \cup DOMAIN owner)] :
           /\ held[0] = {0}
           /\ \A n \in 1 .. Len(file.tokens) :
                held[n] = held[n - 1] \cup {c \in DOMAIN owner : owner[c] \in held[n - 1]}
           /\ Freed = held[Len(file.tokens)]
<1> DEFINE L == Len(file.tokens)
           S == SUBSET ({0} \cup DOMAIN owner)
           step == [n \in 1 .. L |-> Levels]
           Body(h) == [n \in 0 .. L |-> IF n = 0 THEN {0}
                        ELSE h[n - 1] \cup {c \in DOMAIN owner : owner[c] \in h[n - 1]}]
           IsHeld(h) == /\ h \in [0 .. L -> S] /\ h[0] = {0}
                        /\ \A n \in 1 .. L :
                             h[n] = h[n - 1] \cup {c \in DOMAIN owner : owner[c] \in h[n - 1]}
<1>1. L \in Nat
  BY TokenFacts
<1> HIDE DEF L
<1>2. {0} \in S /\ Levels \in [S -> S]
  BY DEF Levels
<1>3. Steps(L, S, step)
  BY <1>2 DEF Steps
<1> HIDE DEF step
<1>4. PICK f : Iterates(L, S, {0}, step, f)
  BY <1>1, <1>2, <1>3, Iteration
<1>5. IsHeld(f)
  <2>1. ASSUME NEW n \in 1 .. L
        PROVE  f[n] = f[n - 1] \cup {c \in DOMAIN owner : owner[c] \in f[n - 1]}
    <3>1. f[n - 1] \in S
      <4>1. n - 1 \in 0 .. L
        BY <1>1
      <4> QED
        BY <1>4, <4>1 DEF Iterates
    <3> QED
      BY <1>4, <3>1 DEF step, Levels, Iterates
  <2> QED
    BY <1>4, <2>1 DEF Iterates
<1>6. f = Body(f)
  <2>1. \A n \in 0 .. L : f[n] = Body(f)[n]
    BY <1>1, <1>5
  <2>2. DOMAIN f = 0 .. L /\ f = [n \in 0 .. L |-> f[n]]
    BY <1>4 DEF Iterates
  <2> QED
    BY <2>1, <2>2
<1> DEFINE held == CHOOSE h : h = Body(h)
<1>7. held = Body(held)
  BY <1>6
<1>8. Freed = held[L]
  BY DEF Freed, L
<1> HIDE DEF held
<1>9. IsHeld(held)
  <2>1. /\ held[0] = {0}
        /\ \A n \in 1 .. L :
             held[n] = held[n - 1] \cup {c \in DOMAIN owner : owner[c] \in held[n - 1]}
    BY <1>1, <1>7
  <2> DEFINE Good == {n \in Nat : n <= L => held[n] \in S}
  <2>2. 0 \in Good
    BY <2>1
  <2>3. ASSUME NEW n \in Nat, n \in Good PROVE n + 1 \in Good
    <3>1. CASE n + 1 <= L
      <4>1. n + 1 \in 1 .. L /\ (n + 1) - 1 = n /\ held[n] \in S
        BY <1>1, <2>3, <3>1
      <4> QED
        BY <2>1, <4>1
    <3> QED
      BY <3>1
  <2> HIDE DEF Good
  <2>4. Nat \subseteq Good
    BY <2>2, <2>3, SetInduction
  <2>5. \A n \in 0 .. L : held[n] \in S
    BY <1>1, <2>4 DEF Good
  <2>6. DOMAIN held = 0 .. L /\ held = [n \in 0 .. L |-> held[n]]
    BY <1>7
  <2> QED
    BY <2>1, <2>5, <2>6
<1> QED
  BY <1>8, <1>9 DEF L

(* ~Container reaches every chunk that has a holder.                       *)
LEMMA FreedAll ==
  ASSUME TypeInv, HeldInv, pc # "deleted", Elems(stack) = {0}
  PROVE  DOMAIN owner \subseteq Freed
<1> DEFINE L == Len(file.tokens)
<1>1. PICK held \in [0 .. L -> SUBSET ({0} \cup DOMAIN owner)] :
        /\ held[0] = {0}
        /\ \A n \in 1 .. L : held[n] = held[n - 1] \cup {c \in DOMAIN owner : owner[c] \in held[n - 1]}
        /\ Freed = held[L]
  BY FreedFacts DEF TypeInv
<1>2. /\ L \in Nat /\ DOMAIN owner \subseteq 1 .. L
      /\ \A c \in DOMAIN owner : owner[c] \in {0} \cup DOMAIN owner /\ owner[c] < c
  BY TokenFacts DEF TypeInv, TypeOK, HeldInv, Held
<1> HIDE DEF L
<1> DEFINE Reached(n) == \A c \in {0} \cup DOMAIN owner : c <= n => c \in held[n]
           Good == {n \in Nat : n <= L => Reached(n)}
<1>3. 0 \in Good
  BY <1>1, <1>2
<1>4. ASSUME NEW n \in Nat, n \in Good PROVE n + 1 \in Good
  <2>1. CASE n + 1 <= L
    <3>1. n + 1 \in 1 .. L /\ (n + 1) - 1 = n /\ Reached(n)
      BY <1>2, <1>4, <2>1
    <3>2. held[n + 1] = held[n] \cup {c \in DOMAIN owner : owner[c] \in held[n]}
      BY <1>1, <3>1
    <3>3. ASSUME NEW c \in {0} \cup DOMAIN owner, c <= n + 1 PROVE c \in held[n + 1]
      <4>1. CASE c <= n
        BY <3>1, <3>2, <4>1
      <4>2. CASE c = n + 1
        <5>1. c \in DOMAIN owner /\ owner[c] \in {0} \cup DOMAIN owner /\ owner[c] <= n
          BY <1>2, <4>2
        <5> QED
          BY <3>1, <3>2, <5>1
      <4> QED
        BY <1>2, <3>3, <4>1, <4>2
    <3> QED
      BY <3>3
  <2> QED
    BY <2>1
<1> HIDE DEF Good
<1>5. L \in Good
  BY <1>2, <1>3, <1>4, SetInduction
<1>6. Reached(L)
  BY <1>2, <1>5 DEF Good
<1> QED
  BY <1>1, <1>2, <1>6

(* A section that was read has nothing on the stack but itself.            *)
FreedInv ==
  /\ pc = "index" \/ result = "ok" => Elems(stack) = {0}
  /\ AllFreed

LEMMA FreedStep == TypeInv /\ HeldInv /\ FreedInv /\ [Next]_vars => FreedInv'
<1> SUFFICES ASSUME TypeInv, HeldInv, FreedInv, [Next]_vars PROVE FreedInv'
  OBVIOUS
<1>1. pc \in {"begin", "children", "index"} => result = "pending"
  BY DEF TypeInv, Running
<1>2. ASSUME NEW ex \in Results \ {"ok"}, Throw(ex) PROVE FreedInv'
  BY <1>2 DEF Throw, FreedInv, AllFreed
<1>11. ASSUME Faulty, Throw(Token.fault), ~Eof PROVE FreedInv'
  BY <1>2, <1>11, FaultFacts
<1>3. CASE EndSection
  <2>1. stack' = stack /\ Top = 0 /\ pc = "children" /\ pc' # "deleted"
    BY <1>3 DEF EndSection
  <2>2. Len(stack) = 1 /\ stack[1] = 0
    <3>1. Rising(stack) /\ stack[1] = 0
      BY <2>1 DEF TypeInv, TypeOK, Running
    <3>2. PICK n \in Nat \ {0} : n = Len(stack)
      BY <2>1, TopFacts
    <3>3. stack[n] = 0
      BY <2>1, <3>2 DEF Top
    <3>4. n > 1 => stack[1] < stack[n]
      BY <3>1, <3>2 DEF Rising
    <3>5. n = 1
      BY <3>1, <3>3, <3>4
    <3> QED
      BY <3>1, <3>2, <3>5
  <2>3. Elems(stack) = {0}
    BY <2>2 DEF Elems
  <2> QED
    BY <2>1, <2>3 DEF FreedInv, AllFreed, Elems
<1>4. CASE ReadIndex
  <2>1. CASE stack' = stack /\ pc = "index" /\ pc' = "parsed"
    BY <2>1 DEF FreedInv, AllFreed, Elems
  <2> QED
    BY <1>2, <1>4, <1>11, <2>1 DEF ReadIndex, Results
<1>5. CASE Delete
  <2>1. /\ UNCHANGED <<stack, result>> /\ pc # "index" /\ pc # "deleted" /\ pc' = "deleted"
        /\ chunk' = [c \in DOMAIN chunk \ Freed |-> chunk[c]]
    BY <1>5 DEF Delete
  <2>2. CASE result = "ok"
    <3>1. Elems(stack) = {0}
      BY <2>2 DEF FreedInv
    <3>2. DOMAIN owner \subseteq Freed
      BY <2>1, <3>1, FreedAll
    <3>3. DOMAIN chunk \subseteq DOMAIN owner
      BY <2>1, <2>2, <3>1, NameFacts DEF HeldInv, Held, Faults
    <3>4. DOMAIN chunk' = {}
      BY <2>1, <3>2, <3>3
    <3> QED
      BY <2>1, <3>1, <3>4 DEF FreedInv, AllFreed, Elems
  <2>3. CASE result # "ok"
    BY <2>1, <2>3 DEF FreedInv, AllFreed
  <2> QED
    BY <2>2, <2>3
<1>6. CASE BeginChild
  <2>1. CASE pc' = pc /\ result' = result
    BY <1>1, <1>6, <2>1 DEF BeginChild, Parsing, FreedInv, AllFreed
  <2> QED
    BY <1>6, <1>11, <2>1 DEF BeginChild, Parsing
<1>7. CASE Begin
  <2>1. CASE pc' = "children" /\ result' = result
    BY <1>1, <1>7, <2>1 DEF Begin, FreedInv, AllFreed
  <2> QED
    BY <1>2, <1>7, <2>1 DEF Begin, Results
<1>8. CASE HeaderProperty \/ EndMarker \/ AppendProperty \/ EndChild
  <2>1. CASE pc = "children" /\ pc' = pc /\ result' = result
    BY <1>1, <2>1 DEF FreedInv, AllFreed
  <2> QED
    BY <1>8, <1>11, <2>1 DEF HeaderProperty, EndMarker, AppendProperty, EndChild, Parsing
<1>9. CASE WrongChild \/ ReadPastEnd
  BY <1>2, <1>9 DEF WrongChild, ReadPastEnd, Results
<1>10. CASE UNCHANGED vars
  BY <1>10 DEF vars, FreedInv, AllFreed, Elems
<1> QED
  BY <1>3, <1>4, <1>5, <1>6, <1>7, <1>8, <1>9, <1>10 DEF Next, Parse

(* Deleting a section that was read leaves no chunk object: ~Container     *)
(* (psfcontainer.cc:9-12) reaches every one of them, however deep they are *)
(* nested and whatever counts and end positions the section had.           *)
THEOREM SectionsFreed == Spec => []AllFreed
<1>1. Init => HeldInv /\ FreedInv
  <2> SUFFICES ASSUME Init PROVE HeldInv /\ FreedInv
    OBVIOUS
  <2>1. DOMAIN owner = {} /\ DOMAIN chunk = {} /\ pc = "begin" /\ result = "pending"
    BY DEF Init
  <2> QED
    BY <2>1 DEF HeldInv, FreedInv, AllFreed
<1>2. FreedInv => AllFreed
  BY DEF FreedInv
<1> QED
  BY <1>1, <1>2, InitType, StepType, HeldStep, FreedStep, PTL DEF Spec

-----------------------------------------------------------------------------
(* An intact section, as it was written.                                   *)
LEMMA WrittenIs ==
  ASSUME NEW f, NEW t
  PROVE  /\ t = 0 => Written(f, t) = f.kind
         /\ t # 0 => /\ Written(f, t) \in {"property", "end", "group", "def", "value", "ref"}
                     /\ Written(f, t) = "property" <=> IsProperty(f.tokens[t].type)
                     /\ Written(f, t) = "end" => f.tokens[t].type = 18
<1>1. CASE t = 0
  BY <1>1 DEF Written
<1>2. CASE t # 0 /\ IsProperty(f.tokens[t].type)
  BY <1>2 DEF Written, IsProperty
<1>3. CASE t # 0 /\ ~IsProperty(f.tokens[t].type) /\ f.tokens[t].type = 18
  BY <1>3 DEF Written
<1>4. CASE t # 0 /\ ~IsProperty(f.tokens[t].type) /\ f.tokens[t].type # 18
  BY <1>4 DEF Written
<1> QED
  BY <1>1, <1>2, <1>3, <1>4

LEMMA FactoryMakes ==
  ASSUME NEW a, NEW ty, NEW m, <<a, ty, m>> \in Factory
  PROVE  /\ a \in Kinds \cup {"def", "group"}
         /\ m = "property" => a = "header"
         /\ a = "header" => m \in {"property", "end"}
         /\ a = "group" => m = "ref"
         /\ a = "def" => m \in {"end", "def"}
         /\ m = "end" => a \in {"header", "sweep", "def"} /\ ty \in {1, 3, 18}
         /\ m \in {"def", "ref", "group", "value"} => ty \in {16, 17}
         /\ m \in {"def", "ref", "group", "value", "property", "end"}
         /\ ty = 18 => a = "def"
         /\ \A n : <<a, ty, n>> \in Factory => n = m
  BY DEF Factory, Kinds, Indexed

LEMMA EndMade == <<"header", 1, "end">> \in Factory /\ <<"sweep", 3, "end">> \in Factory
  BY DEF Factory

LEMMA WrittenKinds ==
  ASSUME file \in Files
  PROVE  file.kind \in Kinds /\ file.kind \notin {"def", "ref", "value", "group", "property", "end"}
  BY FilesAssumed DEF Kinds, Indexed

(* The tokens between the headers and the tail.                            *)
LEMMA IntactFacts ==
  ASSUME file \in Files, file.intact
  PROVE  /\ Intact(file) /\ First \in {2, 3} /\ file.tail \in Nat /\ First <= file.tail
         /\ file.tail \in DOMAIN file.tokens
         /\ DOMAIN file.parent = First .. file.tail - 1
         /\ \A t \in DOMAIN file.parent :
              /\ t \in Nat \ {0} /\ t \in DOMAIN file.tokens
              /\ ChunkIntact(file, t) /\ file.parent[t] \in Nat /\ file.parent[t] < t
              /\ file.parent[t] # 0 => file.parent[t] \in DOMAIN file.parent
<1>1. Intact(file) /\ First \in {2, 3} /\ First = FirstChild(file.kind)
  BY IntactAssumed DEF First, FirstChild
<1>2. /\ file.tail \in First .. Len(file.tokens)
      /\ DOMAIN file.parent = First .. file.tail - 1
      /\ \A t \in DOMAIN file.parent : ChunkIntact(file, t)
  BY <1>1 DEF Intact, FrameIntact
<1>3. \A t \in DOMAIN file.parent : file.parent[t] \in {0} \cup First .. t - 1
  BY <1>1, <1>2 DEF ChunkIntact
<1>4. file.tail \in Nat /\ First <= file.tail /\ file.tail \in DOMAIN file.tokens
  BY <1>1, <1>2, TokenFacts
<1>5. ASSUME NEW t \in DOMAIN file.parent
      PROVE  /\ t \in Nat \ {0} /\ t \in DOMAIN file.tokens
             /\ file.parent[t] \in Nat /\ file.parent[t] < t
             /\ file.parent[t] # 0 => file.parent[t] \in DOMAIN file.parent
  <2>1. t \in Nat \ {0} /\ t \in DOMAIN file.tokens
    BY <1>1, <1>2, <1>4, TokenFacts
  <2>2. file.parent[t] \in Nat /\ file.parent[t] < t
    BY <1>1, <1>3, <2>1
  <2>3. file.parent[t] # 0 => file.parent[t] \in DOMAIN file.parent
    BY <1>1, <1>2, <1>3, <1>4, <2>1
  <2> QED
    BY <2>1, <2>2, <2>3
<1> QED
  BY <1>1, <1>2, <1>4, <1>5

(* No token of an intact section is damaged.                               *)
LEMMA SoundToken ==
  ASSUME file \in Files, file.intact, buf \in DOMAIN file.parent
  PROVE  ~Faulty
  BY IntactFacts DEF ChunkIntact, Faulty, Token

(* What stands in a chunk before and behind its end marker.                *)
LEMMA EndIn ==
  ASSUME file \in Files, file.intact, NEW c \in DOMAIN file.parent,
         NEW m \in WrittenIn(file, c), Written(file, m) = "end"
  PROVE  /\ Written(file, c) = "def" /\ file.tokens[c].struct
         /\ \A u \in WrittenIn(file, c) \ {m} : Written(file, u) = IF u < m THEN "def" ELSE "property"
<1>1. ChunkIntact(file, c) /\ ChunkIntact(file, m) /\ file.parent[m] = c /\ c # 0
  BY IntactFacts DEF WrittenIn
<1>2. <<Written(file, c), file.tokens[m].type, "end">> \in Factory
  BY <1>1 DEF ChunkIntact
<1>3. Written(file, c) = "def"
  BY <1>1, <1>2, FactoryMakes, WrittenIs DEF Kinds, Indexed
<1>4. file.tokens[c].struct
  BY <1>1, <1>3 DEF ChunkIntact
<1>5. PICK n \in WrittenIn(file, c) :
        /\ Written(file, n) = "end"
        /\ \A u \in WrittenIn(file, c) \ {n} : Written(file, u) = IF u < n THEN "def" ELSE "property"
  BY <1>1, <1>3, <1>4 DEF ChunkIntact
<1>6. n = m
  BY <1>5
<1> QED
  BY <1>3, <1>4, <1>5, <1>6

(* What was read of an intact section is placed as it was written.         *)
AsWritten(f, b, ch, o, p, running) ==
  /\ \A c \in DOMAIN ch : c \in DOMAIN f.parent /\ ch[c] = Written(f, c)
  /\ \A c \in DOMAIN o : o[c] = f.parent[c]
  /\ \A k \in DOMAIN p : \A t \in TokensIn(p, k) : f.parent[t] = k
  /\ \A t \in DOMAIN f.parent : t < b /\ Written(f, t) # "end" =>
       IF Written(f, t) = "property" /\ f.parent[t] # 0
       THEN f.parent[t] \in DOMAIN p /\ t \in TokensIn(p, f.parent[t])
       ELSE t \in DOMAIN o \cup running

(* While it is read, the stack is the path to the next token: later tokens *)
(* are in chunks that are on it or still to come, and all chunks below the *)
(* top want more children.                                                 *)
EndAhead(f, b, c) == \E m \in WrittenIn(f, c) : Written(f, m) = "end" /\ m >= b

OnPath(f, b, s, mem, en) ==
  /\ b \in FirstChild(f.kind) .. f.tail \/ (b = f.tail + 1 /\ en)
  /\ en => /\ Elems(s) = {0} /\ b = f.tail + 1
           /\ f.after = f.tail + 1 /\ f.kind \notin Indexed
  /\ \A d \in 2 .. Len(s) : /\ s[d] \in DOMAIN f.parent /\ f.parent[s[d]] = s[d - 1]
                            /\ Written(f, s[d]) \in {"def", "ref", "group", "value"}
  /\ \A t \in DOMAIN f.parent : t >= b => f.parent[t] \in Elems(s) \/ f.parent[t] >= b
  /\ \A c \in mem : c < b
  /\ \A c \in Elems(s) \ {0} : c \in mem <=> EndAhead(f, b, c)
  /\ \A d \in 1 .. Len(s) - 1 : s[d] = 0 \/ Written(f, s[d]) = "group" \/ s[d] \in mem

WrittenInv ==
  file.intact /\ pc # "deleted" =>
    /\ result \in {"pending", "ok"} /\ pc # "failed"
    /\ pc = "begin" => buf = 1 /\ members = {} /\ ended = FALSE
    /\ pc # "begin" => AsWritten(file, buf, chunk, owner, props, Elems(stack))
    /\ pc = "children" => OnPath(file, buf, stack, members, ended)
    /\ pc = "index" => /\ buf = file.tail /\ file.after = file.tail + 1 /\ Elems(stack) = {0}
                       /\ file.kind \in Indexed
    /\ result = "ok" => buf = file.after /\ file.tail <= buf /\ Elems(stack) = {0}

LEMMA WrittenMeans == TypeInv /\ WrittenInv => ReadAsWritten
<1> SUFFICES ASSUME TypeInv, WrittenInv, file.intact, pc # "deleted"
             PROVE  /\ result \in {"pending", "ok"}
                    /\ \A c \in DOMAIN owner : owner[c] = file.parent[c]
                    /\ \A k \in DOMAIN props : \A t \in PropTokens(k) : file.parent[t] = k
                    /\ result = "ok" =>
                         /\ buf = file.after
                         /\ \A t \in DOMAIN file.parent :
                              \/ Written(file, t) = "end" \/ t \in DOMAIN owner
                              \/ t \in PropTokens(file.parent[t])
  BY DEF ReadAsWritten
<1>1. result \in {"pending", "ok"}
  BY DEF WrittenInv
<1>2. CASE pc = "begin"
  <2>1. result = "pending" /\ DOMAIN owner = {} /\ DOMAIN props = {}
    BY <1>2 DEF TypeInv, Running
  <2> QED
    BY <2>1
<1>3. CASE pc # "begin"
  <2>1. AsWritten(file, buf, chunk, owner, props, Elems(stack))
    BY <1>3 DEF WrittenInv
  <2>2. result = "ok" => buf = file.after /\ file.tail <= buf /\ Elems(stack) = {0}
    BY DEF WrittenInv
  <2>3. ASSUME result = "ok", NEW t \in DOMAIN file.parent, Written(file, t) # "end", t \notin DOMAIN owner
        PROVE  t \in PropTokens(file.parent[t])
    <3>1. t < buf /\ t # 0
      BY <2>2, <2>3, IntactFacts, BufFacts DEF TypeInv
    <3> QED
      BY <2>1, <2>2, <2>3, <3>1 DEF AsWritten, TokensIn, PropTokens
  <2> QED
    BY <1>1, <2>1, <2>2, <2>3 DEF AsWritten, TokensIn, PropTokens
<1> QED
  BY <1>2, <1>3

(* The chunk on top of the stack, while an intact section is read.         *)
LEMMA TopWritten ==
  ASSUME TypeInv, WrittenInv, file.intact, pc = "children"
  PROVE  /\ AsWritten(file, buf, chunk, owner, props, Elems(stack))
         /\ OnPath(file, buf, stack, members, ended)
         /\ Class(Top) = Written(file, Top)
         /\ \A c \in Elems(stack) : c # 0 => c \in DOMAIN file.parent /\ Class(c) = Written(file, c)
         /\ \A c \in Elems(stack) \ {Top} : c < Top
         /\ Top = 0 <=> Elems(stack) = {0}
         /\ Top # 0 => Written(file, Top) \in {"def", "ref", "group", "value"}
<1>1. /\ AsWritten(file, buf, chunk, owner, props, Elems(stack))
      /\ OnPath(file, buf, stack, members, ended) /\ Running
  BY DEF WrittenInv, TypeInv
<1>2. \A c \in Elems(stack) : c # 0 => c \in DOMAIN file.parent /\ Class(c) = Written(file, c)
  BY <1>1 DEF Running, AsWritten, Class
<1>3. Class(Top) = Written(file, Top)
  BY <1>2, TopFacts, WrittenIs DEF Class
<1>4. PICK n \in Nat \ {0} : n = Len(stack)
  BY TopFacts
<1>5. Top = stack[n] /\ Rising(stack) /\ stack[1] = 0
  BY <1>1, <1>4 DEF Top, Running, TypeInv, TypeOK
<1>6. \A c \in Elems(stack) \ {Top} : c < Top
  <2>1. ASSUME NEW d \in 1 .. n, stack[d] # Top
        PROVE  stack[d] < Top
    <3>1. d < n
      BY <1>4, <1>5, <2>1
    <3> QED
      BY <1>4, <1>5, <3>1 DEF Rising
  <2> QED
    BY <1>4, <2>1 DEF Elems
<1>7. 0 \in Elems(stack) /\ Elems(stack) \subseteq Nat /\ Top \in Elems(stack)
  BY <1>4, <1>5, NameFacts, TopFacts DEF Elems
<1>8. Top = 0 <=> Elems(stack) = {0}
  BY <1>6, <1>7
<1>9. Top # 0 => Written(file, Top) \in {"def", "ref", "group", "value"}
  <2>1. Top # 0 => n \in 2 .. n
    BY <1>4, <1>5
  <2> QED
    BY <1>1, <1>4, <1>5, <2>1 DEF OnPath
<1> QED
  BY <1>1, <1>2, <1>3, <1>6, <1>8, <1>9

(* The references of a group that were read are those that stand before    *)
(* the next token.                                                         *)
LEMMA GroupRead ==
  ASSUME TypeInv, WrittenInv, file.intact, pc = "children", Class(Top) = "group"
  PROVE  Members(Top) = {t \in WrittenIn(file, Top) : t < buf}
<1>1. /\ AsWritten(file, buf, chunk, owner, props, Elems(stack)) /\ Running
      /\ Written(file, Top) = "group" /\ Top # 0
  BY TopWritten, WrittenKinds DEF TypeInv, Class
<1>2. ASSUME NEW t \in Members(Top)
      PROVE  t \in WrittenIn(file, Top) /\ t < buf
  BY <1>1, <1>2 DEF Members, AsWritten, WrittenIn, Running, TypeInv, TypeOK
<1>3. ASSUME NEW t \in WrittenIn(file, Top), t < buf
      PROVE  t \in Members(Top)
  <2>1. t \in DOMAIN file.parent /\ file.parent[t] = Top /\ Top < t /\ ChunkIntact(file, t)
    BY IntactFacts DEF WrittenIn, TypeInv
  <2>2. <<"group", file.tokens[t].type, Written(file, t)>> \in Factory
    BY <1>1, <2>1 DEF ChunkIntact
  <2>3. Written(file, t) = "ref"
    BY <2>2, FactoryMakes
  <2>4. t \notin Elems(stack)
    <3>1. \A c \in Elems(stack) \ {Top} : c < Top
      BY TopWritten
    <3> QED
      BY <2>1, <3>1, IntactFacts, TopFacts, NameFacts DEF TypeInv
  <2>5. t \in DOMAIN owner
    BY <1>1, <1>3, <2>1, <2>3, <2>4 DEF AsWritten
  <2> QED
    BY <1>1, <2>1, <2>5 DEF Members, AsWritten
<1> QED
  BY <1>2, <1>3

(* A group wants another reference exactly if one was written behind those *)
(* that were read.                                                         *)
LEMMA GroupWants ==
  ASSUME TypeInv, WrittenInv, file.intact, pc = "children", Class(Top) = "group"
  PROVE  Wants(Top) <=> \E t \in WrittenIn(file, Top) : t >= buf
<1> DEFINE W == WrittenIn(file, Top)
           M == {t \in W : t < buf}
<1>1. Written(file, Top) = "group" /\ Top # 0 /\ Top \in DOMAIN file.parent
  BY TopWritten, TopFacts, WrittenKinds DEF TypeInv, Class
<1>2. file.tokens[Top].n = Cardinality(W)
  BY <1>1, IntactFacts DEF ChunkIntact, TypeInv
<1>3. Wants(Top) <=> Cardinality(M) < Cardinality(W)
  BY <1>1, <1>2, GroupRead DEF Wants
<1>4. IsFiniteSet(W) /\ W \subseteq Nat /\ buf \in Nat
  <2>1. W \subseteq 1 .. Len(file.tokens)
    BY IntactFacts, TokenFacts DEF WrittenIn, TypeInv
  <2>2. IsFiniteSet(1 .. Len(file.tokens))
    BY TokenFacts, FS_Interval DEF TypeInv
  <2> QED
    BY <2>1, <2>2, FS_Subset, BufFacts
<1>5. M \subseteq W
  OBVIOUS
<1> HIDE DEF W
<1>6. /\ Cardinality(M) \in Nat /\ Cardinality(W) \in Nat
      /\ Cardinality(M) <= Cardinality(W)
      /\ Cardinality(W) = Cardinality(M) => W = M
  BY <1>4, <1>5, FS_Subset, FS_CardinalityType
<1>7. M = W <=> ~\E t \in W : t >= buf
  <2>1. \A t \in W : t < buf <=> ~(t >= buf)
    BY <1>4
  <2> QED
    BY <2>1
<1> QED
  BY <1>3, <1>6, <1>7 DEF W

(* A structure definition or another chunk with a property block wants     *)
(* another child exactly if its end marker is to come.                     *)
LEMMA BlockWants ==
  ASSUME TypeInv, WrittenInv, file.intact, pc = "children", Top # 0, Class(Top) # "group"
  PROVE  Wants(Top) <=> EndAhead(file, buf, Top)
<1>1. Top \in Elems(stack) /\ OnPath(file, buf, stack, members, ended)
  BY TopFacts, TopWritten
<1> QED
  BY <1>1 DEF Wants, OnPath

LEMMA SectionWants ==
  ASSUME TypeInv, Top = 0
  PROVE  Wants(Top) <=> ~ended /\ file.pos[buf] < file.endpos
<1>1. Class(Top) # "group"
  BY WrittenKinds DEF Class, TypeInv
<1> QED
  BY <1>1 DEF Wants

(* The situations of the parser within an intact section.                  *)
ChildNext ==
  /\ Wants(Top) /\ buf \in DOMAIN file.parent /\ file.parent[buf] = Top
  /\ <<Class(Top), Type, Written(file, buf)>> \in Factory

PropertyNext ==
  /\ ~Wants(Top) /\ buf \in DOMAIN file.parent /\ file.parent[buf] = Top
  /\ Top # 0 /\ Written(file, buf) = "property" /\ HasBlock(Top)

ChunkDone ==
  /\ ~Wants(Top) /\ Top # 0 /\ ~Eof /\ ~IsProperty(Type)
  /\ \A t \in DOMAIN file.parent : t >= buf => file.parent[t] # Top

MarkerNext ==
  /\ Wants(Top) /\ Top = 0 /\ buf = file.tail
  /\ file.after = file.tail + 1 /\ file.kind \notin Indexed
  /\ <<Class(Top), Type, "end">> \in Factory

SectionDone ==
  /\ ~Wants(Top) /\ Top = 0
  /\ IF file.kind \in Indexed THEN buf = file.tail /\ file.after = file.tail + 1
     ELSE buf = file.after /\ file.tail <= buf

(* The next token was written in the chunk on top.                         *)
LEMMA OwnToken ==
  ASSUME TypeInv, WrittenInv, file.intact, pc = "children",
         buf \in DOMAIN file.parent, file.parent[buf] = Top
  PROVE  ChildNext \/ PropertyNext
<1>1. /\ Type = file.tokens[buf].type /\ buf # 0 /\ buf \in Nat /\ ChunkIntact(file, buf)
      /\ buf \in WrittenIn(file, Top)
  BY IntactFacts, TokenFacts DEF TypeInv, Type, Eof, Token, WrittenIn
<1>2. Class(Top) = Written(file, Top) /\ OnPath(file, buf, stack, members, ended)
  BY TopWritten
<1>3. Top # 0 => Top \in DOMAIN file.parent /\ ChunkIntact(file, Top)
  BY TopFacts, TopWritten, IntactFacts DEF TypeInv
<1>4. CASE Written(file, buf) = "property" /\ Written(file, Top) \in {"def", "ref", "value"}
  <2>1. Top # 0
    BY <1>4, WrittenIs, WrittenKinds DEF TypeInv
  <2>2. ~EndAhead(file, buf, Top)
    <3>1. ASSUME NEW m \in WrittenIn(file, Top), Written(file, m) = "end", m >= buf
          PROVE  FALSE
      <4>1. m # buf /\ buf < m
        BY <1>1, <1>4, <3>1, IntactFacts DEF WrittenIn, TypeInv
      <4>2. Written(file, buf) = "def"
        BY <1>1, <1>3, <2>1, <3>1, <4>1, EndIn DEF TypeInv
      <4> QED
        BY <1>4, <4>2
    <3> QED
      BY <3>1 DEF EndAhead
  <2>3. ~Wants(Top)
    BY <1>2, <1>4, <2>1, <2>2, BlockWants
  <2> QED
    BY <1>2, <1>4, <2>1, <2>3 DEF PropertyNext, HasBlock
<1>5. CASE <<Written(file, Top), Type, Written(file, buf)>> \in Factory
  <2>1. CASE Top = 0
    <3>1. buf <= file.tail - 1 /\ ~ended
      BY <1>2, IntactFacts DEF OnPath, TypeInv
    <3>2. file.pos[buf] < file.endpos
      <4>1. FrameIntact(file) /\ file.tail \in 1 .. Len(file.tokens) /\ DOMAIN file.pos = 1 .. Len(file.tokens) + 1
        BY IntactFacts, TokenFacts, FilesAssumed DEF Intact, TypeInv
      <4>2. \A j, k \in DOMAIN file.pos : j < k => file.pos[j] < file.pos[k]
        BY <4>1 DEF FrameIntact
      <4>3. file.endpos = file.pos[file.tail] \/ file.endpos = file.pos[file.tail + 1]
        BY <4>1 DEF FrameIntact
      <4>4. buf \in DOMAIN file.pos /\ file.tail \in DOMAIN file.pos /\ file.tail + 1 \in DOMAIN file.pos
        BY <1>1, <3>1, <4>1, TokenFacts DEF TypeInv
      <4> QED
        BY <1>1, <3>1, <4>2, <4>3, <4>4, IntactFacts DEF TypeInv
    <3>3. Wants(Top)
      BY <2>1, <3>1, <3>2, SectionWants
    <3> QED
      BY <1>2, <1>5, <3>3 DEF ChildNext
  <2>2. CASE Class(Top) = "group"
    <3>1. Wants(Top)
      BY <1>1, <2>2, GroupWants
    <3> QED
      BY <1>1, <1>2, <1>5, <3>1 DEF ChildNext
  <2>3. CASE Top # 0 /\ Class(Top) # "group"
    <3>1. Written(file, Top) = "def" /\ Written(file, buf) \in {"end", "def"}
      BY <1>2, <1>5, <2>3, TopWritten, FactoryMakes DEF Kinds, Indexed
    <3>2. EndAhead(file, buf, Top)
      <4>1. file.tokens[Top].struct
        BY <1>1, <1>3, <2>3, <3>1 DEF ChunkIntact
      <4>2. PICK m \in WrittenIn(file, Top) :
              /\ Written(file, m) = "end"
              /\ \A u \in WrittenIn(file, Top) \ {m} : Written(file, u) = IF u < m THEN "def" ELSE "property"
        BY <1>3, <2>3, <3>1, <4>1 DEF ChunkIntact
      <4>3. buf = m \/ buf < m
        BY <1>1, <3>1, <4>2
      <4>4. m >= buf
        BY <1>1, <4>3, IntactFacts DEF WrittenIn, TypeInv
      <4> QED
        BY <4>2, <4>4 DEF EndAhead
    <3>3. Wants(Top)
      BY <2>3, <3>2, BlockWants
    <3> QED
      BY <1>1, <1>2, <1>5, <3>3 DEF ChildNext
  <2> QED
    BY <2>1, <2>2, <2>3
<1> QED
  BY <1>1, <1>4, <1>5 DEF ChunkIntact

(* The next token was written elsewhere, or there is none.                 *)
LEMMA OtherToken ==
  ASSUME TypeInv, WrittenInv, file.intact, pc = "children", Top # 0,
         buf \in DOMAIN file.parent => file.parent[buf] # Top
  PROVE  ChunkDone
<1>1. /\ OnPath(file, buf, stack, members, ended) /\ Running
      /\ Top \in Elems(stack) /\ Top \in DOMAIN file.parent /\ Class(Top) = Written(file, Top)
      /\ \A c \in Elems(stack) \ {Top} : c < Top
  BY TopFacts, TopWritten DEF TypeInv
<1>2. buf \in First .. file.tail
  BY <1>1, TopWritten DEF OnPath, First
<1>3. buf \in Nat /\ Top \in Nat \ {0} /\ Top < buf /\ First \in {2, 3} /\ file.tail \in Nat
  BY <1>1, BufFacts, IntactFacts DEF Running, TypeInv
<1>4. buf # file.tail => buf \in DOMAIN file.parent
  BY <1>2, <1>3, IntactFacts DEF TypeInv
<1>5. ASSUME buf \in DOMAIN file.parent
      PROVE  /\ file.parent[buf] \in Elems(stack) /\ file.parent[buf] \in Nat
             /\ file.parent[buf] < Top /\ ChunkIntact(file, buf)
  <2>1. file.parent[buf] \in Nat /\ file.parent[buf] < buf /\ ChunkIntact(file, buf)
    BY <1>5, IntactFacts DEF TypeInv
  <2>2. file.parent[buf] \in Elems(stack)
    BY <1>1, <1>3, <1>5, <2>1 DEF OnPath
  <2> QED
    BY <1>1, <1>5, <2>1, <2>2
<1>6. ASSUME NEW t \in DOMAIN file.parent, t >= buf
      PROVE  file.parent[t] # Top
  <2>1. t \in Nat /\ ChunkIntact(file, t) /\ t < file.tail
    BY <1>6, IntactFacts DEF TypeInv
  <2>2. buf \in DOMAIN file.parent
    BY <1>2, <1>3, <1>4, <1>6, <2>1
  <2>3. ASSUME file.parent[t] = Top
        PROVE  FALSE
    <3>1. buf \in file.parent[t] + 1 .. t
      BY <1>3, <1>6, <2>1, <2>3
    <3>2. file.parent[buf] >= file.parent[t]
      BY <2>1, <2>2, <3>1 DEF ChunkIntact
    <3> QED
      BY <1>3, <1>5, <2>2, <2>3, <3>2
  <2> QED
    BY <2>3
<1>7. ~Wants(Top)
  <2>1. \A t \in WrittenIn(file, Top) : ~(t >= buf)
    BY <1>6 DEF WrittenIn
  <2>2. CASE Class(Top) = "group"
    BY <2>1, <2>2, GroupWants
  <2>3. CASE Class(Top) # "group"
    BY <2>1, <2>3, BlockWants DEF EndAhead
  <2> QED
    BY <2>2, <2>3
<1>8. ~Eof /\ Type = file.tokens[buf].type
  BY <1>4, IntactFacts DEF Eof, Type, Token, TypeInv
<1>9. CASE buf = file.tail
  <2>1. Type \in {1, 3, 19}
    BY <1>8, <1>9, IntactFacts DEF Intact, FrameIntact, TypeInv
  <2>2. ~IsProperty(Type)
    BY <2>1 DEF IsProperty
  <2> QED
    BY <1>6, <1>7, <1>8, <2>2 DEF ChunkDone
<1>10. CASE buf \in DOMAIN file.parent
  <2> DEFINE p == file.parent[buf]
  <2>1. p \in Elems(stack) /\ p \in Nat /\ p < Top /\ ChunkIntact(file, buf)
    BY <1>5, <1>10
  <2>2. PICK n \in Nat \ {0} : n = Len(stack)
    BY TopFacts
  <2>3. PICK d \in 1 .. n - 1 : stack[d] = p
    <3>1. PICK d \in 1 .. n : stack[d] = p
      BY <2>1, <2>2 DEF Elems
    <3>2. d # n
      BY <1>3, <2>1, <2>2, <3>1 DEF Top
    <3> QED
      BY <3>1, <3>2
  <2>4. ASSUME Written(file, buf) = "property"
        PROVE  FALSE
    <3>1. Written(file, p) \in {"def", "ref", "value"} \/ Written(file, p) = "header"
      BY <2>1, <2>4, FactoryMakes DEF ChunkIntact
    <3>2. CASE p = 0
      <4>1. Written(file, 0) = "header"
        BY <3>1, <3>2, WrittenIs, WrittenKinds DEF TypeInv
      <4>2. stack[1] = 0 /\ 2 \in 2 .. n
        <5>1. n # 1
          BY <1>3, <2>2 DEF Top, TypeInv, TypeOK
        <5> QED
          BY <2>2, <5>1 DEF TypeInv, TypeOK
      <4>3. /\ stack[2] \in DOMAIN file.parent /\ file.parent[stack[2]] = 0
            /\ Written(file, stack[2]) \in {"def", "ref", "group", "value"}
        BY <1>1, <2>2, <4>2 DEF OnPath
      <4>4. <<"header", file.tokens[stack[2]].type, Written(file, stack[2])>> \in Factory
        BY <4>1, <4>3, IntactFacts DEF ChunkIntact, TypeInv
      <4> QED
        BY <4>3, <4>4, FactoryMakes
    <3>3. CASE p # 0
      <4>1. p \in members
        <5>1. Written(file, p) # "group"
          BY <3>1
        <5> QED
          BY <1>1, <2>2, <2>3, <3>3, <5>1 DEF OnPath
      <4>2. PICK m \in WrittenIn(file, p) : Written(file, m) = "end" /\ m >= buf
        BY <1>1, <2>1, <3>3, <4>1 DEF OnPath, EndAhead
      <4>3. m # buf /\ m \in Nat /\ buf \in WrittenIn(file, p) /\ p \in DOMAIN file.parent
        BY <1>10, <2>4, <3>3, <4>2, IntactFacts DEF WrittenIn, TypeInv
      <4>4. Written(file, buf) = "def"
        BY <1>3, <4>2, <4>3, EndIn DEF TypeInv
      <4> QED
        BY <2>4, <4>4
    <3> QED
      BY <3>2, <3>3
  <2>5. ~IsProperty(Type)
    BY <1>3, <1>8, <2>4, WrittenIs
  <2> QED
    BY <1>6, <1>7, <1>8, <2>5 DEF ChunkDone
<1> QED
  BY <1>4, <1>9, <1>10

LEMMA PosFacts ==
  ASSUME file \in Files
  PROVE  /\ DOMAIN file.pos = 1 .. Len(file.tokens) + 1
         /\ \A t \in DOMAIN file.tokens :
              t \in DOMAIN file.pos /\ t + 1 \in DOMAIN file.pos /\ file.pos[t] \in Int
<1>1. file.pos \in [1 .. Len(file.tokens) + 1 -> Int]
  BY FilesAssumed
<1>2. \A t \in DOMAIN file.tokens : t \in 1 .. Len(file.tokens) + 1 /\ t + 1 \in 1 .. Len(file.tokens) + 1
  BY TokenFacts
<1> QED
  BY <1>1, <1>2

(* Behind the chunks only the section is left.                             *)
LEMMA SectionLeft ==
  ASSUME TypeInv, WrittenInv, file.intact, pc = "children", Top = 0, buf \notin DOMAIN file.parent
  PROVE  MarkerNext \/ SectionDone
<1> DEFINE T == file.tail
<1>1. OnPath(file, buf, stack, members, ended) /\ Class(Top) = file.kind
  BY TopWritten DEF Class
<1>2. FrameIntact(file) /\ First \in {2, 3} /\ T \in Nat /\ First <= T /\ T \in DOMAIN file.tokens
  BY IntactFacts DEF Intact, TypeInv
<1>3. buf \in Nat /\ (buf = T \/ (buf = T + 1 /\ ended))
  BY <1>1, <1>2, IntactFacts, BufFacts DEF OnPath, First, TypeInv
<1>4. CASE buf = T + 1 /\ ended
  BY <1>1, <1>2, <1>4, SectionWants DEF OnPath, SectionDone
<1>5. CASE buf = T
  <2>1. ~ended
    BY <1>1, <1>2, <1>5 DEF OnPath
  <2>2. Type = file.tokens[T].type
    BY <1>2, <1>5 DEF Type, Eof, Token
  <2>3. CASE file.endpos = file.pos[T] /\ file.after = IF file.kind \in Indexed THEN T + 1 ELSE T
    <3>1. file.pos[T] \in Int
      BY <1>2, PosFacts DEF TypeInv
    <3>2. ~Wants(Top)
      BY <1>5, <2>3, <3>1, SectionWants
    <3> QED
      BY <1>2, <1>5, <2>3, <3>2 DEF SectionDone
  <2>4. CASE file.endpos = file.pos[T + 1] /\ file.after = T + 1 /\ file.kind \notin Indexed
    <3>1. file.pos[T] < file.pos[T + 1]
      <4>1. T \in DOMAIN file.pos /\ T + 1 \in DOMAIN file.pos /\ T < T + 1
        BY <1>2, PosFacts DEF TypeInv
      <4> QED
        BY <1>2, <4>1 DEF FrameIntact
    <3>2. Wants(Top)
      BY <1>5, <2>1, <2>4, <3>1, SectionWants
    <3>3. <<file.kind, Type, "end">> \in Factory
      <4>1. file.kind \in {"header", "sweep"}
        BY <2>4, WrittenKinds DEF TypeInv, Kinds
      <4>2. Type = IF file.kind = "header" THEN 1 ELSE 3
        BY <1>2, <2>2, <4>1 DEF FrameIntact
      <4> QED
        BY <4>1, <4>2, EndMade
    <3> QED
      BY <1>1, <1>5, <2>4, <3>2, <3>3 DEF MarkerNext
  <2> QED
    BY <1>2, <2>3, <2>4 DEF FrameIntact
<1> QED
  BY <1>3, <1>4, <1>5

LEMMA Situation ==
  ASSUME TypeInv, WrittenInv, file.intact, pc = "children"
  PROVE  ChildNext \/ PropertyNext \/ ChunkDone \/ MarkerNext \/ SectionDone
<1>1. CASE Top # 0
  BY <1>1, OwnToken, OtherToken
<1>2. CASE Top = 0 /\ buf \in DOMAIN file.parent
  <2>1. Elems(stack) = {0} /\ OnPath(file, buf, stack, members, ended)
    BY <1>2, TopWritten
  <2>2. file.parent[buf] = 0
    BY <1>2, <2>1, IntactFacts DEF OnPath, TypeInv
  <2> QED
    BY <1>2, <2>2, OwnToken
<1>3. CASE Top = 0 /\ buf \notin DOMAIN file.parent
  BY <1>3, SectionLeft
<1> QED
  BY <1>1, <1>2, <1>3

(* One lemma for each action that reads on.                                *)
LEMMA ReadsOn ==
  ASSUME TypeInv, pc = "children", UNCHANGED <<file, pc, result>>,
         AsWritten(file, buf', chunk', owner', props', Elems(stack')),
         OnPath(file, buf', stack', members', ended')
  PROVE  WrittenInv'
<1>1. result = "pending" /\ pc' = "children" /\ result' = "pending" /\ file' = file
  BY DEF TypeInv, Running
<1> QED
  BY <1>1 DEF WrittenInv

(* The position moves over a token that is no end marker.                  *)
LEMMA EndStaysAhead ==
  ASSUME TypeInv, file.intact, Written(file, buf) # "end", NEW c
  PROVE  EndAhead(file, buf, c) <=> EndAhead(file, buf + 1, c)
<1>1. \A m \in WrittenIn(file, c) : m \in Nat /\ buf \in Nat
  BY IntactFacts, BufFacts DEF WrittenIn, TypeInv
<1>2. ASSUME NEW m \in WrittenIn(file, c), Written(file, m) = "end"
      PROVE  m >= buf <=> m >= buf + 1
  <2>1. m # buf
    BY <1>2
  <2> QED
    BY <1>1, <2>1
<1> QED
  BY <1>2 DEF EndAhead

(* The tokens before the next position are those before this one and this. *)
LEMMA NextPlaced ==
  ASSUME TypeInv, file.intact
  PROVE  /\ \A t \in DOMAIN file.parent : t < buf + 1 <=> t < buf \/ t = buf
         /\ \A t \in DOMAIN file.parent : t >= buf + 1 => t >= buf /\ t # buf
         /\ buf \in Nat
<1>1. buf \in Nat /\ \A t \in DOMAIN file.parent : t \in Nat
  BY IntactFacts, BufFacts DEF TypeInv
<1> QED
  BY <1>1

(* A chunk begins that is a child of the one on top.                       *)
LEMMA BeginChildWritten ==
  ASSUME TypeInv, WrittenInv, file.intact, BeginChild
  PROVE  WrittenInv'
<1>0. pc = "children" /\ ~Eof /\ Wants(Top)
  BY DEF BeginChild, Parsing
<1>1. PICK m \in {"def", "ref", "group", "value"} :
        /\ <<Class(Top), Type, m>> \in Factory
        /\ chunk' = Bind(chunk, buf, m)
        /\ \/ Faulty
           \/ /\ stack' = Append(stack, buf)
              /\ members' = IF m = "def" /\ Token.struct THEN members \cup {buf} ELSE members
              /\ props' = Bind(props, buf, << >>)
              /\ buf' = buf + 1
              /\ UNCHANGED <<file, pc, owner, ended, result>>
  BY DEF BeginChild, Makes
<1>2. ChildNext
  <2>1. ~MarkerNext
    BY <1>1, FactoryMakes DEF MarkerNext
  <2> QED
    BY <1>0, <2>1, Situation DEF PropertyNext, ChunkDone, SectionDone
<1>3. /\ m = Written(file, buf) /\ buf \in DOMAIN file.parent /\ file.parent[buf] = Top
      /\ Token = file.tokens[buf] /\ ChunkIntact(file, buf) /\ buf \in Nat \ {0}
      /\ OnPath(file, buf, stack, members, ended)
      /\ AsWritten(file, buf, chunk, owner, props, Elems(stack))
      /\ Running
  BY <1>0, <1>1, <1>2, FactoryMakes, IntactFacts, TopWritten DEF ChildNext, Token, TypeInv
<1>4. /\ stack' = Append(stack, buf)
      /\ members' = IF m = "def" /\ Token.struct THEN members \cup {buf} ELSE members
      /\ props' = Bind(props, buf, << >>)
      /\ buf' = buf + 1
      /\ UNCHANGED <<file, pc, owner, ended, result>>
  <2>1. ~Faulty
    BY <1>3 DEF ChunkIntact, Faulty
  <2> QED
    BY <1>1, <2>1
<1>5. PICK n \in Nat \ {0} : n = Len(stack)
  BY <1>0, TopFacts
<1>6. /\ Len(stack') = n + 1 /\ stack'[n + 1] = buf
      /\ \A d \in 1 .. n : stack'[d] = stack[d]
      /\ Top = stack[n]
      /\ Elems(stack') = Elems(stack) \cup {buf}
  <2>1. stack \in Seq(Int) /\ stack # << >> /\ buf \in Int
    BY <1>0, <1>3, <1>5, TopFacts
  <2>2. Elems(stack') = Elems(stack) \cup {buf}
    BY <1>4, <2>1, PushFacts
  <2> QED
    BY <1>4, <1>5, <2>1, <2>2 DEF Top
<1>7. /\ DOMAIN props' = DOMAIN props \cup {buf} /\ props'[buf] = << >>
      /\ \A k \in DOMAIN props : k # buf /\ props'[k] = props[k]
  <2>1. buf \notin DOMAIN props
    BY <1>3, NameFacts DEF Running
  <2> QED
    BY <1>4, <2>1 DEF Bind
<1>8. AsWritten(file, buf', chunk', owner', props', Elems(stack'))
  <2>1. \A c \in DOMAIN chunk' : c \in DOMAIN file.parent /\ chunk'[c] = Written(file, c)
    <3>1. /\ DOMAIN chunk' = DOMAIN chunk \cup {buf} /\ chunk'[buf] = m
          /\ \A c \in DOMAIN chunk \ {buf} : chunk'[c] = chunk[c]
      BY <1>1 DEF Bind
    <3> QED
      BY <1>3, <3>1 DEF AsWritten
  <2>2. \A k \in DOMAIN props' : \A t \in TokensIn(props', k) : file.parent[t] = k
    <3>1. TokensIn(props', buf) = {}
      BY <1>7 DEF TokensIn
    <3>2. \A k \in DOMAIN props : TokensIn(props', k) = TokensIn(props, k)
      BY <1>7 DEF TokensIn
    <3> QED
      BY <1>3, <1>7, <3>1, <3>2 DEF AsWritten
  <2>3. ASSUME NEW t \in DOMAIN file.parent, t < buf', Written(file, t) # "end"
        PROVE  IF Written(file, t) = "property" /\ file.parent[t] # 0
               THEN file.parent[t] \in DOMAIN props' /\ t \in TokensIn(props', file.parent[t])
               ELSE t \in DOMAIN owner' \cup Elems(stack')
    <3>1. CASE t = buf
      BY <1>3, <1>6, <3>1
    <3>2. CASE t < buf
      BY <1>3, <1>4, <1>6, <1>7, <2>3, <3>2 DEF AsWritten, TokensIn
    <3> QED
      BY <1>4, <2>3, <3>1, <3>2, NextPlaced DEF TypeInv
  <2> QED
    BY <1>3, <1>4, <2>1, <2>2, <2>3 DEF AsWritten
<1>9. OnPath(file, buf', stack', members', ended')
  <2>1. buf' \in FirstChild(file.kind) .. file.tail /\ ~ended'
    BY <1>3, <1>4, IntactFacts DEF TypeInv, First, OnPath
  <2>2. ASSUME NEW d \in 2 .. Len(stack')
        PROVE  /\ stack'[d] \in DOMAIN file.parent /\ file.parent[stack'[d]] = stack'[d - 1]
               /\ Written(file, stack'[d]) \in {"def", "ref", "group", "value"}
    <3>1. CASE d = n + 1
      BY <1>3, <1>5, <1>6, <3>1
    <3>2. CASE d \in 2 .. n
      <4>1. d - 1 \in 1 .. n /\ d \in 1 .. n
        BY <1>5, <3>2
      <4> QED
        BY <1>3, <1>5, <1>6, <3>2, <4>1 DEF OnPath
    <3> QED
      BY <1>5, <1>6, <3>1, <3>2
  <2>3. ASSUME NEW t \in DOMAIN file.parent, t >= buf'
        PROVE  file.parent[t] \in Elems(stack') \/ file.parent[t] >= buf'
    <3>1. t >= buf
      BY <1>4, <2>3, NextPlaced DEF TypeInv
    <3>2. file.parent[t] \in Elems(stack) \/ file.parent[t] >= buf
      BY <1>3, <3>1 DEF OnPath
    <3> QED
      BY <1>3, <1>4, <1>6, <3>2, IntactFacts DEF TypeInv
  <2>4. \A c \in members : c < buf /\ c \in Nat
    BY <1>3, TokenFacts DEF OnPath, TypeInv, TypeOK
  <2>5. \A c \in members' : c < buf'
    BY <1>3, <1>4, <2>4
  <2>6. ASSUME NEW c \in Elems(stack') \ {0}
        PROVE  c \in members' <=> EndAhead(file, buf', c)
    <3>1. CASE c = buf
      <4>1. c \in members' <=> m = "def" /\ Token.struct
        BY <1>3, <1>4, <2>4, <3>1
      <4>2. ASSUME m = "def", Token.struct
            PROVE  EndAhead(file, buf', c)
        <5>1. PICK e \in WrittenIn(file, buf) : Written(file, e) = "end"
          BY <1>3, <4>2 DEF ChunkIntact
        <5>2. e >= buf + 1
          BY <1>3, <5>1, IntactFacts DEF WrittenIn, TypeInv
        <5> QED
          BY <1>4, <3>1, <5>1, <5>2 DEF EndAhead
      <4>3. ASSUME EndAhead(file, buf', c)
            PROVE  m = "def" /\ Token.struct
        <5>1. PICK e \in WrittenIn(file, buf) : Written(file, e) = "end"
          BY <3>1, <4>3 DEF EndAhead
        <5> QED
          BY <1>3, <5>1, EndIn DEF TypeInv
      <4> QED
        BY <4>1, <4>2, <4>3
    <3>2. CASE c # buf
      <4>1. c \in Elems(stack) \ {0} /\ (c \in members' <=> c \in members)
        BY <1>4, <1>6, <2>6, <3>2
      <4>2. EndAhead(file, buf, c) <=> EndAhead(file, buf', c)
        BY <1>3, <1>4, EndStaysAhead
      <4> QED
        BY <1>3, <4>1, <4>2 DEF OnPath
    <3> QED
      BY <3>1, <3>2
  <2>7. ASSUME NEW d \in 1 .. Len(stack') - 1
        PROVE  stack'[d] = 0 \/ Written(file, stack'[d]) = "group" \/ stack'[d] \in members'
    <3>1. d \in 1 .. n /\ stack'[d] = stack[d] /\ members \subseteq members'
      BY <1>4, <1>5, <1>6
    <3>2. CASE d = n
      BY <1>0, <1>6, <3>1, <3>2, TopWritten DEF Wants
    <3>3. CASE d \in 1 .. n - 1
      BY <1>3, <1>5, <3>1, <3>3 DEF OnPath
    <3> QED
      BY <1>5, <3>1, <3>2, <3>3
  <2> QED
    BY <2>1, <2>2, <2>3, <2>5, <2>6, <2>7 DEF OnPath
<1> QED
  BY <1>0, <1>4, <1>8, <1>9, ReadsOn

(* No token is written in one that is no chunk.                            *)
LEMMA NoHolder ==
  ASSUME file \in Files, file.intact, NEW t \in DOMAIN file.parent, file.parent[t] # 0
  PROVE  Written(file, file.parent[t]) \in {"def", "ref", "value", "group"}
<1>1. ChunkIntact(file, t)
  BY IntactFacts
<1>2. Written(file, file.parent[t]) \in {"property", "end", "group", "def", "value", "ref"}
  BY WrittenIs
<1>3. CASE <<Written(file, file.parent[t]), file.tokens[t].type, Written(file, t)>> \in Factory
  BY <1>2, <1>3, FactoryMakes DEF Kinds, Indexed
<1> QED
  BY <1>1, <1>3 DEF ChunkIntact

(* A property is read: the path stays.                                     *)
LEMMA StillOnPath ==
  ASSUME TypeInv, file.intact, buf \in DOMAIN file.parent, Written(file, buf) = "property",
         OnPath(file, buf, stack, members, ended)
  PROVE  OnPath(file, buf + 1, stack, members, ended)
<1>1. buf \in Nat \ {0} /\ \A c \in members : c \in Nat
  BY IntactFacts, TokenFacts DEF TypeInv, TypeOK
<1>2. buf + 1 \in FirstChild(file.kind) .. file.tail /\ ~ended
  BY <1>1, IntactFacts DEF TypeInv, First, OnPath
<1>3. ASSUME NEW t \in DOMAIN file.parent, t >= buf + 1
      PROVE  file.parent[t] \in Elems(stack) \/ file.parent[t] >= buf + 1
  <2>1. t >= buf /\ file.parent[t] \in Nat
    BY <1>3, NextPlaced, IntactFacts DEF TypeInv
  <2>2. file.parent[t] \in Elems(stack) \/ file.parent[t] >= buf
    BY <2>1 DEF OnPath
  <2>3. file.parent[t] # buf
    BY <1>1, NoHolder DEF TypeInv
  <2> QED
    BY <1>1, <2>1, <2>2, <2>3
<1>4. \A c \in Elems(stack) \ {0} : c \in members <=> EndAhead(file, buf + 1, c)
  BY EndStaysAhead DEF OnPath
<1>5. \A c \in members : c < buf + 1
  BY <1>1 DEF OnPath
<1> QED
  BY <1>2, <1>3, <1>4, <1>5 DEF OnPath

(* A property of the header section.                                       *)
LEMMA HeaderPropertyWritten ==
  ASSUME TypeInv, WrittenInv, file.intact, HeaderProperty
  PROVE  WrittenInv'
<1>0. pc = "children" /\ Wants(Top) /\ <<Class(Top), Type, "property">> \in Factory
  BY DEF HeaderProperty, Parsing, Makes
<1>2. ChildNext
  <2>1. ~MarkerNext
    BY <1>0, FactoryMakes DEF MarkerNext
  <2> QED
    BY <1>0, <2>1, Situation DEF PropertyNext, ChunkDone, SectionDone
<1>1. /\ pc = "children" /\ Wants(Top) /\ <<Class(Top), Type, "property">> \in Factory
      /\ chunk' = Bind(chunk, buf, "property") /\ owner' = Bind(owner, buf, Top) /\ buf' = buf + 1
      /\ UNCHANGED <<file, pc, stack, members, ended, props, propmap, result>>
  <2>1. ~Faulty
    BY <1>2, SoundToken DEF ChildNext, TypeInv
  <2> QED
    BY <1>0, <2>1 DEF HeaderProperty
<1>3. /\ Written(file, buf) = "property" /\ buf \in DOMAIN file.parent /\ file.parent[buf] = Top
      /\ buf \in Nat \ {0}
      /\ OnPath(file, buf, stack, members, ended)
      /\ AsWritten(file, buf, chunk, owner, props, Elems(stack))
  BY <1>1, <1>2, FactoryMakes, IntactFacts, TopWritten DEF ChildNext, TypeInv
<1>4. Top = 0
  <2>1. Class(Top) = "header"
    BY <1>1, FactoryMakes
  <2> QED
    BY <1>1, <2>1, TopWritten
<1>5. AsWritten(file, buf', chunk', owner', props', Elems(stack'))
  <2>1. \A c \in DOMAIN chunk' : c \in DOMAIN file.parent /\ chunk'[c] = Written(file, c)
    BY <1>1, <1>3 DEF AsWritten, Bind
  <2>2. \A c \in DOMAIN owner' : owner'[c] = file.parent[c]
    BY <1>1, <1>3 DEF AsWritten, Bind
  <2>3. ASSUME NEW t \in DOMAIN file.parent, t < buf', Written(file, t) # "end"
        PROVE  IF Written(file, t) = "property" /\ file.parent[t] # 0
               THEN file.parent[t] \in DOMAIN props' /\ t \in TokensIn(props', file.parent[t])
               ELSE t \in DOMAIN owner' \cup Elems(stack')
    <3>1. DOMAIN owner' = DOMAIN owner \cup {buf}
      BY <1>1 DEF Bind
    <3>2. CASE t = buf
      BY <1>3, <1>4, <3>1, <3>2
    <3>3. CASE t < buf
      BY <1>1, <1>3, <2>3, <3>1, <3>3 DEF AsWritten
    <3> QED
      BY <1>1, <2>3, <3>2, <3>3, NextPlaced DEF TypeInv
  <2> QED
    BY <1>1, <1>3, <2>1, <2>2, <2>3 DEF AsWritten
<1>6. OnPath(file, buf', stack', members', ended')
  BY <1>1, <1>3, WrittenIs, StillOnPath
<1> QED
  BY <1>1, <1>5, <1>6, ReadsOn

(* An end marker, of a structure definition or of the section.             *)
LEMMA EndMarkerWritten ==
  ASSUME TypeInv, WrittenInv, file.intact, EndMarker
  PROVE  WrittenInv'
<1>1. /\ pc = "children" /\ Wants(Top) /\ <<Class(Top), Type, "end">> \in Factory
      /\ buf' = buf + 1 /\ ended' = (ended \/ Top = 0) /\ members' = members \ {Top}
      /\ UNCHANGED <<file, pc, stack, chunk, owner, props, propmap, result>>
  BY DEF EndMarker, Parsing, Makes
<1>2. /\ OnPath(file, buf, stack, members, ended)
      /\ AsWritten(file, buf, chunk, owner, props, Elems(stack))
      /\ Top \in Elems(stack) /\ buf \in Nat
      /\ \A c \in members : c \in Nat
  BY <1>1, TopWritten, TopFacts, BufFacts, TokenFacts DEF TypeInv, TypeOK
<1>3. ChildNext \/ MarkerNext
  BY <1>1, Situation DEF PropertyNext, ChunkDone, SectionDone
<1>4. ASSUME buf \in DOMAIN file.parent => Written(file, buf) = "end"
      PROVE  AsWritten(file, buf', chunk', owner', props', Elems(stack'))
  <2>1. \A t \in DOMAIN file.parent : t < buf' /\ Written(file, t) # "end" => t < buf
    BY <1>1, <1>4, NextPlaced DEF TypeInv
  <2> QED
    BY <1>1, <1>2, <2>1 DEF AsWritten
<1>5. CASE ChildNext
  <2>1. /\ buf \in DOMAIN file.parent /\ file.parent[buf] = Top /\ Written(file, buf) = "end"
        /\ buf \in WrittenIn(file, Top)
    BY <1>1, <1>5, FactoryMakes DEF ChildNext, WrittenIn
  <2>2. Top # 0 /\ Top \in DOMAIN file.parent
    <3>1. Class(Top) = "def"
      <4>1. file.tokens[buf].type = 18 /\ Type = file.tokens[buf].type
        BY <2>1, WrittenIs, IntactFacts DEF Type, Eof, Token, TypeInv
      <4> QED
        BY <1>1, <4>1, FactoryMakes
    <3>2. Top # 0
      BY <3>1, WrittenKinds DEF Class, TypeInv
    <3> QED
      BY <2>1, <3>2, IntactFacts DEF TypeInv
  <2>3. ~EndAhead(file, buf', Top)
    <3>1. ASSUME NEW m \in WrittenIn(file, Top), Written(file, m) = "end", m >= buf + 1
          PROVE  FALSE
      <4>1. buf # m
        BY <1>2, <3>1
      <4>2. Written(file, m) = IF m < buf THEN "def" ELSE "property"
        BY <2>1, <2>2, <4>1, EndIn DEF TypeInv
      <4> QED
        BY <3>1, <4>2
    <3> QED
      BY <1>1, <3>1 DEF EndAhead
  <2>4. ASSUME NEW c \in Elems(stack) \ {0}
        PROVE  c \in members' <=> EndAhead(file, buf', c)
    <3>1. CASE c = Top
      BY <1>1, <2>3, <3>1
    <3>2. CASE c # Top
      <4>1. \A m \in WrittenIn(file, c) : m # buf /\ m \in Nat
        BY <2>1, <3>2, IntactFacts DEF WrittenIn, TypeInv
      <4>2. EndAhead(file, buf, c) <=> EndAhead(file, buf', c)
        <5>1. \A m \in WrittenIn(file, c) : m >= buf <=> m >= buf + 1
          BY <1>2, <4>1
        <5> QED
          BY <1>1, <5>1 DEF EndAhead
      <4> QED
        BY <1>1, <1>2, <3>2, <4>2 DEF OnPath
    <3> QED
      BY <3>1, <3>2
  <2>5. buf' \in FirstChild(file.kind) .. file.tail /\ ~ended'
    <3>1. buf < file.tail /\ buf >= First /\ file.tail \in Nat /\ First \in {2, 3}
      BY <2>1, IntactFacts DEF TypeInv
    <3>2. ~ended
      BY <1>2, <3>1 DEF OnPath
    <3>3. buf + 1 \in First .. file.tail
      BY <1>2, <3>1
    <3>4. ~ended'
      BY <1>1, <2>2, <3>2
    <3> QED
      BY <1>1, <3>3, <3>4 DEF First
  <2>6. \A t \in DOMAIN file.parent : t >= buf' => file.parent[t] \in Elems(stack') \/ file.parent[t] >= buf'
    <3>1. ASSUME NEW t \in DOMAIN file.parent, t >= buf + 1, file.parent[t] \notin Elems(stack)
          PROVE  file.parent[t] >= buf + 1
      <4>1. t >= buf /\ file.parent[t] \in Nat
        BY <3>1, NextPlaced, IntactFacts DEF TypeInv
      <4>2. file.parent[t] >= buf
        BY <1>2, <3>1, <4>1 DEF OnPath
      <4>3. file.parent[t] # buf
        BY <1>2, <2>1, <2>2, NoHolder, IntactFacts DEF TypeInv
      <4> QED
        BY <1>2, <4>1, <4>2, <4>3
    <3> QED
      BY <1>1, <3>1
  <2>7. \A d \in 1 .. Len(stack') - 1 :
          stack'[d] = 0 \/ Written(file, stack'[d]) = "group" \/ stack'[d] \in members'
    <3>1. PICK n \in Nat \ {0} : n = Len(stack)
      BY <1>1, TopFacts
    <3>2. Rising(stack) /\ Top = stack[n]
      BY <1>1, <3>1 DEF TypeInv, Running, Top
    <3>3. ASSUME NEW d \in 1 .. n - 1 PROVE stack[d] # Top
      <4>1. stack[d] < stack[n]
        BY <3>1, <3>2 DEF Rising
      <4>2. stack[d] \in Nat /\ stack[n] \in Nat
        BY <3>1, NameFacts DEF Elems
      <4> QED
        BY <3>2, <4>1, <4>2
    <3> QED
      BY <1>1, <1>2, <3>1, <3>3 DEF OnPath
  <2>8. \A c \in members' : c < buf'
    BY <1>1, <1>2 DEF OnPath
  <2>9. OnPath(file, buf', stack', members', ended')
    BY <1>1, <1>2, <2>4, <2>5, <2>6, <2>7, <2>8 DEF OnPath
  <2> QED
    BY <1>1, <1>4, <2>1, <2>9, ReadsOn
<1>6. CASE MarkerNext
  <2>1. /\ Top = 0 /\ buf = file.tail /\ file.after = file.tail + 1 /\ file.kind \notin Indexed
        /\ Elems(stack) = {0} /\ buf' = file.tail + 1 /\ ended' = TRUE
    BY <1>1, <1>6, TopWritten DEF MarkerNext
  <2>2. \A t \in DOMAIN file.parent : ~(t >= buf') /\ t # buf
    BY <2>1, IntactFacts DEF TypeInv
  <2>3. Len(stack) = 1
    <3>1. PICK n \in Nat \ {0} : n = Len(stack)
      BY <1>1, TopFacts
    <3>2. stack[n] = 0 /\ stack[1] = 0 /\ Rising(stack)
      BY <1>1, <2>1, <3>1 DEF TypeInv, TypeOK, Running, Top
    <3>3. n > 1 => stack[1] < stack[n]
      BY <3>1, <3>2 DEF Rising
    <3> QED
      BY <3>1, <3>2, <3>3
  <2>4. \A c \in members' : c < buf'
    BY <1>1, <1>2 DEF OnPath
  <2>5. OnPath(file, buf', stack', members', ended')
    BY <1>1, <1>2, <2>1, <2>2, <2>3, <2>4 DEF OnPath
  <2> QED
    BY <1>1, <1>4, <2>2, <2>5, ReadsOn
<1> QED
  BY <1>3, <1>5, <1>6

(* A property of the block of the chunk on top.                            *)
LEMMA AppendPropertyWritten ==
  ASSUME TypeInv, WrittenInv, file.intact, AppendProperty
  PROVE  WrittenInv'
<1>0. pc = "children" /\ ~Wants(Top) /\ HasBlock(Top) /\ IsProperty(Type)
  BY DEF AppendProperty, Parsing
<1>2. PropertyNext
  BY <1>0, Situation DEF ChildNext, MarkerNext, ChunkDone, SectionDone, HasBlock
<1>1. /\ pc = "children" /\ ~Wants(Top) /\ HasBlock(Top) /\ IsProperty(Type)
      /\ props' = [props EXCEPT ![Top] = Append(@, buf)] /\ buf' = buf + 1
      /\ UNCHANGED <<file, pc, stack, chunk, owner, members, ended, result>>
  <2>1. ~Faulty
    BY <1>2, SoundToken DEF PropertyNext, TypeInv
  <2> QED
    BY <1>0, <2>1 DEF AppendProperty
<1>3. /\ Written(file, buf) = "property" /\ buf \in DOMAIN file.parent /\ file.parent[buf] = Top
      /\ Top # 0 /\ Top \in DOMAIN props /\ buf \in DOMAIN file.tokens
      /\ OnPath(file, buf, stack, members, ended)
      /\ AsWritten(file, buf, chunk, owner, props, Elems(stack))
  BY <1>1, <1>2, IntactFacts, TopFacts, TopWritten DEF PropertyNext, TypeInv
<1>4. /\ DOMAIN props' = DOMAIN props /\ TokensIn(props', Top) = TokensIn(props, Top) \cup {buf}
      /\ \A k \in DOMAIN props \ {Top} : TokensIn(props', k) = TokensIn(props, k)
  <2>1. PICK h \in DOMAIN props : h = Top
    BY <1>3
  <2>2. props[h] \in Seq(DOMAIN file.tokens)
    BY DEF TypeInv, TypeOK
  <2>3. PICK q : q = Append(props[h], buf)
    OBVIOUS
  <2>4. {q[j] : j \in DOMAIN q} = TokensIn(props, h) \cup {buf}
    BY <1>3, <2>2, <2>3, AppendElems DEF TokensIn
  <2>5. /\ DOMAIN props' = DOMAIN props /\ props'[h] = q
        /\ \A k \in DOMAIN props \ {h} : props'[k] = props[k]
    BY <1>1, <2>1, <2>3
  <2> QED
    BY <2>1, <2>4, <2>5 DEF TokensIn
<1>5. AsWritten(file, buf', chunk', owner', props', Elems(stack'))
  <2>1. \A k \in DOMAIN props' : \A t \in TokensIn(props', k) : file.parent[t] = k
    BY <1>3, <1>4 DEF AsWritten
  <2>2. ASSUME NEW t \in DOMAIN file.parent, t < buf', Written(file, t) # "end"
        PROVE  IF Written(file, t) = "property" /\ file.parent[t] # 0
               THEN file.parent[t] \in DOMAIN props' /\ t \in TokensIn(props', file.parent[t])
               ELSE t \in DOMAIN owner' \cup Elems(stack')
    <3>1. CASE t = buf
      BY <1>3, <1>4, <3>1
    <3>2. CASE t < buf
      BY <1>1, <1>3, <1>4, <2>2, <3>2 DEF AsWritten
    <3> QED
      BY <1>1, <2>2, <3>1, <3>2, NextPlaced DEF TypeInv
  <2> QED
    BY <1>1, <1>3, <2>1, <2>2 DEF AsWritten
<1>6. OnPath(file, buf', stack', members', ended')
  BY <1>1, <1>3, StillOnPath
<1> QED
  BY <1>1, <1>5, <1>6, ReadsOn

(* The chunk on top is complete.                                           *)
LEMMA EndChildWritten ==
  ASSUME TypeInv, WrittenInv, file.intact, EndChild
  PROVE  WrittenInv'
<1>1. /\ pc = "children" /\ ~Wants(Top) /\ Top # 0 /\ (HasBlock(Top) => ~IsProperty(Type))
      /\ owner' = Bind(owner, Top, stack[Len(stack) - 1])
      /\ stack' = SubSeq(stack, 1, Len(stack) - 1)
      /\ UNCHANGED <<file, pc, buf, chunk, members, ended, props, result>>
  BY DEF EndChild
<1>2. ChunkDone
  <2>1. PropertyNext => IsProperty(Type)
    BY WrittenIs, IntactFacts DEF PropertyNext, Type, Eof, Token, TypeInv
  <2> QED
    BY <1>1, <2>1, Situation DEF ChildNext, PropertyNext, MarkerNext, SectionDone
<1>3. /\ OnPath(file, buf, stack, members, ended)
      /\ AsWritten(file, buf, chunk, owner, props, Elems(stack))
      /\ Rising(stack)
  BY <1>1, TopWritten DEF TypeInv, Running
<1>4. PICK n \in Nat \ {0, 1} : n = Len(stack)
  BY <1>1, TopFacts
<1>5. /\ Top = stack[n] /\ Len(stack') = n - 1 /\ \A d \in 1 .. n - 1 : stack'[d] = stack[d]
      /\ Elems(stack) = Elems(stack') \cup {Top} /\ Top \notin Elems(stack')
  <2>1. stack \in Seq(Int)
    BY <1>1, TopFacts
  <2>2. Elems(stack) = Elems(stack') \cup {Top} /\ Top \notin Elems(stack')
    BY <1>1, <1>3, <1>4, <2>1, PopFacts DEF Top
  <2>3. Len(stack') = n - 1 /\ \A d \in 1 .. n - 1 : stack'[d] = stack[d]
    <3>1. \A d \in 1 .. n - 1 : stack[d] \in Int
      BY <1>4, <2>1
    <3> QED
      BY <1>1, <1>4, <3>1, SubSeqProperties
  <2> QED
    BY <1>4, <2>2, <2>3 DEF Top
<1>6. Top \in DOMAIN file.parent /\ file.parent[Top] = stack[Len(stack) - 1]
  <2>1. n \in 2 .. n
    BY <1>4
  <2> QED
    BY <1>3, <1>4, <1>5, <2>1 DEF OnPath
<1>7. AsWritten(file, buf', chunk', owner', props', Elems(stack'))
  <2>1. DOMAIN owner' = DOMAIN owner \cup {Top} /\ \A c \in DOMAIN owner' : owner'[c] = file.parent[c]
    BY <1>1, <1>3, <1>6 DEF AsWritten, Bind
  <2> QED
    BY <1>1, <1>3, <1>5, <2>1 DEF AsWritten
<1>8. OnPath(file, buf', stack', members', ended')
  <2>1. ~ended /\ buf \in FirstChild(file.kind) .. file.tail
    BY <1>1, <1>3, TopWritten DEF OnPath
  <2>2. \A d \in 2 .. n - 1 : d \in 2 .. n /\ d \in 1 .. n - 1 /\ d - 1 \in 1 .. n - 1
    BY <1>4
  <2>3. \A d \in 2 .. Len(stack') :
          /\ stack'[d] \in DOMAIN file.parent /\ file.parent[stack'[d]] = stack'[d - 1]
          /\ Written(file, stack'[d]) \in {"def", "ref", "group", "value"}
    BY <1>3, <1>4, <1>5, <2>2 DEF OnPath
  <2>4. \A t \in DOMAIN file.parent : t >= buf => file.parent[t] \in Elems(stack') \/ file.parent[t] >= buf
    BY <1>2, <1>3, <1>5 DEF OnPath, ChunkDone
  <2>5. \A d \in 1 .. (n - 1) - 1 : d \in 1 .. n - 1
    BY <1>4
  <2>6. \A d \in 1 .. Len(stack') - 1 :
          stack'[d] = 0 \/ Written(file, stack'[d]) = "group" \/ stack'[d] \in members
    BY <1>3, <1>4, <1>5, <2>5 DEF OnPath
  <2>7. \A c \in Elems(stack') \ {0} : c \in members <=> EndAhead(file, buf, c)
    BY <1>3, <1>5 DEF OnPath
  <2> QED
    BY <1>1, <1>3, <2>1, <2>3, <2>4, <2>6, <2>7 DEF OnPath
<1> QED
  BY <1>1, <1>7, <1>8, ReadsOn

LEMMA WrittenStep == TypeInv /\ WrittenInv /\ [Next]_vars => WrittenInv'
<1> SUFFICES ASSUME TypeInv, WrittenInv, [Next]_vars PROVE WrittenInv'
  OBVIOUS
<1>0. file' = file
  <2>1. CASE Begin \/ BeginChild
    BY <2>1 DEF Begin, BeginChild, Throw
  <2>2. CASE HeaderProperty \/ EndMarker \/ WrongChild \/ AppendProperty
    BY <2>2 DEF HeaderProperty, EndMarker, WrongChild, AppendProperty, Throw
  <2>3. CASE EndChild \/ EndSection \/ ReadIndex \/ ReadPastEnd \/ Delete
    BY <2>3 DEF EndChild, EndSection, ReadIndex, ReadPastEnd, Delete, Throw
  <2> QED
    BY <2>1, <2>2, <2>3 DEF Next, Parse, vars
<1> SUFFICES ASSUME file.intact PROVE WrittenInv'
  BY <1>0 DEF WrittenInv
<1>1. /\ Intact(file) /\ FrameIntact(file) /\ First \in {2, 3} /\ file.tail \in Nat /\ First <= file.tail
      /\ file.tail \in DOMAIN file.tokens /\ DOMAIN file.parent = First .. file.tail - 1
      /\ file.kind \in Kinds
  BY IntactFacts, WrittenKinds DEF Intact, TypeInv
<1>2. pc \in {"begin", "children", "index"} => result = "pending"
  BY DEF TypeInv, Running
<1>3. CASE Begin
  <2>1. /\ chunk = << >> /\ owner = << >> /\ props = << >> /\ stack = <<0>> /\ pc = "begin"
        /\ buf = 1 /\ members = {} /\ ended = FALSE /\ result = "pending"
    BY <1>2, <1>3 DEF Begin, TypeInv, Running, WrittenInv
  <2>2. file.kind # "values" => Type = 21
    <3>1. 1 \in DOMAIN file.tokens
      BY TokenFacts DEF TypeInv
    <3> QED
      BY <1>1, <2>1, <3>1 DEF FrameIntact, Type, Eof, Token
  <2>3. file.kind \in Indexed => file.tokens[2].type = 22
    BY <1>1 DEF FrameIntact
  <2>4. /\ pc' = "children" /\ buf' = First
        /\ UNCHANGED <<stack, chunk, owner, members, ended, props, propmap, result>>
    BY <1>3, <2>2, <2>3 DEF Begin
  <2>5. AsWritten(file, buf', chunk', owner', props', Elems(stack'))
    <3>1. DOMAIN chunk' = {} /\ DOMAIN owner' = {} /\ DOMAIN props' = {}
      BY <2>1, <2>4
    <3>2. \A t \in DOMAIN file.parent : ~(t < buf')
      BY <1>1, <2>4
    <3> QED
      BY <3>1, <3>2 DEF AsWritten
  <2>6. OnPath(file, buf', stack', members', ended')
    <3>1. Len(stack') = 1 /\ Elems(stack') = {0} /\ members' = {} /\ ended' = FALSE
      BY <2>1, <2>4 DEF Elems
    <3>2. buf' \in FirstChild(file.kind) .. file.tail
      BY <1>1, <2>4 DEF First
    <3>3. \A t \in DOMAIN file.parent : file.parent[t] \in {0} \/ file.parent[t] >= buf'
      <4>1. ASSUME NEW t \in DOMAIN file.parent, file.parent[t] # 0
            PROVE  file.parent[t] >= First
        <5>1. file.parent[t] \in DOMAIN file.parent
          BY <4>1, IntactFacts DEF TypeInv
        <5> QED
          BY <1>1, <5>1
      <4> QED
        BY <2>4, <4>1
    <3> QED
      BY <3>1, <3>2, <3>3 DEF OnPath
  <2> QED
    BY <1>0, <2>1, <2>4, <2>5, <2>6 DEF WrittenInv
<1>4. CASE BeginChild \/ HeaderProperty \/ EndMarker \/ AppendProperty \/ EndChild
  BY <1>4, BeginChildWritten, HeaderPropertyWritten, EndMarkerWritten, AppendPropertyWritten, EndChildWritten
<1>5. ~WrongChild
  <2> SUFFICES ASSUME WrongChild PROVE FALSE
    OBVIOUS
  <2>1. /\ pc = "children" /\ Wants(Top)
        /\ \A m \in {"def", "ref", "group", "value", "property", "end"} :
             <<Class(Top), Type, m>> \notin Factory
    BY DEF WrongChild, Parsing, Makes
  <2>2. ChildNext \/ MarkerNext
    BY <2>1, Situation DEF PropertyNext, ChunkDone, SectionDone
  <2> QED
    BY <2>1, <2>2, FactoryMakes DEF ChildNext, MarkerNext
<1>6. CASE EndSection
  <2>1. /\ pc = "children" /\ ~Wants(Top) /\ Top = 0
        /\ pc' = IF file.kind \in Indexed THEN "index" ELSE "parsed"
        /\ result' = IF file.kind \in Indexed THEN result ELSE "ok"
        /\ UNCHANGED <<buf, stack, chunk, owner, props>>
    BY <1>6 DEF EndSection
  <2>2. SectionDone
    BY <2>1, Situation DEF ChildNext, PropertyNext, ChunkDone, MarkerNext
  <2>3. Elems(stack) = {0} /\ AsWritten(file, buf, chunk, owner, props, Elems(stack))
    BY <2>1, TopWritten
  <2>4. stack' = stack /\ Elems(stack') = {0}
    BY <2>1, <2>3
  <2>5. CASE file.kind \in Indexed
    BY <1>0, <1>2, <2>1, <2>2, <2>3, <2>4, <2>5 DEF WrittenInv, SectionDone
  <2>6. CASE file.kind \notin Indexed
    BY <1>0, <2>1, <2>2, <2>3, <2>4, <2>6 DEF WrittenInv, SectionDone
  <2> QED
    BY <2>5, <2>6
<1>7. CASE ReadIndex
  <2>1. pc = "index" /\ buf = file.tail /\ file.after = file.tail + 1 /\ Elems(stack) = {0} /\ file.kind \in Indexed
    BY <1>7 DEF ReadIndex, WrittenInv
  <2>2. AsWritten(file, buf, chunk, owner, props, Elems(stack))
    BY <2>1 DEF WrittenInv
  <2>3. Type = 19 /\ ~Faulty
    BY <1>1, <2>1 DEF FrameIntact, Type, Eof, Token, Indexed, Faulty
  <2>4. pc' = "parsed" /\ result' = "ok" /\ buf' = buf + 1 /\ UNCHANGED <<stack, chunk, owner, props>>
    BY <1>7, <2>3 DEF ReadIndex
  <2>5. AsWritten(file, buf', chunk', owner', props', Elems(stack'))
    <3>1. \A t \in DOMAIN file.parent : t < buf
      BY <1>1, <2>1
    <3> QED
      BY <2>2, <2>4, <3>1 DEF AsWritten
  <2> QED
    BY <1>0, <1>1, <2>1, <2>4, <2>5 DEF WrittenInv
<1>8. ~ReadPastEnd
  <2> SUFFICES ASSUME ReadPastEnd PROVE FALSE
    OBVIOUS
  <2>1. Eof /\ pc \in {"children", "index"} /\ (pc = "children" => Wants(Top) \/ HasBlock(Top))
    BY DEF ReadPastEnd
  <2>2. buf \notin DOMAIN file.parent /\ buf # file.tail
    BY <1>1, <2>1, IntactFacts DEF Eof, TypeInv
  <2>3. pc = "children"
    BY <2>1, <2>2 DEF WrittenInv
  <2> QED
    BY <2>1, <2>2, <2>3, Situation DEF ChildNext, PropertyNext, ChunkDone, MarkerNext, SectionDone, HasBlock
<1>9. CASE Delete
  BY <1>9 DEF Delete, WrittenInv
<1>10. CASE UNCHANGED vars
  BY <1>10 DEF vars, WrittenInv, Elems
<1> QED
  BY <1>3, <1>4, <1>5, <1>6, <1>7, <1>8, <1>9, <1>10 DEF Next, Parse

(* An intact section is read as it was written: every chunk ends in the    *)
(* container and every property in the block they were written for, though *)
(* groups end at a count, structures at a marker, property blocks at the   *)
(* first other chunk and sections at a position (psfcontainer.cc:64-71,    *)
(* psfgroup.cc:15-20, psftype.cc:30-35, psfpropertyblock.cc:51-68).  The   *)
(* walk ends where the section was written to end.                         *)
THEOREM SectionsReadAsWritten == Spec => []ReadAsWritten
<1>1. Init => WrittenInv
  BY DEF Init, WrittenInv
<1> QED
  BY <1>1, WrittenMeans, InitType, StepType, WrittenStep, PTL DEF Spec
=============================================================================
