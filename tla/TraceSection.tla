----------------------------- MODULE TraceSection -----------------------------
(***************************************************************************)
(* The names of a trace section: the name maps that GroupDef::deserialize  *)
(* and IndexedContainer::deserialize fill, child by child, and the lookups *)
(* of TraceSection and GroupDef.                                           *)
(*                                                                         *)
(* A child of the section is a group, with the names of its traces, or one *)
(* trace, whose name is its refs[1].                                       *)
(***************************************************************************)
EXTENDS Integers, Sequences

CONSTANTS
  Names,
  TraceSections   \* the sequences of children that may be parsed

Child == [group : BOOLEAN, name : Names, refs : Seq(Names)]

ASSUME SectionsAssumed ==
  /\ TraceSections \subseteq Seq(Child)
  /\ \A s \in TraceSections : \A c \in DOMAIN s :
       ~s[c].group => Len(s[c].refs) = 1 /\ s[c].refs[1] = s[c].name

VARIABLES
  children,    \* of the section
  phase,       \* "groups": children are read; "index": then indexed; "ready"
  ichild, iname,   \* the next child; in a group, the next reference
  groupmap,    \* m_namemap of each group: index of a name, from 1
  namemap,     \* of the section
  sought       \* the name that was looked up last, and what was found

nameVars == <<children, phase, ichild, iname, groupmap, namemap, sought>>

(* The position of a trace: its child, and its place in the child.         *)
NameAt(pos) == children[pos[1]].refs[pos[2]]
Nobody      == <<0, 0>>

Bind(f, k, v) == [x \in DOMAIN f \cup {k} |-> IF x = k THEN v ELSE f[x]]

NamesInit ==
  /\ children \in TraceSections
  /\ phase = "groups" /\ ichild = 1 /\ iname = 1
  /\ groupmap = [c \in DOMAIN children |-> << >>]
  /\ namemap = << >>
  /\ \E n \in Names : sought = [name |-> n, found |-> [res |-> "none", at |-> Nobody]]

-----------------------------------------------------------------------------
(* GroupDef::deserialize: m_namemap[chunk->get_name()] = i.                *)
ReadTraceAs(index) ==
  /\ phase = "groups" /\ ichild \in DOMAIN children /\ iname \in DOMAIN children[ichild].refs
  /\ groupmap' = IF children[ichild].group
                 THEN [groupmap EXCEPT ![ichild] = Bind(@, children[ichild].refs[iname], index)]
                 ELSE groupmap
  /\ iname' = iname + 1
  /\ UNCHANGED <<children, phase, ichild, namemap, sought>>

(* Mutant: the index of the next trace.                                    *)
ReadTraceLate == ReadTraceAs(iname + 1)

ReadTrace == ReadTraceAs(iname)

EndChild ==
  /\ phase = "groups" /\ ichild \in DOMAIN children /\ iname \notin DOMAIN children[ichild].refs
  /\ ichild' = ichild + 1 /\ iname' = 1
  /\ UNCHANGED <<children, phase, groupmap, namemap, sought>>

EndChildren ==
  /\ phase = "groups" /\ ichild \notin DOMAIN children
  /\ phase' = "index" /\ ichild' = 1
  /\ UNCHANGED <<children, iname, groupmap, namemap, sought>>

(* Mutant: namemap.insert, which keeps the first.                          *)
IndexChildInsert ==
  /\ phase = "index" /\ ichild \in DOMAIN children
  /\ namemap' = IF children[ichild].name \in DOMAIN namemap THEN namemap
                ELSE Bind(namemap, children[ichild].name, ichild)
  /\ ichild' = ichild + 1
  /\ UNCHANGED <<children, phase, iname, groupmap, sought>>

(* IndexedContainer::deserialize: namemap[name] = i, groups included.      *)
IndexChild ==
  /\ phase = "index" /\ ichild \in DOMAIN children
  /\ namemap' = Bind(namemap, children[ichild].name, ichild)
  /\ ichild' = ichild + 1
  /\ UNCHANGED <<children, phase, iname, groupmap, sought>>

EndIndex ==
  /\ phase = "index" /\ ichild \notin DOMAIN children
  /\ phase' = "ready"
  /\ UNCHANGED <<children, ichild, iname, groupmap, namemap, sought>>

-----------------------------------------------------------------------------
Groups      == {c \in DOMAIN children : children[c].group}
FirstGroup  == CHOOSE c \in Groups : \A d \in Groups : c <= d

Found(pos)  == [res |-> "ok", at |-> pos]
Fails(ex)   == [res |-> ex, at |-> Nobody]

(* A name of the section that is a group's does not cast to a reference.   *)
InSection(name) == IF namemap[name] \in Groups THEN Fails("bad_cast") ELSE Found(<<namemap[name], 1>>)

(* GroupDef::get_child(name).                                              *)
InGroup(name, c) ==
  IF name \in DOMAIN groupmap[c] THEN Found(<<c, groupmap[c][name]>>) ELSE Fails("NotFound")

(* Mutant: the group is searched before the section.                       *)
GroupFirst(name) ==
  CASE Groups # {} -> InGroup(name, FirstGroup)
    [] Groups = {} /\ name \in DOMAIN namemap -> InSection(name)
    [] OTHER -> Fails("NotFound")

(* get_trace_by_name: the search of the first group returns or throws.     *)
ByName(name) ==
  CASE name \in DOMAIN namemap -> InSection(name)
    [] name \notin DOMAIN namemap /\ Groups # {} -> InGroup(name, FirstGroup)
    [] OTHER -> Fails("NotFound")

Lookup(name) ==
  /\ phase = "ready"
  /\ sought' = [name |-> name, found |-> ByName(name)]
  /\ UNCHANGED <<children, phase, ichild, iname, groupmap, namemap>>

NamesNext ==
  \/ ReadTrace \/ EndChild \/ EndChildren \/ IndexChild \/ EndIndex
  \/ \E name \in Names : Lookup(name)

NamesSpec == NamesInit /\ [][NamesNext]_nameVars

-----------------------------------------------------------------------------
(* Properties.                                                             *)

Positions == UNION {{<<c, q>> : q \in DOMAIN children[c].refs} : c \in DOMAIN children}

NamesTypeOK ==
  /\ children \in TraceSections
  /\ phase \in {"groups", "index", "ready"}
  /\ ichild \in Nat \ {0} /\ iname \in Nat \ {0}
  /\ DOMAIN groupmap = DOMAIN children
  /\ \A c \in DOMAIN children : groupmap[c] \in [DOMAIN groupmap[c] -> DOMAIN children[c].refs]
  /\ namemap \in [DOMAIN namemap -> DOMAIN children]
  /\ sought.name \in Names /\ sought.found.at \in {Nobody} \cup Positions

(* The maps have every name that was passed, and for each the last child   *)
(* (or reference) of that name: also while they are being filled, also if  *)
(* names occur twice.                                                      *)
NamesPassed(c) == {q \in DOMAIN children[c].refs : phase # "groups" \/ c < ichild \/ (c = ichild /\ q < iname)}
Indexed   == {c \in DOMAIN children : phase = "ready" \/ (phase = "index" /\ c < ichild)}

LastOf(map, name, passed, names) ==
  IF name \in DOMAIN map
  THEN /\ map[name] \in passed /\ names[map[name]] = name
       /\ \A q \in passed : names[q] = name => q <= map[name]
  ELSE \A q \in passed : names[q] # name

ChildNames == [c \in DOMAIN children |-> children[c].name]

NamesIndexed ==
  \A name \in Names :
    /\ LastOf(namemap, name, Indexed, ChildNames)
    /\ \A c \in Groups : LastOf(groupmap[c], name, NamesPassed(c), children[c].refs)

(* No two children and no two traces have the same name.                   *)
DistinctNames ==
  /\ \A a, b \in Positions : NameAt(a) = NameAt(b) => a = b
  /\ \A c, d \in DOMAIN children : children[c].name = children[d].name => c = d
  /\ \A c \in Groups, a \in Positions : children[c].name # NameAt(a)

(* A name is never answered with a trace of another name, and if names are *)
(* distinct, every listed trace outside groups and in the first group is   *)
(* found where it is listed.                                               *)
FoundWhereListed ==
  /\ sought.found.res = "ok" => NameAt(sought.found.at) = sought.name
  /\ phase = "ready" /\ DistinctNames =>
       \A a \in Positions : a[1] \notin Groups \/ a[1] = FirstGroup => ByName(NameAt(a)) = Found(a)

(* psftrace.cc:35, "Search groups": every name that get_names lists is     *)
(* found, in whichever group it is.                                        *)
SearchesGroups ==
  phase = "ready" /\ DistinctNames => \A a \in Positions : ByName(NameAt(a)).res = "ok"
=============================================================================
