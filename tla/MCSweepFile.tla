------------------------------ MODULE MCSweepFile ------------------------------
(* Files as simulators lay them out, for small instances.                     *)
EXTENDS SweepFile, SequencesExt

Plain(id)   == [group |-> FALSE, refs |-> <<id>>]
Group(refs) == [group |-> TRUE, refs |-> refs]

SumOf(f(_), n) == FoldLeft(LAMBDA sum, k : sum + f(k), 0, [k \in 1 .. n |-> k])

(* The file with the trace section children, and count[w] points in its     *)
(* w-th window (no windows: windowsize 0), as a simulator writes it.        *)
Laid(windowsize, children, count, paramsize, key, sizes) ==
  LET windowed == windowsize # 0
      npoints  == SumOf(LAMBDA w : count[w], Len(count))
      skip(c)  == ~windowed /\ ~children[c].group /\ key[children[c].refs[1]] = "sweep"
      prefix   == IF windowed THEN 0 ELSE 8
      width(id) == IF windowed THEN windowsize ELSE sizes[id]
      inside(c, n) == SumOf(LAMBDA r : width(children[c].refs[r]), n)
      bytes(c) == IF skip(c) THEN 0 ELSE prefix + inside(c, Len(children[c].refs))
      base     == [c \in 1 .. Len(children) + 1 |-> SumOf(bytes, c - 1)]
      at       == [c \in 1 .. Len(children) |->
                     [r \in 1 .. Len(children[c].refs) + 1 |-> base[c] + prefix + inside(c, r - 1)]]
      window(w) == 8 + count[w] * paramsize + base[Len(children) + 1]
      start    == [w \in 1 .. Len(count) + 1 |-> SumOf(window, w - 1)]
      first    == [w \in 1 .. Len(count) + 1 |-> SumOf(LAMBDA v : count[v], w - 1)]
      shift(id, n) == IF windowed THEN windowsize - n * sizes[id] ELSE 0
      param    == [k \in 1 .. npoints |-> <<Sweep, k>>]
      wave     == [id \in DOMAIN sizes |-> [k \in 1 .. npoints |-> <<id, k>>]]
      values   == UNION {UNION {
                    {<<start[w] + 8 + (k - 1) * paramsize, param[first[w] + k]>>} \cup
                    UNION {{LET id == children[c].refs[r] IN
                            <<start[w] + 8 + count[w] * paramsize + at[c][r] + shift(id, count[w])
                                + (k - 1) * sizes[id], wave[id][first[w] + k]>> :
                            r \in {r \in DOMAIN children[c].refs : ~skip(c)}} : c \in DOMAIN children} :
                    k \in 1 .. count[w]} : w \in DOMAIN count}
      words    == UNION {{<<start[w], VALUECHUNK>>,
                          <<start[w] + 4, IF windowed THEN 65536 * 5 + count[w] ELSE 1>>} :
                         w \in DOMAIN count} \cup {<<start[Len(count) + 1], 15>>}
      asFun(pairs) == [a \in {p[1] : p \in pairs} |-> (CHOOSE p \in pairs : p[1] = a)[2]]
  IN [windowed |-> windowed, windowsize |-> windowsize, npoints |-> npoints,
      ntraces |-> SumOf(LAMBDA c : Len(children[c].refs), Len(children)),
      children |-> children, size |-> sizes, key |-> key, paramsize |-> paramsize,
      paramid |-> 1, padded |-> windowed, words |-> asFun(words), values |-> asFun(values),
      param |-> param, wave |-> wave, base |-> base, at |-> at, count |-> count,
      first |-> first, start |-> start]
================================================================================
