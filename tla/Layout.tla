-------------------------------- MODULE Layout --------------------------------
(***************************************************************************)
(* How rows of tokens are laid out for a model: padded, with the padding removed *)
(* and put back, and with places and attention heads spread over n ranks.     *)
(*                                                                         *)
(* What a model computes at a place is the sequence, one entry per attention    *)
(* head, of what that head attended to: the tokens with the positions their     *)
(* rotary embeddings were given.                                            *)
(***************************************************************************)
EXTENDS Advantage

\* What pad_input leaves where no token is.
Zero == <<>>

Repeat(x, n) == [k \in 1..n |-> x]
PadLeft(s, n, x) == Repeat(x, n - Len(s)) \o s
PadRight(s, n, x) == IF Len(s) >= n THEN s ELSE s \o Repeat(x, n - Len(s))

\* Positions count the valid tokens, and padding in front has position 0.
PositionIds(mask) ==
  [k \in DOMAIN mask |-> LET n == SumSeq(SubSeq(mask, 1, k)) IN IF n = 0 THEN 0 ELSE n - 1]

\* Places up to n, in order.
InOrder(places, n) ==
  LET upTo[k \in 0..n] ==
        IF k = 0 THEN <<>> ELSE IF k \in places THEN Append(upTo[k - 1], k) ELSE upTo[k - 1]
  IN upTo[n]

\* What is left of a text that is longer than the model takes.
Truncated(s, n, side) ==
  IF Len(s) <= n THEN s
  ELSE IF side = "left" THEN SubSeq(s, Len(s) - n + 1, Len(s)) ELSE SubSeq(s, 1, n)

-----------------------------------------------------------------------------
(* Removing padding and putting it back, over rows of width w. *)

Indices(mask, w) ==
  InOrder({n \in 1..(Len(mask) * w) : mask[((n - 1) \div w) + 1][((n - 1) % w) + 1] = 1}, Len(mask) * w)
Unpad(x, indices, w) ==
  Each([k \in DOMAIN indices |-> x[((indices[k] - 1) \div w) + 1][((indices[k] - 1) % w) + 1]])
PadInput(y, indices, rows, w) ==
  Each([i \in 1..rows |-> Each([c \in 1..w |->
     LET n == (i - 1) * w + c
     IN IF Contains(indices, n) THEN y[CHOOSE k \in DOMAIN indices : indices[k] = n] ELSE Zero])])
Roll(x) == Tail(x) \o <<Head(x)>>

SliceOf(s, n, k) == LET m == Len(s) \div n IN SubSeq(s, k * m + 1, (k + 1) * m)
PadSize(len, n) == (n - (len % n)) % n

\* unpad_tensor drops everything when there is nothing to drop; its callers check.
UnpadTensor(x, padding) == IF padding = 0 THEN <<>> ELSE SubSeq(x, 1, Len(x) - padding)
Gather(x) == FlattenSeq(x)
GatherAndUnpad(x, padding) ==
  IF padding = 0 THEN Gather(x) ELSE UnpadTensor(Gather(x), padding)

-----------------------------------------------------------------------------
(* Attention.  A rank's hidden states are a sequence of places, each the         *)
(* sequence of its heads.                                                     *)

Split(x, n, dim, k) ==
  IF dim = "seq" THEN SliceOf(x, n, k) ELSE Each([p \in DOMAIN x |-> SliceOf(x[p], n, k)])
Cat(xs, dim) ==
  IF dim = "seq" THEN FlattenSeq(xs)
  ELSE Each([p \in DOMAIN xs[1] |-> FlattenSeq([q \in DOMAIN xs |-> xs[q][p]])])
AllToAll(x, scatter, gather) ==
  LET n == Len(x) IN Each([r \in 1..n |-> Cat([q \in 1..n |-> Split(x[q], n, scatter, r - 1)], gather)])

GatherSeqScatterHeads(x) == AllToAll(x, "heads", "seq")
GatherHeadsScatterSeq(x) ==
  LET n == Len(x)
      pad == PadSize(Len(x[1]), n)
      padded == [r \in 1..n |-> PadRight(x[r], Len(x[r]) + pad, Repeat(Zero, Len(x[r][1])))]
  IN AllToAll(padded, "seq", "heads")

\* A sequence goes on from its first position; flash attention finds these places itself
\* unless the positions never fall.
FirstOf(pos, k) ==
  IF \A j \in 2..Len(pos) : pos[j] >= pos[j - 1] THEN 1
  ELSE Max({j \in 1..k : pos[j] = 0} \cup {1})
Attend(x, pos) ==
  Each([k \in DOMAIN x |->
    LET a == FirstOf(pos, k)
    IN Each([h \in DOMAIN x[k] |-> Each([j \in 1..(k - a + 1) |-> <<x[a + j - 1][h], pos[a + j - 1]>>])])])

Hidden(tokens, heads) == Each([k \in DOMAIN tokens |-> Each([h \in 1..heads |-> <<tokens[k], h>>])])

\* Every rank has a slice of the places and all positions; inside attention it has all the
\* places and a slice of the heads.
UlyssesAttention(slices, pos, heads) ==
  LET x == Each([r \in DOMAIN slices |-> Hidden(slices[r], heads)])
  IN IF Len(x) = 1 THEN <<Attend(x[1], pos)>>
     ELSE LET full == GatherSeqScatterHeads(x)
          IN GatherHeadsScatterSeq(Each([r \in DOMAIN full |-> Attend(full[r], pos)]))

\* Megatron: the column parallel layer collects the places and gives a rank its heads, the
\* padding goes before attention and returns after it, the row parallel layer sums over the
\* ranks.  Positions start over at the end of every sequence.
MegatronAttention(tokens, lengths, n, heads, parallel) ==
  LET nnz == SumSeq(lengths)
      pos == FlattenSeq([i \in DOMAIN lengths |-> [k \in 1..lengths[i] |-> k - 1]])
      HeadsOf(r) == Split(Hidden(tokens, heads), n, "heads", r - 1)
      Out(r) == PadRight(Attend(SubSeq(HeadsOf(r), 1, nnz), pos), Len(tokens), Repeat(Zero, heads \div n))
      summed == Cat(Each([r \in 1..n |-> Out(r)]), "heads")
  IN [r \in 1..n |-> IF parallel THEN SliceOf(summed, n, r - 1) ELSE summed]

\* With padding: a causal mask, and no attention to padding.
PaddedAttention(b, heads) ==
  Entries(b.input_ids, LAMBDA i, c:
     LET seen == InOrder({j \in 1..c : b.attention_mask[i][j] = 1}, c)
     IN Each([h \in 1..heads |->
           Each([k \in DOMAIN seen |-> <<<<b.input_ids[i][seen[k]], h>>, b.position_ids[i][seen[k]]>>])]))

Width(b) == Len(b.input_ids[1])
Packed(b, x) == Unpad(x, Indices(b.attention_mask, Width(b)), Width(b))

\* The result at a place: its hidden state, or with it the label that came along.
HiddenOnly(hidden, label) == hidden
WithLabel(hidden, label) == <<label, hidden>>
Result(labelled, hidden, label) ==
  IF labelled THEN WithLabel(hidden, label) ELSE HiddenOnly(hidden, label)

\* One forward pass without padding on the FSDP side: the labels are sliced with the tokens.
PadAndSlice(x, n, zero) ==
  LET padded == PadRight(x, Len(x) + PadSize(Len(x), n), zero)
  IN Each([r \in 1..n |-> SliceOf(padded, n, r - 1)])
PadPositions(pos, n) == pos \o [k \in 1..PadSize(Len(pos), n) |-> k - 1]

RmpadForward(b, n, heads, labelled) ==
  LET ids == Packed(b, b.input_ids)
      pos == PadPositions(Packed(b, b.position_ids), n)
      labels == PadAndSlice(Roll(ids), n, <<0, 0, 0>>)
      out == UlyssesAttention(PadAndSlice(ids, n, <<0, 0, 0>>), pos, heads)
      result == Entries(out, LAMBDA r, k: Result(labelled, out[r][k], labels[r][k]))
  IN PadInput(GatherAndUnpad(result, PadSize(Len(ids), n)),
              Indices(b.attention_mask, Width(b)), Len(b.input_ids), Width(b))

\* On the Megatron side the padding of the places goes before the rest is put back.
MegatronForward(b, n, heads, parallel) ==
  LET ids == Packed(b, b.input_ids)
      lengths == [i \in DOMAIN b.attention_mask |-> SumSeq(b.attention_mask[i])]
      tokens == IF parallel THEN PadRight(ids, Len(ids) + PadSize(Len(ids), n), <<0, 0, 0>>) ELSE ids
      out == MegatronAttention(tokens, lengths, n, heads, parallel)
      whole == IF parallel THEN SubSeq(Gather(out), 1, Len(ids)) ELSE out[1]
  IN PadInput(whole, Indices(b.attention_mask, Width(b)), Len(b.input_ids), Width(b))
=============================================================================
