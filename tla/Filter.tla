------------------------------- MODULE Filter -------------------------------
(***************************************************************************)
(* The filters of decimate.c, for one position of one id: integrators at   *)
(* the rate of the samples, combs at the decimated rate, and a FIR filter  *)
(* over the outputs of the combs.                                          *)
(*                                                                         *)
(* The integrators are never reset and overflow sooner or later: in the    *)
(* build they wrap, which is modelled with integers of Width bits.  The    *)
(* doubles of the FIR filter are taken to be exact.                        *)
(***************************************************************************)
EXTENDS Integers, SequencesExt

CONSTANTS
    decimation_factor,
    comb_orders,          \* number of combs of delay 1, 2, ...
    compensation_filter,  \* coefficients, the first is that of the oldest value
    Width,                \* bits of an accumulator
    Values                \* the values of the samples, which repeat

VARIABLES cic_accumulators, comb_histories, comb_history_index,
          filter_buffer, filter_index

filters == <<cic_accumulators, comb_histories, comb_history_index,
             filter_buffer, filter_index>>

\* The combs in the order they are applied: their delay, and which of it.
Stages ==
    FlattenSeq([order \in DOMAIN comb_orders |->
        [n \in 1 .. comb_orders[order] |-> <<order, n>>]])

cic_order == Len(Stages)

\* The delay of a stage, in decimated samples.
Delay(k) == Stages[k][1]

\* The sum, and the product, of the first n elements of f.
SumOver(f, n) ==
    LET s[i \in 0 .. n] == IF i = 0 THEN 0 ELSE s[i - 1] + f[i] IN s[n]
ProductOver(f, n) ==
    LET p[i \in 0 .. n] == IF i = 0 THEN 1 ELSE p[i - 1] * f[i] IN p[n]

CicGain ==
    ProductOver([k \in 1 .. cic_order |-> decimation_factor * Delay(k)], cic_order)

\* 1 / filter_scaling, for "unit DC response".
Taps == Len(compensation_filter)
Gain == CicGain * SumOver(compensation_filter, Taps)

filter_length ==
    1 + (Taps - 1) * decimation_factor
      + SumOver([k \in 1 .. cic_order |-> Delay(k) * decimation_factor - 1],
                cic_order)
group_delay == filter_length \div 2

\* An accumulator holds -Limit .. Limit - 1.
Limit == 2 ^ (Width - 1)

ASSUME FilterAssumption ==
    /\ decimation_factor \in Nat /\ decimation_factor > 1
    /\ comb_orders \in Seq(Nat) /\ cic_order > 0
    /\ compensation_filter \in Seq(Int) \ {<<>>} /\ Gain > 0
    /\ Values \in Seq(Int) \ {<<>>}
    \* Width is a number of bits, at least 1
    /\ Limit \in Nat \ {0}
    \* the output of the combs fits, whatever the accumulators hold
    /\ \A i \in DOMAIN Values : CicGain * Values[i] \in -Limit .. Limit - 1

\* Mutant: an accumulator stops at its limits.
wrapSaturated(x) ==
    IF x >= Limit THEN Limit - 1 ELSE IF x < -Limit THEN -Limit ELSE x

wrap(x) == ((x + Limit) % (2 * Limit)) - Limit

\* A C conversion to int truncates towards zero.
truncate(a, b) == IF a >= 0 THEN a \div b ELSE -((-a) \div b)

InitFilters ==
    /\ cic_accumulators = [k \in 1 .. cic_order |-> 0]
    /\ comb_histories = [k \in 1 .. cic_order |->
                            [i \in 0 .. Delay(k) - 1 |-> 0]]
    /\ comb_history_index = [order \in DOMAIN comb_orders |-> 0]
    /\ filter_buffer = [j \in 0 .. Taps - 1 |-> 0]
    /\ filter_index = 0

cycle(ix, limit) == IF ix + 1 >= limit THEN 0 ELSE ix + 1

\* accumulate: each stage adds what the stage before it has come to.
accumulate(value) ==
    LET out[k \in 0 .. cic_order] ==
            IF k = 0 THEN value ELSE wrap(cic_accumulators[k] + out[k - 1])
    IN [k \in 1 .. cic_order |-> out[k]]

\* comb: what goes into the first comb, and what comes out of each.
Combed(row) ==
    LET out[k \in 0 .. cic_order] ==
            IF k = 0 THEN row
            ELSE wrap(out[k - 1]
                        - comb_histories[k][comb_history_index[Delay(k)]])
    IN out

comb(row) ==
    LET values == Combed(row) IN
    /\ comb_histories' =
        [k \in 1 .. cic_order |->
            [comb_histories[k] EXCEPT
                ![comb_history_index[Delay(k)]] = values[k - 1]]]
    /\ comb_history_index' =
        [order \in DOMAIN comb_orders |->
            cycle(comb_history_index[order], order)]
    /\ filter_buffer' = [filter_buffer EXCEPT ![filter_index] = values[cic_order]]
    /\ filter_index' = cycle(filter_index, Taps)

\* Mutant: the buffer is read from its beginning.
filter_outputUnrotated(index, buffer) ==
    truncate(SumOver([j \in 1 .. Taps |-> compensation_filter[j] * buffer[j - 1]],
                     Taps), Gain)

\* filter_output, from the oldest value in the buffer on.
filter_output(index, buffer) ==
    truncate(SumOver([j \in 1 .. Taps |->
                        compensation_filter[j] * buffer[(index + j - 1) % Taps]],
                     Taps), Gain)

-----------------------------------------------------------------------------
(* What docs/fa-archiver.rst says of the filter: a convolution with one    *)
(* response, that of N integrators, decimation and combs 1 - z^-n, scaled, *)
(* and then of the compensation filter.                                    *)

\* Coefficient k of a polynomial given by its coefficients, from 0 on.
at(p, k) == IF k \in 0 .. Len(p) - 1 THEN p[k + 1] ELSE 0

times(p, q) ==
    [k \in 1 .. Len(p) + Len(q) - 1 |->
        SumOver([i \in 1 .. Len(p) |-> p[i] * at(q, k - i)], Len(p))]

\* (1 - z^-(n decimation_factor)) / (1 - z^-1).
Boxcar(n) == [i \in 1 .. n * decimation_factor |-> 1]

Upsampled ==
    [k \in 1 .. 1 + (Taps - 1) * decimation_factor |->
        IF (k - 1) % decimation_factor = 0
        THEN compensation_filter[Taps - ((k - 1) \div decimation_factor)]
        ELSE 0]

\* The response p with that of the first stages.
Cascaded(p) ==
    LET r[k \in 0 .. cic_order] ==
            IF k = 0 THEN p ELSE times(r[k - 1], Boxcar(Delay(k)))
    IN r

Response == Cascaded(Upsampled)[cic_order]

\* The filtered value of the samples taken, the last of them the newest.
Convolved(values) ==
    LET n == Len(Response) IN
    truncate(SumOver([k \in 1 .. n |-> Response[k] * at(values, Len(values) - k)],
                     n), Gain)

=============================================================================
