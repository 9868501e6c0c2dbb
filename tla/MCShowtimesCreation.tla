------------------------ MODULE MCShowtimesCreation ------------------------
(* Small instances of ShowtimesCreation for TLC.  Time is counted in slots.  *)
EXTENDS ShowtimesCreation, TLC

CONSTANTS b1, b2, m1, t1, t2

MCBatch == {b1, b2}
MCMovie == {m1}
MCTheater == {t1, t2}
MCOneTheater == {t1}

\* The batches are interchangeable.
MCSymmetry == Permutations(MCBatch)

Dto(ths, sts, dur) == [movie |-> m1, theaters |-> ths, starts |-> sts, duration |-> dur]

\* One request sent twice, with two showtimes, so that an insertion may be
\* interrupted half-way.
MCFaultDtos == {Dto(<<t1>>, <<0, 2>>, 1)}

\* Requests that share one theater of two, that share a start, that begin within
\* or lie outside another's window, that list their starts out of order, and
\* that name a theater twice.
MCDtos == {Dto(<<t1, t2>>, <<0>>, 2), Dto(<<t1>>, <<0, 3, 3>>, 1), Dto(<<t2>>, <<1>>, 1),
           Dto(<<t2>>, <<1, 0>>, 1), Dto(<<t1, t1>>, <<0>>, 1)}
=============================================================================
