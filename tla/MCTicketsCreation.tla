------------------------- MODULE MCTicketsCreation -------------------------
(* Small instances of the registration pipeline for TLC.  *)
EXTENDS TicketsCreation, TLC

CONSTANTS b1, m1, t1, t2, x1, x2

MCOneBatch == {b1}
MCMovie == {m1}
MCTheater == {t1, t2}
MCOneTheater == {t1}
MCSeat == {x1, x2}

\* The seats of the theaters, for the instances with two theaters or one.
MCSeatEach == [t \in {t1, t2} |-> {x1}]
MCSeatsOfOne == [t \in {t1} |-> {x1, x2}]
MCSingleSeat == [t \in {t1} |-> {x1}]

Dto(ths, sts, dur) == [movie |-> m1, theaters |-> ths, starts |-> sts, duration |-> dur]

\* Two showtimes, one in each theater.
MCTwoTheaters == {Dto(<<t1, t2>>, <<0>>, 1)}

\* One showtime.
MCSmallDtos == {Dto(<<t1>>, <<0>>, 1)}
=============================================================================
