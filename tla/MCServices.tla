----------------------------- MODULE MCServices -----------------------------
(***************************************************************************)
(* Components that share no state, side by side: three of the services and *)
(* the three of MCCommon.  `part' is fixed in the initial state and says   *)
(* which one runs.                                                         *)
(***************************************************************************)
EXTENDS Showing, Accounts, Catalog, MCCommon

CONSTANTS p1, p2, c1, t1, t2, s1, s2, s3, m1, m2, ta, tb, q1, genreG, genreH,
          e1, e2, e3, g1, g2, g3, th, mv, x, y

VARIABLE part

(* Showing: two tickets of two showtimes of one movie, bought by one customer. *)
MCPayment == {p1, p2}
MCCustomer == {c1}
MCTicket == {t1, t2}
MCPurchases == {[customer |-> c1, tickets |-> {t1, t2}]}
MCShowtime == {s1, s2, s3}
MCMovie == {m1, m2}
MCTheater == {ta, tb}
MCShowtimeOf == (t1 :> s1) @@ (t2 :> s2)
MCMovieOf == (s1 :> m1) @@ (s2 :> m1) @@ (s3 :> m2)
MCTheaterOf == (s1 :> ta) @@ (s2 :> tb) @@ (s3 :> ta)
MCStartOf == (s1 :> 0) @@ (s2 :> 3) @@ (s3 :> 1)
MCFirstShowtimes == {s1, s3}
MCGenresOf == (m1 :> {genreG}) @@ (m2 :> {genreG, genreH})
MCDistance == (ta :> 1) @@ (tb :> 1)
MCQuery == {q1}
MCQueryRequest ==
    {[kind |-> "recommend", customer |-> c1],
     [kind |-> "theaters", movie |-> m1],
     [kind |-> "showtimes", movie |-> m1, theater |-> ta, date |-> 0],
     [kind |-> "showdates", movie |-> m1, theater |-> ta],
     [kind |-> "tickets", showtime |-> s1]}

\* What happens after the queries have ended is of no interest.
MCShowingNext == (\E q \in Query : stage[q] \in {"none"} \cup QueryRunning) /\ ShowingNext

(* Accounts: two customers, one of them logged in, and two more calls. *)
MCEmail == {e1, e2, e3}

(* Catalog: three calls about a theater to be created and a movie. *)
MCEdit == {g1, g2, g3}
MCTheaterDoc == {th}
MCMovieDoc == {mv}
MCValue == {x, y, Falsy}
MCFirstMovie == [f \in MovieFields |-> x]
MCCreateDto == [f \in TheaterFields |-> x]
MCUpdateDtos ==
    {"name" :> y, "name" :> Falsy @@ "seatmap" :> y, "title" :> y, "plot" :> y @@ "rating" :> x}

----------------------------------------------------------------------------

servicesVars == <<vars, showingVars, accountsVars, editVars>>

PartsInit ==
    /\ part \in {"showing", "accounts", "catalog", "typeorm", "paging", "transfer"}
    /\ ShowingInit
    /\ AccountsInit
    /\ CatalogInit
    /\ LibraryInit
    /\ part # "accounts" => uniqueIndex

ServicesNext ==
    \/ part = "showing" /\ MCShowingNext /\ UNCHANGED <<accountsVars, editVars>>
    \/ part = "accounts" /\ AccountsNext /\ UNCHANGED <<vars, showingVars, editVars>>
    \/ part = "catalog" /\ CatalogNext /\ UNCHANGED <<vars, showingVars, accountsVars>>

PartsNext ==
    /\ \/ ServicesNext /\ UNCHANGED libraryVars
       \/ LibraryNext(part) /\ UNCHANGED servicesVars
    /\ UNCHANGED part

PartsSpec == PartsInit /\ [][PartsNext]_<<part, servicesVars, libraryVars>>
=============================================================================
