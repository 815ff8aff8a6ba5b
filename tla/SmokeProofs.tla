------------------------------ MODULE SmokeProofs ------------------------------
(***************************************************************************)
(* The smoke test fails for a reason: what each line of its script asks of *)
(* the server, for any members, and that no step of another caller, nor an *)
(* answer to an earlier line, makes one of them fail.                      *)
(***************************************************************************)
EXTENDS Smoke, RequestProofs

-----------------------------------------------------------------------------
(* What a line of the script asks                                          *)

\* The request r is for the method m with the message x, which stands for the one
\* service call s on the smoke test's leaderboard.
Leads(r, m, x, s) ==
    /\ Stands(r.path) /\ MethodsFor(r.verb, r.path) = {m}
    /\ x = Request(m, r.path, r.query, r.body) /\ x \in RequestOf[m]
    /\ ~LacksBody(m, x) /\ ~Refused(m, x)
    /\ ServiceCalls(m, x) = <<s>> /\ s.leaderboard = SmokeBoard

Full(b) == \A m \in PublicIDs : m \in Entries(b)

\* It has no error while every member is there.
ReadsWell(s) == s.service \in Reads /\ \A b : Full(b) => ReadError(b, s) = "none"

Removals == {"RemoveMembers", "RemoveLeaderboard"}

Adds(s, n) ==
    \E v \in Int : s = SetScores(SmokeBoard, <<[PublicID |-> n, Score |-> v]>>, FALSE)

AsksToRead(r) == \E m, x, s : Leads(r, m, x, s) /\ ReadsWell(s)
AsksToAdd(r, n) == \E m, x, s : Leads(r, m, x, s) /\ Adds(s, n)
AsksToRemove(r) == \E m, x, s : Leads(r, m, x, s) /\ s.service \in Removals

LEMMA FiveSegments ==
    ASSUME NEW a, NEW b, NEW d, NEW e, NEW f
    PROVE  <<a, b, d, e>> \o <<f>> = <<a, b, d, e, f>>
  <1> DEFINE S == {a, b, d, e, f}
             s == <<a, b, d, e>>
             t == <<f>>
             u == <<a, b, d, e, f>>
  <1>1. s \in Seq(S) /\ t \in Seq(S) /\ u \in Seq(S)
    OBVIOUS
  <1>2. /\ Len(s) = 4 /\ Len(t) = 1 /\ Len(u) = 5 /\ t[1] = f /\ u[5] = f
        /\ s[1] = u[1] /\ s[2] = u[2] /\ s[3] = u[3] /\ s[4] = u[4]
    OBVIOUS
  <1> HIDE DEF S, s, t, u
  <1>3. /\ s \o t \in Seq(S) /\ Len(s \o t) = Len(s) + Len(t)
        /\ \A i \in 1 .. Len(s) + Len(t) :
              (s \o t)[i] = IF i <= Len(s) THEN s[i] ELSE t[i - Len(s)]
    BY <1>1, ConcatProperties
  <1>4. Len(s \o t) = Len(u)
    BY <1>2, <1>3
  <1>5. \A i \in 1 .. Len(s \o t) : (s \o t)[i] = u[i]
    BY <1>2, <1>3
  <1>6. s \o t = u
    BY <1>1, <1>3, <1>4, <1>5, SeqEqual
  <1> QED BY <1>6 DEF s, t, u

\* The names in a path.
LEMMA ScriptNames ==
    /\ SmokeBoard \in STRING /\ ~Empty(SmokeBoard)
    /\ \A i \in DOMAIN MemberNames :
          MemberNames[i] \in STRING /\ ~Empty(MemberNames[i]) /\ MemberNames[i] \in PublicIDs
  <1>1. \A i \in DOMAIN MemberNames : MemberNames[i] \in STRING
    BY MemberNamesAssumption
  <1> QED BY <1>1, SmokeAssumption, ScriptAssumption DEF PublicIDs

LEMMA SmallNumbers == 0 \in Int32 /\ 1 \in Int32 /\ 5 \in Int32
  <1>1. MaxInt32 \in Nat /\ MaxInt32 >= 5
    BY SMT DEF MaxInt32
  <1> QED BY <1>1 DEF Int32

\* A request for a member's path of four segments, or five.
LEMMA OfMemberIs ==
    ASSUME NEW verb, NEW n, NEW e
    PROVE  /\ OfMember(verb, n, <<>>)
                = Send(verb, <<"l", SmokeBoard, "members", n>>, NoQuery, Nil)
           /\ OfMember(verb, n, <<e>>)
                = Send(verb, <<"l", SmokeBoard, "members", n, e>>, NoQuery, Nil)
  <1>1. <<"l", SmokeBoard, "members", n>> \in Seq({"l", SmokeBoard, "members", n})
    OBVIOUS
  <1>2. <<"l", SmokeBoard, "members", n>> \o <<>> = <<"l", SmokeBoard, "members", n>>
    BY <1>1, ConcatEmptySeq
  <1>3. <<"l", SmokeBoard, "members", n>> \o <<e>> = <<"l", SmokeBoard, "members", n, e>>
    BY FiveSegments
  <1> QED BY <1>2, <1>3 DEF OfMember, Plain

LEMMA AddMemberScoreAdds ==
    ASSUME NEW i \in DOMAIN MemberNames
    PROVE  AsksToAdd(AddMemberScore[i], MemberNames[i])
  <1> DEFINE n == MemberNames[i]
             v == Len(MemberNames) - (i - 1)
             p == <<"l", SmokeBoard, "members", n, "score">>
             q == NoQuery
             b == [Score |-> 2 * v]
             r == AddMemberScore[i]
             x == Request_UpsertScore(p, q, b)
             s == SetScores(SmokeBoard, <<[PublicID |-> n, Score |-> v]>>, FALSE)
  <1>1. v \in Int
    BY MemberNamesAssumption, LenProperties
  <1>2. /\ Stands(p) /\ Len(p) = 5 /\ p[1] = "l" /\ p[2] = SmokeBoard /\ p[3] = "members"
        /\ p[4] = n /\ p[5] = "score"
    BY PathOfFive, FullSegments, ScriptNames
  <1>3. r = Send("PUT", p, q, b)
    <2>1. OfMember("PUT", n, <<"score">>) = Send("PUT", p, q, Nil)
      BY OfMemberIs
    <2>2. r = [OfMember("PUT", n, <<"score">>) EXCEPT !.body = b]
      BY DEF AddMemberScore
    <2> HIDE DEF p, q, b, r
    <2> QED BY <2>1, <2>2 DEF Send
  <1>4. Request("UpsertScore", p, q, b) = x
    BY DEF Request
  <1>5. Asked(q, "prevRank", FALSE) = FALSE /\ Asked(q, "scoreTTL", 0) = 0
    BY NothingInQuery
  <1>6. b \in ScoreChange /\ b # Nil /\ b.Score = 2 * v
    BY <1>1, NilIsNoBody DEF ScoreChange, Double
  <1> HIDE DEF p, q, b, v, r
  <1>7. MethodsFor("PUT", p) = {"UpsertScore"}
    BY <1>2, RoutesOf
  <1>8. x = [LeaderboardId |-> SmokeBoard, MemberPublicId |-> n, ScoreChange |-> b,
             PrevRank |-> FALSE, ScoreTTL |-> 0]
    BY <1>2, <1>5 DEF Request_UpsertScore
  <1> HIDE DEF x
  <1>9. x \in RequestOf["UpsertScore"]
    BY <1>6, <1>8, ScriptNames, SmallNumbers DEF RequestOf, UpsertScoreRequest, Optional
  <1>10. ~LacksBody("UpsertScore", x) /\ ~Refused("UpsertScore", x)
    BY <1>6, <1>8 DEF LacksBody, BodyField, Refused
  <1>11. Int64(2 * v) = v
    BY <1>1, HalfOfDouble
  <1>12. ServiceCalls("UpsertScore", x) = <<s>>
    BY <1>6, <1>8, <1>11 DEF ServiceCalls
  <1>13. s.leaderboard = SmokeBoard
    BY DEF SetScores
  <1>14. Adds(s, n)
    BY <1>1 DEF Adds
  <1> HIDE DEF s
  <1>15. Leads(r, "UpsertScore", x, s)
    BY <1>2, <1>3, <1>4, <1>7, <1>9, <1>10, <1>12, <1>13 DEF Leads, Send
  <1> QED BY <1>14, <1>15 DEF AsksToAdd, r, n

\* What a line is answered with if nothing is missing.
LEMMA ReadsOneMember ==
    ASSUME NEW service \in {"GetMember", "GetRank"}, NEW n \in PublicIDs, NEW order
    PROVE  LET s == Lookup(service, SmokeBoard, <<n>>, order)
           IN  s.leaderboard = SmokeBoard /\ ReadsWell(s)
  <1> DEFINE s == Lookup(service, SmokeBoard, <<n>>, order)
  <1>1. s.service = service /\ s.leaderboard = SmokeBoard /\ s.members[1] = n
    BY DEF Lookup
  <1> HIDE DEF s
  <1>2. \A b : Full(b) => ReadError(b, s) = "none"
    BY <1>1 DEF Full, ReadError
  <1>3. ReadsWell(s)
    BY <1>1, <1>2 DEF ReadsWell, Reads
  <1> QED BY <1>1, <1>3 DEF s

LEMMA SmokeGetMemberReads ==
    ASSUME NEW i \in DOMAIN MemberNames
    PROVE  AsksToRead(SmokeGetMember[i])
  <1> DEFINE n == MemberNames[i]
             p == <<"l", SmokeBoard, "members", n>>
             q == NoQuery
             b == Nil
             r == SmokeGetMember[i]
             x == Request_GetMember(p, q, b)
             s == Lookup("GetMember", SmokeBoard, <<n>>, NoText)
  <1>1. /\ Stands(p) /\ Len(p) = 4 /\ p[1] = "l" /\ p[2] = SmokeBoard /\ p[3] = "members"
        /\ p[4] = n
    BY PathOfFour, FullSegments, ScriptNames
  <1>2. r = Send("GET", p, q, b)
    BY OfMemberIs DEF SmokeGetMember
  <1>3. Request("GetMember", p, q, b) = x
    BY DEF Request
  <1>4. Asked(q, "order", "") = NoText /\ Asked(q, "scoreTTL", FALSE) = FALSE
    BY NothingInQuery DEF NoText
  <1> HIDE DEF p, q, b, r
  <1>5. MethodsFor("GET", p) = {"GetMember"}
    BY <1>1, RoutesOf
  <1>6. x = [LeaderboardId |-> SmokeBoard, MemberPublicId |-> n, Order |-> NoText,
             ScoreTTL |-> FALSE]
    BY <1>1, <1>4 DEF Request_GetMember
  <1> HIDE DEF x
  <1>7. x \in RequestOf["GetMember"]
    BY <1>6, ScriptNames, NoTextIsText DEF RequestOf, GetMemberRequest
  <1>8. ~LacksBody("GetMember", x) /\ ~Refused("GetMember", x)
    BY DEF LacksBody, BodyField, Refused
  <1>9. ServiceCalls("GetMember", x) = <<s>>
    BY <1>6 DEF ServiceCalls
  <1>10. s.leaderboard = SmokeBoard /\ ReadsWell(s)
    BY ReadsOneMember, ScriptNames
  <1> HIDE DEF s
  <1>11. Leads(r, "GetMember", x, s)
    BY <1>1, <1>2, <1>3, <1>5, <1>7, <1>8, <1>9, <1>10 DEF Leads, Send
  <1> QED BY <1>10, <1>11 DEF AsksToRead, r

LEMMA SmokeGetRankReads ==
    ASSUME NEW i \in DOMAIN MemberNames
    PROVE  AsksToRead(SmokeGetRank[i])
  <1> DEFINE n == MemberNames[i]
             p == <<"l", SmokeBoard, "members", n, "rank">>
             q == NoQuery
             b == Nil
             r == SmokeGetRank[i]
             x == Request_GetRank(p, q, b)
             s == Lookup("GetRank", SmokeBoard, <<n>>, NoText)
  <1>1. /\ Stands(p) /\ Len(p) = 5 /\ p[1] = "l" /\ p[2] = SmokeBoard /\ p[3] = "members"
        /\ p[4] = n /\ p[5] = "rank"
    BY PathOfFive, FullSegments, ScriptNames
  <1>2. r = Send("GET", p, q, b)
    BY OfMemberIs DEF SmokeGetRank
  <1>3. Request("GetRank", p, q, b) = x
    BY DEF Request
  <1>4. Asked(q, "order", "") = NoText
    BY NothingInQuery DEF NoText
  <1> HIDE DEF p, q, b, r
  <1>5. MethodsFor("GET", p) = {"GetRank"}
    BY <1>1, RoutesOf
  <1>6. x = [LeaderboardId |-> SmokeBoard, MemberPublicId |-> n, Order |-> NoText]
    BY <1>1, <1>4 DEF Request_GetRank
  <1> HIDE DEF x
  <1>7. x \in RequestOf["GetRank"]
    BY <1>6, ScriptNames, NoTextIsText DEF RequestOf, GetRankRequest
  <1>8. ~LacksBody("GetRank", x) /\ ~Refused("GetRank", x)
    BY DEF LacksBody, BodyField, Refused
  <1>9. ServiceCalls("GetRank", x) = <<s>>
    BY <1>6 DEF ServiceCalls
  <1>10. s.leaderboard = SmokeBoard /\ ReadsWell(s)
    BY ReadsOneMember, ScriptNames
  <1> HIDE DEF s
  <1>11. Leads(r, "GetRank", x, s)
    BY <1>1, <1>2, <1>3, <1>5, <1>7, <1>8, <1>9, <1>10 DEF Leads, Send
  <1> QED BY <1>10, <1>11 DEF AsksToRead, r

LEMMA SmokeGetAroundReads ==
    ASSUME NEW i \in DOMAIN MemberNames
    PROVE  AsksToRead(SmokeGetAround[i])
  <1> DEFINE n == MemberNames[i]
             p == <<"l", SmokeBoard, "members", n, "around">>
             q == NoQuery
             b == Nil
             r == SmokeGetAround[i]
             x == Request_GetAroundMember(p, q, b)
             s == AroundMember(x)
  <1>1. /\ Stands(p) /\ Len(p) = 5 /\ p[1] = "l" /\ p[2] = SmokeBoard /\ p[3] = "members"
        /\ p[4] = n /\ p[5] = "around"
    BY PathOfFive, FullSegments, ScriptNames
  <1>2. r = Send("GET", p, q, b)
    BY OfMemberIs DEF SmokeGetAround
  <1>3. Request("GetAroundMember", p, q, b) = x
    BY DEF Request
  <1>4. /\ Asked(q, "order", "") = NoText /\ Asked(q, "getLastIfNotFound", FALSE) = FALSE
        /\ Asked(q, "pageSize", 0) = 0
    BY NothingInQuery DEF NoText
  <1> HIDE DEF p, q, b, r
  <1>5. MethodsFor("GET", p) = {"GetAroundMember"}
    BY <1>1, RoutesOf
  <1>6. x = [LeaderboardId |-> SmokeBoard, MemberPublicId |-> n, Order |-> NoText,
             GetLastIfNotFound |-> FALSE, PageSize |-> 0]
    BY <1>1, <1>4 DEF Request_GetAroundMember
  <1> HIDE DEF x
  <1>7. x \in RequestOf["GetAroundMember"]
    BY <1>6, ScriptNames, NoTextIsText, SmallNumbers DEF RequestOf, GetAroundMemberRequest
  <1>8. ~LacksBody("GetAroundMember", x) /\ ~Refused("GetAroundMember", x)
    BY <1>6, ScriptAssumption, DefaultPageSizeAssumption, MaxReturnedMembersAssumption
    DEF LacksBody, BodyField, Refused, PageTooLarge, GetPageSize
  <1>9. ServiceCalls("GetAroundMember", x) = <<s>>
    BY DEF ServiceCalls
  <1>10. s.leaderboard = SmokeBoard /\ s.service = "GetAroundMe" /\ s.member = n
    BY <1>6 DEF AroundMember
  <1> HIDE DEF s
  <1>11. \A f : Full(f) => ReadError(f, s) = "none"
    BY <1>10, ScriptNames DEF Full, ReadError
  <1>12. Leads(r, "GetAroundMember", x, s)
    BY <1>1, <1>2, <1>3, <1>5, <1>7, <1>8, <1>9, <1>10 DEF Leads, Send
  <1>13. ReadsWell(s)
    BY <1>10, <1>11 DEF ReadsWell, Reads
  <1> QED BY <1>12, <1>13 DEF AsksToRead, r

LEMMA SmokeGetMembersReads == AsksToRead(SmokeGetMembers)
  <1> DEFINE p == <<"l", SmokeBoard, "members">>
             q == [ids |-> MemberNames]
             b == Nil
             r == SmokeGetMembers
             x == Request_GetMembers(p, q, b)
             s == Lookup("GetMembers", SmokeBoard, MemberNames, NoText)
  <1>1. Stands(p) /\ Len(p) = 3 /\ p[1] = "l" /\ p[2] = SmokeBoard /\ p[3] = "members"
    BY PathOfThree, FullSegments, ScriptNames
  <1>2. r = Send("GET", p, q, b)
    BY DEF SmokeGetMembers
  <1>3. Request("GetMembers", p, q, b) = x
    BY DEF Request
  <1>4. /\ Asked(q, "order", "") = NoText /\ Asked(q, "scoreTTL", FALSE) = FALSE
        /\ Asked(q, "ids", <<>>) = MemberNames
    BY DEF Asked, NoText
  <1> HIDE DEF p, q, b, r
  <1>5. MethodsFor("GET", p) = {"GetMembers"}
    BY <1>1, RoutesOf
  <1>6. x = [LeaderboardId |-> SmokeBoard, Order |-> NoText, ScoreTTL |-> FALSE,
             Ids |-> MemberNames]
    BY <1>1, <1>4 DEF Request_GetMembers
  <1> HIDE DEF x
  <1>7. x \in RequestOf["GetMembers"]
    BY <1>6, ScriptNames, NoTextIsText, MemberNamesAssumption
    DEF RequestOf, GetMembersRequest, Names
  <1>8. ~LacksBody("GetMembers", x) /\ ~Refused("GetMembers", x)
    BY <1>6, ScriptAssumption DEF LacksBody, BodyField, Refused
  <1>9. ServiceCalls("GetMembers", x) = <<s>>
    BY <1>6 DEF ServiceCalls
  <1>10. s.leaderboard = SmokeBoard /\ s.service = "GetMembers"
    BY DEF Lookup
  <1> HIDE DEF s
  <1>11. ReadsWell(s)
    BY <1>10 DEF ReadsWell, Reads, ReadError
  <1>12. Leads(r, "GetMembers", x, s)
    BY <1>1, <1>2, <1>3, <1>5, <1>7, <1>8, <1>9, <1>10 DEF Leads, Send
  <1> QED BY <1>11, <1>12 DEF AsksToRead, r

LEMMA GetNumberOfMembersReads == AsksToRead(GetNumberOfMembers)
  <1> DEFINE p == <<"l", SmokeBoard, "members-count">>
             q == NoQuery
             b == Nil
             r == GetNumberOfMembers
             x == Request_TotalMembers(p, q, b)
             s == [service |-> "TotalMembers", leaderboard |-> SmokeBoard]
  <1>1. Stands(p) /\ Len(p) = 3 /\ p[1] = "l" /\ p[2] = SmokeBoard /\ p[3] = "members-count"
    BY PathOfThree, FullSegments, ScriptNames
  <1>2. r = Send("GET", p, q, b)
    BY DEF GetNumberOfMembers, Plain
  <1>3. Request("TotalMembers", p, q, b) = x
    BY DEF Request
  <1> HIDE DEF p, q, b, r
  <1>4. MethodsFor("GET", p) = {"TotalMembers"}
    BY <1>1, RoutesOf
  <1>5. x = [LeaderboardId |-> SmokeBoard]
    BY <1>1 DEF Request_TotalMembers
  <1> HIDE DEF x
  <1>6. x \in RequestOf["TotalMembers"]
    BY <1>5, ScriptNames DEF RequestOf, TotalMembersRequest
  <1>7. ~LacksBody("TotalMembers", x) /\ ~Refused("TotalMembers", x)
    BY DEF LacksBody, BodyField, Refused
  <1>8. ServiceCalls("TotalMembers", x) = <<s>>
    BY <1>5 DEF ServiceCalls
  <1>9. s.leaderboard = SmokeBoard /\ s.service = "TotalMembers"
    OBVIOUS
  <1> HIDE DEF s
  <1>10. ReadsWell(s)
    BY <1>9 DEF ReadsWell, Reads, ReadError
  <1>11. Leads(r, "TotalMembers", x, s)
    BY <1>1, <1>2, <1>3, <1>4, <1>6, <1>7, <1>8, <1>9 DEF Leads, Send
  <1> QED BY <1>10, <1>11 DEF AsksToRead, r

LEMMA SmokeGetTopMembersReads == AsksToRead(SmokeGetTopMembers)
  <1> DEFINE p == <<"l", SmokeBoard, "top", Digits[1]>>
             q == [pageSize |-> DefaultPageSize]
             b == Nil
             r == SmokeGetTopMembers
             x == Request_GetTopMembers(p, q, b)
             s == Page(x)
  <1>1. /\ Stands(p) /\ Len(p) = 4 /\ p[1] = "l" /\ p[2] = SmokeBoard /\ p[3] = "top"
        /\ p[4] = Digits[1]
    BY PathOfFour, FullSegments, ScriptNames, ScriptAssumption
  <1>2. r = Send("GET", p, q, b)
    BY DEF SmokeGetTopMembers
  <1>3. Request("GetTopMembers", p, q, b) = x
    BY DEF Request
  <1>4. Asked(q, "order", "") = NoText /\ Asked(q, "pageSize", 0) = DefaultPageSize
    BY DEF Asked, NoText
  <1>5. Number(Digits[1]) = 1
    BY NumberOfDigits, ScriptAssumption
  <1> HIDE DEF p, q, b, r
  <1>6. MethodsFor("GET", p) = {"GetTopMembers"}
    BY <1>1, RoutesOf
  <1>7. x = [LeaderboardId |-> SmokeBoard, PageNumber |-> 1, Order |-> NoText,
             PageSize |-> DefaultPageSize]
    BY <1>1, <1>4, <1>5 DEF Request_GetTopMembers
  <1> HIDE DEF x
  <1>8. x \in RequestOf["GetTopMembers"]
    BY <1>7, ScriptNames, ScriptAssumption, NoTextIsText, SmallNumbers
    DEF RequestOf, GetTopMembersRequest
  <1>9. ~LacksBody("GetTopMembers", x) /\ ~Refused("GetTopMembers", x)
    BY <1>7, ScriptAssumption, DefaultPageSizeAssumption, MaxReturnedMembersAssumption
    DEF LacksBody, BodyField, Refused, PageTooLarge, GetPageSize
  <1>10. ServiceCalls("GetTopMembers", x) = <<s>>
    BY DEF ServiceCalls
  <1>11. s.leaderboard = SmokeBoard /\ s.service = "GetLeaders"
    BY <1>7 DEF Page
  <1> HIDE DEF s
  <1>12. ReadsWell(s)
    BY <1>11 DEF ReadsWell, Reads, ReadError
  <1>13. Leads(r, "GetTopMembers", x, s)
    BY <1>1, <1>2, <1>3, <1>6, <1>8, <1>9, <1>10, <1>11 DEF Leads, Send
  <1> QED BY <1>12, <1>13 DEF AsksToRead, r

LEMMA SmokeGetTopPercentageReads == AsksToRead(SmokeGetTopPercentage)
  <1> DEFINE p == <<"l", SmokeBoard, "top-percent", Digits[5]>>
             q == NoQuery
             b == Nil
             r == SmokeGetTopPercentage
             x == Request_GetTopPercentage(p, q, b)
             s == Percentage(x)
  <1>1. /\ Stands(p) /\ Len(p) = 4 /\ p[1] = "l" /\ p[2] = SmokeBoard
        /\ p[3] = "top-percent" /\ p[4] = Digits[5]
    BY PathOfFour, FullSegments, ScriptNames, ScriptAssumption
  <1>2. r = Send("GET", p, q, b)
    BY DEF SmokeGetTopPercentage, Plain
  <1>3. Request("GetTopPercentage", p, q, b) = x
    BY DEF Request
  <1>4. Asked(q, "order", "") = NoText
    BY NothingInQuery DEF NoText
  <1>5. Number(Digits[5]) = 5
    BY NumberOfDigits, ScriptAssumption
  <1> HIDE DEF p, q, b, r
  <1>6. MethodsFor("GET", p) = {"GetTopPercentage"}
    BY <1>1, RoutesOf
  <1>7. x = [LeaderboardId |-> SmokeBoard, Percentage |-> 5, Order |-> NoText]
    BY <1>1, <1>4, <1>5 DEF Request_GetTopPercentage
  <1> HIDE DEF x
  <1>8. x \in RequestOf["GetTopPercentage"]
    BY <1>7, ScriptNames, NoTextIsText, SmallNumbers DEF RequestOf, GetTopPercentageRequest
  <1>9. ~LacksBody("GetTopPercentage", x) /\ ~Refused("GetTopPercentage", x)
    BY <1>7 DEF LacksBody, BodyField, Refused
  <1>10. ServiceCalls("GetTopPercentage", x) = <<s>>
    BY DEF ServiceCalls
  <1>11. s.leaderboard = SmokeBoard /\ s.service = "GetTopPercentage" /\ s.percentage = 5
    BY <1>7 DEF Percentage
  <1> HIDE DEF s
  <1>12. ReadsWell(s)
    BY <1>11 DEF ReadsWell, Reads, ReadError
  <1>13. Leads(r, "GetTopPercentage", x, s)
    BY <1>1, <1>2, <1>3, <1>6, <1>8, <1>9, <1>10, <1>11 DEF Leads, Send
  <1> QED BY <1>12, <1>13 DEF AsksToRead, r

LEMMA SmokeRemoveMemberRemoves ==
    ASSUME NEW i \in DOMAIN MemberNames
    PROVE  AsksToRemove(SmokeRemoveMember[i])
  <1> DEFINE n == MemberNames[i]
             p == <<"l", SmokeBoard, "members", n>>
             q == NoQuery
             b == Nil
             r == SmokeRemoveMember[i]
             x == Request_RemoveMember(p, q, b)
             s == RemoveFrom(SmokeBoard, <<n>>)
  <1>1. /\ Stands(p) /\ Len(p) = 4 /\ p[1] = "l" /\ p[2] = SmokeBoard /\ p[3] = "members"
        /\ p[4] = n
    BY PathOfFour, FullSegments, ScriptNames
  <1>2. r = Send("DELETE", p, q, b)
    BY OfMemberIs DEF SmokeRemoveMember
  <1>3. Request("RemoveMember", p, q, b) = x
    BY DEF Request
  <1> HIDE DEF p, q, b, r
  <1>4. MethodsFor("DELETE", p) = {"RemoveMember"}
    BY <1>1, RoutesOf
  <1>5. x = [LeaderboardId |-> SmokeBoard, MemberPublicId |-> n]
    BY <1>1 DEF Request_RemoveMember
  <1> HIDE DEF x
  <1>6. x \in RequestOf["RemoveMember"]
    BY <1>5, ScriptNames DEF RequestOf, RemoveMemberRequest
  <1>7. ~LacksBody("RemoveMember", x) /\ ~Refused("RemoveMember", x)
    BY DEF LacksBody, BodyField, Refused
  <1>8. ServiceCalls("RemoveMember", x) = <<s>>
    BY <1>5 DEF ServiceCalls
  <1>9. s.leaderboard = SmokeBoard /\ s.service \in Removals
    BY DEF RemoveFrom, Removals
  <1> HIDE DEF s
  <1>10. Leads(r, "RemoveMember", x, s)
    BY <1>1, <1>2, <1>3, <1>4, <1>6, <1>7, <1>8, <1>9 DEF Leads, Send
  <1> QED BY <1>9, <1>10 DEF AsksToRemove, r

LEMMA SmokeRemoveLeaderboardRemoves == AsksToRemove(SmokeRemoveLeaderboard)
  <1> DEFINE p == <<"l", SmokeBoard>>
             q == NoQuery
             b == Nil
             r == SmokeRemoveLeaderboard
             x == Request_RemoveLeaderboard(p, q, b)
             s == [service |-> "RemoveLeaderboard", leaderboard |-> SmokeBoard]
  <1>1. Stands(p) /\ Len(p) = 2 /\ p[1] = "l" /\ p[2] = SmokeBoard
    BY PathOfTwo, FullSegments, ScriptNames
  <1>2. r = Send("DELETE", p, q, b)
    BY DEF SmokeRemoveLeaderboard, Plain
  <1>3. Request("RemoveLeaderboard", p, q, b) = x
    BY DEF Request
  <1> HIDE DEF p, q, b, r
  <1>4. MethodsFor("DELETE", p) = {"RemoveLeaderboard"}
    BY <1>1, RoutesOf
  <1>5. x = [LeaderboardId |-> SmokeBoard]
    BY <1>1 DEF Request_RemoveLeaderboard
  <1> HIDE DEF x
  <1>6. x \in RequestOf["RemoveLeaderboard"]
    BY <1>5, ScriptNames DEF RequestOf, RemoveLeaderboardRequest
  <1>7. ~LacksBody("RemoveLeaderboard", x) /\ ~Refused("RemoveLeaderboard", x)
    BY DEF LacksBody, BodyField, Refused
  <1>8. ServiceCalls("RemoveLeaderboard", x) = <<s>>
    BY <1>5 DEF ServiceCalls
  <1>9. s.leaderboard = SmokeBoard /\ s.service \in Removals
    BY DEF Removals
  <1> HIDE DEF s
  <1>10. Leads(r, "RemoveLeaderboard", x, s)
    BY <1>1, <1>2, <1>3, <1>4, <1>6, <1>7, <1>8, <1>9 DEF Leads, Send
  <1> QED BY <1>9, <1>10 DEF AsksToRemove, r

-----------------------------------------------------------------------------
(* The script                                                              *)

N == Len(MemberNames)

Lines ==
    {DoHealthCheck, SmokeGetMembers, GetNumberOfMembers, SmokeGetTopMembers,
     SmokeGetTopPercentage, SmokeRemoveLeaderboard}
    \cup {AddMemberScore[i] : i \in DOMAIN MemberNames}
    \cup {SmokeGetMember[i] : i \in DOMAIN MemberNames}
    \cup {SmokeGetRank[i] : i \in DOMAIN MemberNames}
    \cup {SmokeGetAround[i] : i \in DOMAIN MemberNames}
    \cup {SmokeRemoveMember[i] : i \in DOMAIN MemberNames}

\* The beginning of the script, as far as it reads.
Begins(p) ==
    /\ p \in Seq(Lines) /\ Len(p) > N /\ p[1] = DoHealthCheck
    /\ \A k \in 2 .. N + 1 : AsksToAdd(p[k], MemberNames[k - 1])
    /\ \A k \in N + 2 .. Len(p) : AsksToRead(p[k])

LEMMA NumberOfNames == N \in Nat /\ N > 0 /\ DOMAIN MemberNames = 1 .. N
  <1>1. N \in Nat /\ DOMAIN MemberNames = 1 .. N
    BY MemberNamesAssumption, LenProperties DEF N
  <1>2. N # 0
    BY <1>1, MemberNamesAssumption, ScriptAssumption, EmptySeq DEF N
  <1> QED BY <1>1, <1>2

LEMMA LinesOfMembers ==
    ASSUME NEW f, f = [i \in DOMAIN MemberNames |-> f[i]],
           \A i \in DOMAIN MemberNames : f[i] \in Lines
    PROVE  f \in Seq(Lines) /\ Len(f) = N
  <1>1. \A i \in 1 .. N : f[i] \in Lines
    BY NumberOfNames
  <1>2. f = [i \in 1 .. N |-> f[i]]
    BY NumberOfNames
  <1> HIDE DEF N
  <1> QED BY <1>1, <1>2, NumberOfNames

LEMMA Joined ==
    ASSUME NEW S, NEW p \in Seq(S), NEW x \in Seq(S), NEW q, q = p \o x
    PROVE  /\ q \in Seq(S) /\ Len(q) = Len(p) + Len(x)
           /\ \A i \in 1 .. Len(p) + Len(x) :
                 q[i] = IF i <= Len(p) THEN p[i] ELSE x[i - Len(p)]
  BY ConcatProperties, LenProperties

LEMMA GoesOnReading ==
    ASSUME NEW p, Begins(p), NEW x \in Seq(Lines), \A i \in 1 .. Len(x) : AsksToRead(x[i])
    PROVE  Begins(p \o x)
  <1>1. p \in Seq(Lines) /\ Len(p) \in Nat /\ Len(x) \in Nat /\ N \in Nat /\ Len(p) > N
    BY LenProperties, NumberOfNames DEF Begins
  <1>2. /\ p \o x \in Seq(Lines) /\ Len(p \o x) = Len(p) + Len(x)
        /\ \A i \in 1 .. Len(p) + Len(x) :
              (p \o x)[i] = IF i <= Len(p) THEN p[i] ELSE x[i - Len(p)]
    BY <1>1, ConcatProperties
  <1> DEFINE q == p \o x
  <1>3. q[1] = DoHealthCheck
    BY <1>1, <1>2 DEF Begins
  <1>4. ASSUME NEW k \in 2 .. N + 1 PROVE AsksToAdd(q[k], MemberNames[k - 1])
    <2>1. q[k] = p[k]
      BY <1>1, <1>2
    <2> QED BY <2>1 DEF Begins
  <1>5. ASSUME NEW k \in N + 2 .. Len(q) PROVE AsksToRead(q[k])
    <2>1. CASE k <= Len(p)
      BY <1>1, <1>2, <2>1 DEF Begins
    <2>2. CASE k > Len(p)
      <3>1. q[k] = x[k - Len(p)] /\ k - Len(p) \in 1 .. Len(x)
        BY <1>1, <1>2, <2>2
      <3> QED BY <3>1
    <2> QED BY <1>1, <1>2, <2>1, <2>2
  <1>6. q \in Seq(Lines) /\ Len(q) > N
    BY <1>1, <1>2
  <1> HIDE DEF q
  <1>7. Begins(q)
    BY <1>3, <1>4, <1>5, <1>6 DEF Begins
  <1> QED BY <1>7 DEF q

\* From this line on the script removes.
FirstRemoval == Len(Script) - N

LEMMA ScriptIs ==
    /\ Len(Script) \in Nat /\ FirstRemoval \in Nat
    /\ N + 1 < FirstRemoval /\ FirstRemoval <= Len(Script)
    /\ Script[1] = DoHealthCheck
    /\ \A k \in 2 .. N + 1 : AsksToAdd(Script[k], MemberNames[k - 1])
    /\ \A k \in N + 2 .. FirstRemoval - 1 : AsksToRead(Script[k])
    /\ \A k \in FirstRemoval .. Len(Script) : AsksToRemove(Script[k])
  <1> USE NumberOfNames
  <1>1. /\ AddMemberScore \in Seq(Lines) /\ Len(AddMemberScore) = N
        /\ SmokeGetMember \in Seq(Lines) /\ Len(SmokeGetMember) = N
        /\ SmokeGetRank \in Seq(Lines) /\ Len(SmokeGetRank) = N
        /\ SmokeGetAround \in Seq(Lines) /\ Len(SmokeGetAround) = N
        /\ SmokeRemoveMember \in Seq(Lines) /\ Len(SmokeRemoveMember) = N
    <2>1. AddMemberScore \in Seq(Lines) /\ Len(AddMemberScore) = N
      <3>1. AddMemberScore = [i \in DOMAIN MemberNames |-> AddMemberScore[i]]
        BY DEF AddMemberScore
      <3>2. \A i \in DOMAIN MemberNames : AddMemberScore[i] \in Lines
        BY DEF Lines
      <3> QED BY <3>1, <3>2, LinesOfMembers
    <2>2. SmokeGetMember \in Seq(Lines) /\ Len(SmokeGetMember) = N
      <3>1. SmokeGetMember = [i \in DOMAIN MemberNames |-> SmokeGetMember[i]]
        BY DEF SmokeGetMember
      <3>2. \A i \in DOMAIN MemberNames : SmokeGetMember[i] \in Lines
        BY DEF Lines
      <3> QED BY <3>1, <3>2, LinesOfMembers
    <2>3. SmokeGetRank \in Seq(Lines) /\ Len(SmokeGetRank) = N
      <3>1. SmokeGetRank = [i \in DOMAIN MemberNames |-> SmokeGetRank[i]]
        BY DEF SmokeGetRank
      <3>2. \A i \in DOMAIN MemberNames : SmokeGetRank[i] \in Lines
        BY DEF Lines
      <3> QED BY <3>1, <3>2, LinesOfMembers
    <2>4. SmokeGetAround \in Seq(Lines) /\ Len(SmokeGetAround) = N
      <3>1. SmokeGetAround = [i \in DOMAIN MemberNames |-> SmokeGetAround[i]]
        BY DEF SmokeGetAround
      <3>2. \A i \in DOMAIN MemberNames : SmokeGetAround[i] \in Lines
        BY DEF Lines
      <3> QED BY <3>1, <3>2, LinesOfMembers
    <2>5. SmokeRemoveMember \in Seq(Lines) /\ Len(SmokeRemoveMember) = N
      <3>1. SmokeRemoveMember = [i \in DOMAIN MemberNames |-> SmokeRemoveMember[i]]
        BY DEF SmokeRemoveMember
      <3>2. \A i \in DOMAIN MemberNames : SmokeRemoveMember[i] \in Lines
        BY DEF Lines
      <3> QED BY <3>1, <3>2, LinesOfMembers
    <2> QED BY <2>1, <2>2, <2>3, <2>4, <2>5
  <1>2. /\ DoHealthCheck \in Lines /\ SmokeGetMembers \in Lines /\ GetNumberOfMembers \in Lines
        /\ SmokeGetTopMembers \in Lines /\ SmokeGetTopPercentage \in Lines
        /\ SmokeRemoveLeaderboard \in Lines
    BY DEF Lines
  <1> HIDE DEF Lines, N
  <1> DEFINE s1 == <<DoHealthCheck>> \o AddMemberScore
             s2 == s1 \o SmokeGetMember
             s3 == s2 \o <<SmokeGetMembers>>
             s4 == s3 \o SmokeGetRank
             s5 == s4 \o SmokeGetAround
             tops == <<GetNumberOfMembers, SmokeGetTopMembers, SmokeGetTopPercentage>>
             s6 == s5 \o tops
             s7 == s6 \o SmokeRemoveMember
             last == <<SmokeRemoveLeaderboard>>
  <1>3. Script = s7 \o last
    BY DEF Script
  <1>4. Begins(s1) /\ Len(s1) = N + 1
    <2> DEFINE h == <<DoHealthCheck>>
    <2>1. h \in Seq(Lines) /\ Len(h) = 1 /\ h[1] = DoHealthCheck
      BY <1>2
    <2> HIDE DEF h
    <2> DEFINE s == h \o AddMemberScore
    <2>a. s = h \o AddMemberScore
      OBVIOUS
    <2> HIDE DEF s
    <2>2. /\ s \in Seq(Lines) /\ Len(s) = 1 + N
          /\ \A i \in 1 .. 1 + N : s[i] = IF i <= 1 THEN h[i] ELSE AddMemberScore[i - 1]
      <3>1. /\ s \in Seq(Lines) /\ Len(s) = Len(h) + Len(AddMemberScore)
            /\ \A i \in 1 .. Len(h) + Len(AddMemberScore) :
                  s[i] = IF i <= Len(h) THEN h[i] ELSE AddMemberScore[i - Len(h)]
        <4>1. h \in Seq(Lines) /\ AddMemberScore \in Seq(Lines)
          BY <1>1, <2>1
        <4> QED BY ONLY <2>a, <4>1, Joined
      <3> QED BY ONLY <1>1, <2>1, <3>1
    <2>3. ASSUME NEW k \in 2 .. N + 1 PROVE AsksToAdd(s[k], MemberNames[k - 1])
      <3>1. k - 1 \in DOMAIN MemberNames /\ s[k] = AddMemberScore[k - 1]
        BY <2>2
      <3> QED BY <3>1, AddMemberScoreAdds
    <2>4. s[1] = DoHealthCheck
      BY <2>1, <2>2
    <2>5. s \in Seq(Lines) /\ Len(s) = N + 1
      BY <2>2
    <2>6. Begins(s)
      BY <2>3, <2>4, <2>5 DEF Begins
    <2> QED BY <2>5, <2>6 DEF s, h
  <1> HIDE DEF s1
  <1>5. Begins(s2)
    <2>1. \A i \in 1 .. Len(SmokeGetMember) : AsksToRead(SmokeGetMember[i])
      BY <1>1, SmokeGetMemberReads
    <2> QED BY <1>1, <1>4, <2>1, GoesOnReading
  <1> HIDE DEF s2
  <1>6. Begins(s3)
    <2> DEFINE x == <<SmokeGetMembers>>
    <2>1. x \in Seq(Lines) /\ Len(x) = 1 /\ x[1] = SmokeGetMembers
      BY <1>2
    <2> HIDE DEF x
    <2>2. \A i \in 1 .. Len(x) : AsksToRead(x[i])
      BY <2>1, SmokeGetMembersReads
    <2>3. Begins(s2 \o x)
      BY <1>5, <2>1, <2>2, GoesOnReading
    <2> QED BY <2>3 DEF x
  <1> HIDE DEF s3
  <1>7. Begins(s4)
    <2>1. \A i \in 1 .. Len(SmokeGetRank) : AsksToRead(SmokeGetRank[i])
      BY <1>1, SmokeGetRankReads
    <2> QED BY <1>1, <1>6, <2>1, GoesOnReading
  <1> HIDE DEF s4
  <1>8. Begins(s5)
    <2>1. \A i \in 1 .. Len(SmokeGetAround) : AsksToRead(SmokeGetAround[i])
      BY <1>1, SmokeGetAroundReads
    <2> QED BY <1>1, <1>7, <2>1, GoesOnReading
  <1> HIDE DEF s5
  <1>9. Begins(s6) /\ Len(s6) > N + 1
    <2>1. tops \in Seq(Lines) /\ Len(tops) = 3 /\ tops[1] = GetNumberOfMembers
          /\ tops[2] = SmokeGetTopMembers /\ tops[3] = SmokeGetTopPercentage
      BY <1>2
    <2> HIDE DEF tops
    <2>2. \A i \in 1 .. Len(tops) : AsksToRead(tops[i])
      BY <2>1, GetNumberOfMembersReads, SmokeGetTopMembersReads, SmokeGetTopPercentageReads
    <2>3. Begins(s6)
      BY <1>8, <2>1, <2>2, GoesOnReading
    <2>4. s5 \in Seq(Lines) /\ Len(s5) > N /\ Len(s5) \in Nat
      BY <1>8, LenProperties DEF Begins
    <2>5. Len(s6) = Len(s5) + 3
      <3>1. s6 = s5 \o tops
        OBVIOUS
      <3> HIDE DEF s6
      <3>2. s5 \in Seq(Lines) /\ tops \in Seq(Lines)
        BY <2>1, <2>4
      <3>3. /\ s6 \in Seq(Lines) /\ Len(s6) = Len(s5) + Len(tops)
            /\ \A i \in 1 .. Len(s5) + Len(tops) :
                  s6[i] = IF i <= Len(s5) THEN s5[i] ELSE tops[i - Len(s5)]
        BY ONLY <3>1, <3>2, Joined
      <3> QED BY ONLY <2>1, <3>3
    <2> QED BY <2>3, <2>4, <2>5
  <1> HIDE DEF s6
  <1>10. s6 \in Seq(Lines) /\ Len(s6) \in Nat
    BY <1>9, LenProperties DEF Begins
  <1>11. /\ s7 \in Seq(Lines) /\ Len(s7) = Len(s6) + N
         /\ \A i \in 1 .. Len(s6) + N :
               s7[i] = IF i <= Len(s6) THEN s6[i] ELSE SmokeRemoveMember[i - Len(s6)]
    <2>1. s7 = s6 \o SmokeRemoveMember
      OBVIOUS
    <2> HIDE DEF s7
    <2>2. /\ s7 \in Seq(Lines) /\ Len(s7) = Len(s6) + Len(SmokeRemoveMember)
          /\ \A i \in 1 .. Len(s6) + Len(SmokeRemoveMember) :
                s7[i] = IF i <= Len(s6) THEN s6[i] ELSE SmokeRemoveMember[i - Len(s6)]
      <3>1. s6 \in Seq(Lines) /\ SmokeRemoveMember \in Seq(Lines)
        BY <1>1, <1>10
      <3> QED BY ONLY <2>1, <3>1, Joined
    <2> QED BY ONLY <1>1, <2>2
  <1> HIDE DEF s7
  <1>12. last \in Seq(Lines) /\ Len(last) = 1 /\ last[1] = SmokeRemoveLeaderboard
    BY <1>2
  <1> HIDE DEF last
  <1>13. /\ Len(Script) = Len(s6) + N + 1
         /\ \A i \in 1 .. Len(s6) + N + 1 :
               Script[i] = IF i <= Len(s6) + N THEN s7[i] ELSE last[i - (Len(s6) + N)]
    <2>1. s7 \in Seq(Lines) /\ Len(s7) = Len(s6) + N
      BY <1>11
    <2>2. /\ Script \in Seq(Lines) /\ Len(Script) = (Len(s6) + N) + 1
          /\ \A i \in 1 .. (Len(s6) + N) + 1 :
                Script[i] = IF i <= Len(s6) + N THEN s7[i] ELSE last[i - (Len(s6) + N)]
      <3>1. /\ Script \in Seq(Lines) /\ Len(Script) = Len(s7) + Len(last)
            /\ \A i \in 1 .. Len(s7) + Len(last) :
                  Script[i] = IF i <= Len(s7) THEN s7[i] ELSE last[i - Len(s7)]
        <4>1. s7 \in Seq(Lines) /\ last \in Seq(Lines)
          BY <1>12, <2>1
        <4> QED BY ONLY <1>3, <4>1, Joined
      <3>2. Len(s7) = Len(s6) + N /\ Len(last) = 1
        BY <1>12, <2>1
      <3> QED BY ONLY <3>1, <3>2
    <2> QED BY <2>2
  <1>14. FirstRemoval = Len(s6) + 1
    BY <1>10, <1>13 DEF FirstRemoval
  <1>15. \A i \in 1 .. Len(s6) : Script[i] = s6[i]
    BY <1>10, <1>11, <1>13
  <1>16. Script[1] = DoHealthCheck
    BY <1>9, <1>10, <1>15 DEF Begins
  <1>17. ASSUME NEW k \in 2 .. N + 1 PROVE AsksToAdd(Script[k], MemberNames[k - 1])
    <2>1. Script[k] = s6[k]
      BY <1>9, <1>10, <1>15
    <2> QED BY <1>9, <2>1 DEF Begins
  <1>18. ASSUME NEW k \in N + 2 .. FirstRemoval - 1 PROVE AsksToRead(Script[k])
    <2>1. k \in N + 2 .. Len(s6) /\ Script[k] = s6[k]
      BY <1>10, <1>14, <1>15
    <2> QED BY <1>9, <2>1 DEF Begins
  <1>19. ASSUME NEW k \in FirstRemoval .. Len(Script) PROVE AsksToRemove(Script[k])
    <2>1. CASE k <= Len(s6) + N
      <3>1. Script[k] = SmokeRemoveMember[k - Len(s6)] /\ k - Len(s6) \in 1 .. N
        BY <1>10, <1>11, <1>13, <1>14, <2>1
      <3> QED BY <3>1, SmokeRemoveMemberRemoves
    <2>2. CASE k > Len(s6) + N
      <3>1. Script[k] = SmokeRemoveLeaderboard
        BY <1>10, <1>12, <1>13, <1>14, <2>2
      <3> QED BY <3>1, SmokeRemoveLeaderboardRemoves
    <2> QED BY <1>10, <1>13, <1>14, <2>1, <2>2
  <1> QED BY <1>9, <1>10, <1>13, <1>14, <1>16, <1>17, <1>18, <1>19

-----------------------------------------------------------------------------
(* The other callers                                                       *)

Getters ==
    {"TotalMembers", "GetMember", "GetMembers", "GetRank", "GetAroundMember", "GetAroundScore",
     "GetTopMembers", "GetTopPercentage", "GetRankMultiLeaderboards"}

\* The service calls of a message change no such leaderboard.
OffBoard(m, x) ==
    ~LacksBody(m, x) =>
        \A i \in DOMAIN ServiceCalls(m, x) :
            ServiceCalls(m, x)[i].leaderboard = SmokeBoard =>
                ServiceCalls(m, x)[i].service \in Reads

LEMMA GettersRead == ASSUME NEW m \in Getters, NEW x PROVE OffBoard(m, x)
  <1>1. CASE m = "GetRankMultiLeaderboards"
    <2>1. ServiceCalls(m, x) = MultiRanks(x)
      BY <1>1 DEF ServiceCalls
    <2>2. \A i \in DOMAIN MultiRanks(x) : MultiRanks(x)[i].service = "GetMember"
      BY DEF MultiRanks, Lookup
    <2> QED BY <2>1, <2>2 DEF OffBoard, Reads
  <1>2. CASE m # "GetRankMultiLeaderboards"
    <2>1. \E s : ServiceCalls(m, x) = <<s>> /\ s.service \in Reads
      <3> USE DEF Reads
      <3>1. CASE m \in {"TotalMembers", "GetMember", "GetMembers", "GetRank"}
        BY <3>1, SMTT(30) DEF ServiceCalls, Lookup
      <3>2. CASE m \in {"GetAroundMember", "GetAroundScore"}
        BY <3>2, SMTT(30) DEF ServiceCalls, AroundMember, AroundScore
      <3>3. CASE m \in {"GetTopMembers", "GetTopPercentage"}
        BY <3>3, SMTT(30) DEF ServiceCalls, Page, Percentage
      <3> QED BY <1>2, <3>1, <3>2, <3>3 DEF Getters
    <2> QED BY <2>1 DEF OffBoard
  <1> QED BY <1>1, <1>2

\* What is sent after a redirection only reads.
LEMMA RedirectedKeepsOff ==
    ASSUME NEW r, "verb" \in DOMAIN r
    PROVE  KeepsOff(Redirected(r)) /\ "verb" \in DOMAIN Redirected(r)
  <1> DEFINE h == Redirected(r)
             p == RemoveTrailingSlash(h.path)
  <1>1. h.verb = "GET" /\ "verb" \in DOMAIN h
    BY DEF Redirected
  <1> HIDE DEF h
  <1>2. MethodsFor(h.verb, p) \subseteq Getters
    BY <1>1, MethodsOfVerb DEF Getters
  <1>3. KeepsOff(h)
    BY <1>2, GettersRead DEF KeepsOff, OffBoard
  <1> QED BY <1>1, <1>3 DEF h

\* A caller's request, and what became of it, leave the smoke test alone.
Elsewhere(c) ==
    /\ server[c] # "idle" => "verb" \in DOMAIN http[c]
    /\ server[c] = "received" => KeepsOff(http[c])
    /\ server[c] \in InService \cup {"routed"} => OffBoard(method[c], msg[c])

LEMMA AskedElsewhere ==
    ASSUME Domains, DOMAIN http = Callers, NEW c \in Callers \ {smoke}, Ask(c)
    PROVE  Elsewhere(c)'
  <1>1. PICK w \in Wishes[c] : http' = [http EXCEPT ![c] = RequestOfCall(w)]
    BY DEF Ask
  <1>2. server'[c] = "received" /\ http'[c] = RequestOfCall(w)
    BY <1>1 DEF Ask, Domains
  <1>3. KeepsOff(http'[c]) /\ "verb" \in DOMAIN http'[c]
    BY <1>1, <1>2, NameAssumption
  <1> QED BY <1>2, <1>3 DEF Elsewhere, InService, KeepsOff

LEMMA EntersElsewhere ==
    ASSUME Domains, NEW c \in Callers, Elsewhere(c), EnterGateway(c)
    PROVE  Elsewhere(c)'
  <1> DEFINE p == RemoveTrailingSlash(http[c].path)
             methods == MethodsFor(http[c].verb, p)
             decoded(m) == Decode(m, p, http[c].query, http[c].body)
  <1>1. server[c] = "received" /\ http' = http
    BY DEF EnterGateway, callerVars
  <1>2. CASE server'[c] = "replied"
    BY <1>1, <1>2 DEF Elsewhere, InService
  <1>3. CASE \E m \in methods : /\ decoded(m) # Nil
                                /\ method' = [method EXCEPT ![c] = m]
                                /\ msg' = [msg EXCEPT ![c] = decoded(m)]
                                /\ server' = [server EXCEPT ![c] = "routed"]
    <2>1. PICK m \in methods : /\ decoded(m) # Nil /\ method'[c] = m /\ msg'[c] = decoded(m)
                               /\ server'[c] = "routed"
      BY <1>3 DEF Domains
    <2>2. OffBoard(m, decoded(m))
      BY <1>1, <2>1 DEF Elsewhere, KeepsOff, OffBoard
    <2>3. OffBoard(method[c], msg[c])'
      BY <2>1, <2>2 DEF OffBoard
    <2> QED BY <1>1, <2>1, <2>3 DEF Elsewhere
  <1>4. QED
    <2>1. ASSUME NEW status, Reply(c, status, Nil) PROVE server'[c] = "replied"
      BY <2>1 DEF Reply, Domains
    <2> QED BY <1>2, <1>3, <2>1 DEF EnterGateway

\* All other steps leave the request and its message as they were.
LEMMA StaysElsewhere ==
    ASSUME Domains, NEW c \in Callers, Elsewhere(c), http'[c] = http[c],
           server[c] # "idle",
           server'[c] = server[c]
             \/ server'[c] = "replied"
             \/ (server'[c] \in InService /\ server[c] \in InService \cup {"routed"}),
           method'[c] = method[c], msg'[c] = msg[c]
    PROVE  Elsewhere(c)'
  BY DEF Elsewhere, InService, KeepsOff, OffBoard

LEMMA FollowsElsewhere ==
    ASSUME Domains, DOMAIN http = Callers, NEW c \in Callers, Elsewhere(c), FollowRedirection(c)
    PROVE  Elsewhere(c)'
  <1>1. server'[c] = "received" /\ http'[c] = Redirected(http[c]) /\ server[c] # "idle"
    BY DEF FollowRedirection, Domains
  <1>2. KeepsOff(http'[c]) /\ "verb" \in DOMAIN http'[c]
    BY <1>1, RedirectedKeepsOff DEF Elsewhere
  <1> QED BY <1>1, <1>2 DEF Elsewhere, InService, KeepsOff

LEMMA StepsElsewhere ==
    ASSUME CallInv, DOMAIN http = Callers, NEW c \in Callers \ {smoke}, Elsewhere(c),
           Ask(c) \/ GiveUp(c) \/ Served(c)
    PROVE  Elsewhere(c)'
  <1>1. Domains /\ Holds(c)
    BY DEF CallInv
  <1>2. CASE GiveUp(c) \/ Deliver(c)
    <2>1. http' = http /\ server' = server /\ method' = method /\ msg' = msg
      BY <1>2 DEF GiveUp, Deliver, handlerVars
    <2> QED BY <2>1 DEF Elsewhere, KeepsOff, OffBoard
  <1>3. CASE ServerStep(c) /\ ~EnterGateway(c)
    <2> USE DEF callerVars, handlerVars, worldVars
    <2>1. CASE Redirect(c) \/ ServePage(c) \/ Unauthorized(c) \/ PanicWithoutBody(c)
               \/ Refuse(c) \/ PingFails(c) \/ Respond(c)
      <3>1. server[c] # "idle" /\ server'[c] = "replied" /\ http' = http
            /\ method' = method /\ msg' = msg
        BY <1>1, <2>1 DEF Redirect, ServePage, Unauthorized, PanicWithoutBody, Recover, Refuse,
                          PingFails, Respond, Reply, Domains
      <3> QED BY <3>1 DEF Elsewhere, InService, KeepsOff, OffBoard
    <2>2. CASE Begin(c) \/ Read(c) \/ RemoveScores(c) \/ ReadPreviousRanks(c)
               \/ ReadWritten(c) \/ CommandFails(c)
      <3>1. /\ server[c] \in InService \cup {"routed"} /\ http' = http
            /\ server'[c] = "replied" \/ server'[c] \in InService
            /\ method' = method /\ msg' = msg
        BY <1>1, <2>2
        DEF Begin, Read, RemoveScores, ReadPreviousRanks, ReadWritten, CommandFails, Fails, Gives,
            Recover, Reply, AtCall, AtRedis, InService, Domains
      <3> QED BY <1>1, <3>1, StaysElsewhere DEF InService
    <2>3. CASE WriteScores(c) \/ WriteAgain(c)
      <3>1. /\ server[c] \in InService /\ http' = http
            /\ server'[c] \in InService /\ method' = method /\ msg' = msg
        BY <1>1, <2>3 DEF WriteScores, WriteAgain, ReadyToWrite, AtCall, InService, Domains
      <3> QED BY <1>1, <3>1, StaysElsewhere DEF InService
    <2> QED BY <1>3, <2>1, <2>2, <2>3 DEF ServerStep
  <1>4. CASE EnterGateway(c)
    BY <1>1, <1>4, EntersElsewhere
  <1>5. CASE FollowRedirection(c)
    BY <1>1, <1>5, FollowsElsewhere
  <1>6. CASE Ask(c)
    BY <1>1, <1>6, AskedElsewhere
  <1> QED BY <1>2, <1>3, <1>4, <1>5, <1>6 DEF Served, Receive

-----------------------------------------------------------------------------
(* The leaderboards                                                        *)

Boarded ==
    DOMAIN http = Callers /\ DOMAIN board = Boards /\ DOMAIN board[SmokeBoard] = PublicIDs

LEMMA WritesKeepNames ==
    ASSUME NEW b, NEW s
    PROVE  DOMAIN Written(b, s) = DOMAIN b /\ DOMAIN Without(b, s) = DOMAIN b
  BY DEF Written, Persisted, Incremented, Without

LEMMA BoardedNext ==
    ASSUME Boarded, NEW c \in Callers, Ask(c) \/ GiveUp(c) \/ Served(c)
    PROVE  Boarded'
  <1> USE DEF callerVars, handlerVars, worldVars
  <1>1. DOMAIN http' = Callers
    BY DEF Boarded, Served, ServerStep, Receive, Ask, GiveUp, Deliver, FollowRedirection,
           Redirect, ServePage, EnterGateway, Unauthorized, PanicWithoutBody, Recover, Refuse, Begin,
           Respond, Read, RemoveScores, ReadPreviousRanks, WriteScores, ReadWritten, CommandFails,
           PingFails, WriteAgain, Fails
  <1>2. \/ board' = board
        \/ \E s : \/ board' = [board EXCEPT ![s.leaderboard] = Written(@, s)]
                  \/ board' = [board EXCEPT ![s.leaderboard] = Without(@, s)]
    BY DEF Served, ServerStep, Receive, Ask, GiveUp, Deliver, FollowRedirection,
           Redirect, ServePage, EnterGateway, Unauthorized, PanicWithoutBody, Recover, Refuse, Begin,
           Respond, Read, RemoveScores, ReadPreviousRanks, WriteScores, ReadWritten, CommandFails,
           PingFails, WriteAgain, Fails
  <1>3. SmokeBoard \in Boards
    BY SmokeAssumption
  <1>4. DOMAIN board' = Boards /\ DOMAIN board'[SmokeBoard] = PublicIDs
    BY <1>2, <1>3, WritesKeepNames DEF Boarded
  <1> QED BY <1>1, <1>4 DEF Boarded

\* What the others do is not seen on the smoke test's leaderboard.
LEMMA BoardOfItsOwn ==
    ASSUME CallInv, Boarded, NEW c \in Callers \ {smoke}, Elsewhere(c),
           Ask(c) \/ GiveUp(c) \/ Served(c)
    PROVE  board'[SmokeBoard] = board[SmokeBoard]
  <1> USE DEF callerVars, handlerVars, worldVars
  <1>1. Domains /\ Holds(c) /\ SmokeBoard \in DOMAIN board
    BY SmokeAssumption DEF CallInv, Boarded
  <1>2. ASSUME server[c] \in InService, todo[c] # <<>>, NextCall(c).service \notin Reads
        PROVE  NextCall(c).leaderboard # SmokeBoard
    <2>1. NextCall(c) \in CallsFor(method[c], msg[c]) /\ ~LacksBody(method[c], msg[c])
      BY <1>1, <1>2, HeadTailProperties DEF Holds, FollowsMessage, NextCall
    <2> QED BY <1>2, <2>1 DEF Elsewhere, OffBoard, CallsFor
  <1>3. CASE RemoveScores(c)
    <2>1. NextCall(c).leaderboard # SmokeBoard
      BY <1>2, <1>3 DEF RemoveScores, AtCall, InService, Reads
    <2> QED BY <1>1, <1>3, <2>1 DEF RemoveScores
  <1>4. CASE WriteScores(c) \/ WriteAgain(c)
    <2>1. server[c] \in InService /\ todo[c] # <<>>
      BY <1>1, <1>4 DEF WriteScores, WriteAgain, ReadyToWrite, AtCall, Holds, FollowsMessage, InService
    <2>2. NextCall(c).service \in WriteServices
      <3>1. CASE server[c] \in {"ranked", "written"}
        BY <1>1, <2>1, <3>1, NextCallWrites DEF Holds, FollowsMessage
      <3>2. CASE server[c] \notin {"ranked", "written"}
        BY <1>4, <3>2 DEF WriteScores, WriteAgain, ReadyToWrite, AtCall, WriteServices
      <3> QED BY <3>1, <3>2
    <2>3. NextCall(c).leaderboard # SmokeBoard
      BY <1>2, <2>1, <2>2 DEF WriteServices, Reads
    <2> QED BY <1>1, <1>4, <2>3 DEF WriteScores, WriteAgain
  <1>5. CASE ~RemoveScores(c) /\ ~WriteScores(c) /\ ~WriteAgain(c)
    <2>1. board' = board
      BY <1>5
      DEF Served, ServerStep, Receive, Ask, GiveUp, Deliver, FollowRedirection,
          Redirect, ServePage, EnterGateway, Unauthorized, PanicWithoutBody, Recover, Refuse, Begin,
          Respond, Read, ReadPreviousRanks, ReadWritten, CommandFails, PingFails, Fails
    <2> QED BY <2>1
  <1> QED BY <1>3, <1>4, <1>5

\* Faults are counted, and the server stays as open as it is.
LEMMA FaultsNext ==
    ASSUME faults \in Nat, NEW c \in Callers, Ask(c) \/ GiveUp(c) \/ Served(c)
    PROVE  faults' \in Nat /\ faults' >= faults /\ open' = open
  <1> USE DEF worldVars
  <1>1. CASE CommandFails(c) \/ PingFails(c) \/ WriteAgain(c)
    <2>1. faults' \in {faults, faults + 1} /\ open' = open
      BY <1>1 DEF CommandFails, PingFails, WriteAgain
    <2> QED BY <2>1
  <1>2. CASE Ask(c) \/ GiveUp(c) \/ Receive(c)
    BY <1>2 DEF Ask, GiveUp, Receive, Deliver, FollowRedirection
  <1>3. CASE Redirect(c) \/ ServePage(c) \/ EnterGateway(c) \/ Unauthorized(c)
               \/ PanicWithoutBody(c) \/ Refuse(c) \/ Begin(c) \/ Respond(c)
    BY <1>3
    DEF Redirect, ServePage, EnterGateway, Unauthorized, PanicWithoutBody, Refuse, Begin, Respond
  <1>4. CASE Read(c) \/ RemoveScores(c) \/ ReadPreviousRanks(c) \/ WriteScores(c)
               \/ ReadWritten(c)
    BY <1>4 DEF Read, RemoveScores, ReadPreviousRanks, WriteScores, ReadWritten
  <1> QED BY <1>1, <1>2, <1>3, <1>4 DEF Served, ServerStep

\* The requests of other callers stay what they are.
LEMMA HttpNext ==
    ASSUME DOMAIN http = Callers, NEW c \in Callers, Ask(c) \/ GiveUp(c) \/ Served(c)
    PROVE  \A d \in Callers \ {c} : http'[d] = http[d]
  <1> USE DEF callerVars
  <1>1. CASE Ask(c) \/ FollowRedirection(c)
    BY <1>1 DEF Ask, FollowRedirection
  <1>2. CASE GiveUp(c) \/ Deliver(c)
    BY <1>2 DEF GiveUp, Deliver
  <1>3. CASE Redirect(c) \/ ServePage(c) \/ EnterGateway(c) \/ Unauthorized(c)
               \/ PanicWithoutBody(c) \/ Refuse(c) \/ Begin(c) \/ Respond(c)
    BY <1>3
    DEF Redirect, ServePage, EnterGateway, Unauthorized, PanicWithoutBody, Recover, Refuse, Begin,
        Respond
  <1>4. CASE Read(c) \/ RemoveScores(c) \/ ReadPreviousRanks(c) \/ WriteScores(c)
               \/ ReadWritten(c) \/ CommandFails(c) \/ PingFails(c) \/ WriteAgain(c)
    BY <1>4
    DEF Read, RemoveScores, ReadPreviousRanks, WriteScores, ReadWritten, CommandFails, PingFails,
        WriteAgain, Recover, Fails
  <1> QED BY <1>1, <1>2, <1>3, <1>4 DEF Served, ServerStep, Receive

-----------------------------------------------------------------------------
(* The smoke test's own requests                                           *)

\* What the service call of line k is like.
Fitting(k, s) ==
    /\ k \in 2 .. N + 1 => Adds(s, MemberNames[k - 1])
    /\ k \in N + 2 .. FirstRemoval - 1 => ReadsWell(s)
    /\ k >= FirstRemoval => s.service \in Removals

LEMMA LinesAsk ==
    ASSUME NEW k \in 2 .. Len(Script)
    PROVE  \E m, x, s : Leads(Script[k], m, x, s) /\ Fitting(k, s)
  <1>1. N \in Nat
    BY NumberOfNames
  <1>2. CASE k \in 2 .. N + 1
    <2>1. PICK m, x, s : Leads(Script[k], m, x, s) /\ Adds(s, MemberNames[k - 1])
      BY <1>2, ScriptIs DEF AsksToAdd
    <2>2. Fitting(k, s)
      BY <1>1, <1>2, <2>1, ScriptIs DEF Fitting
    <2> QED BY <2>1, <2>2
  <1>3. CASE k \in N + 2 .. FirstRemoval - 1
    <2>1. PICK m, x, s : Leads(Script[k], m, x, s) /\ ReadsWell(s)
      BY <1>3, ScriptIs DEF AsksToRead
    <2>2. Fitting(k, s)
      BY <1>1, <1>3, <2>1, ScriptIs DEF Fitting
    <2> QED BY <2>1, <2>2
  <1>4. CASE k \in FirstRemoval .. Len(Script)
    <2>1. PICK m, x, s : Leads(Script[k], m, x, s) /\ s.service \in Removals
      BY <1>4, ScriptIs DEF AsksToRemove
    <2>2. Fitting(k, s)
      BY <1>1, <1>4, <2>1, ScriptIs DEF Fitting
    <2> QED BY <2>1, <2>2
  <1> QED BY <1>1, <1>2, <1>3, <1>4, ScriptIs

\* Each service call is of one kind.
LEMMA KindsOfCalls ==
    ASSUME NEW k \in 2 .. Len(Script), NEW s, Fitting(k, s)
    PROVE  /\ s.service \in Reads => k \in N + 2 .. FirstRemoval - 1 /\ ReadsWell(s)
           /\ s.service \in Removals => k >= FirstRemoval
           /\ s.service \in WriteServices => k \in 2 .. N + 1 /\ Adds(s, MemberNames[k - 1])
  <1>1. N \in Nat
    BY NumberOfNames
  <1>2. CASE k \in 2 .. N + 1
    <2>1. Adds(s, MemberNames[k - 1])
      BY <1>2 DEF Fitting
    <2>2. s.service = "SetMembersScore"
      BY <2>1 DEF Adds, SetScores
    <2> QED BY <1>2, <2>1, <2>2 DEF Reads, Removals
  <1>3. CASE k \in N + 2 .. FirstRemoval - 1
    <2>1. ReadsWell(s)
      BY <1>3 DEF Fitting
    <2> QED BY <1>3, <2>1 DEF ReadsWell, Reads, Removals, WriteServices
  <1>4. CASE k >= FirstRemoval
    <2>1. s.service \in Removals
      BY <1>4 DEF Fitting
    <2> QED BY <1>4, <2>1 DEF Reads, Removals, WriteServices
  <1> QED BY <1>1, <1>2, <1>3, <1>4, ScriptIs

\* The line's service call has been carried out, or needs not be.
Done ==
    \/ server[smoke] \in {"written", "replied"}
    \/ server[smoke] = "serving" /\ todo[smoke] = <<>>

\* Its members are there until it removes them.
Present ==
    \A k \in 2 .. N + 1 :
        (k < line \/ (k = line /\ Done)) /\ line < FirstRemoval =>
            board[SmokeBoard][MemberNames[k - 1]] # None

\* The request on its way is for the service call of its line.
OnTheWay ==
    server[smoke] \in {"routed", "serving", "written"} =>
        /\ line >= 2
        /\ \E s : /\ Leads(Script[line], method[smoke], msg[smoke], s) /\ Fitting(line, s)
                  /\ server[smoke] # "routed" => todo[smoke] \in {<<>>, <<s>>}
                  /\ server[smoke] = "written" => todo[smoke] = <<s>> /\ line \in 2 .. N + 1

\* So goes the script if nothing is wrong with the server.
Undisturbed ==
    /\ verdict # "fatal"
    /\ line = 0 => caller[smoke] = "idle" /\ server[smoke] = "idle"
    /\ line > 0 =>
          /\ caller[smoke] \in {"waiting", "answered"} /\ http[smoke] = Script[line]
          /\ server[smoke] \in {"received", "routed", "serving", "written", "replied"}
          /\ caller[smoke] = "answered" => server[smoke] = "replied"
          /\ server[smoke] = "replied" => answer[smoke].status = 200
    /\ OnTheWay
    /\ Present

Quiet == faults = 0 /\ open

SmokeInv ==
    /\ CallInv /\ Boarded /\ faults \in Nat
    /\ line \in Nat /\ line <= Len(Script)
    /\ \A c \in Callers \ {smoke} : Elsewhere(c)
    /\ Quiet => Undisturbed

LEMMA SmokeInvInit == SmokeInit => SmokeInv
  <1> SUFFICES ASSUME SmokeInit PROVE SmokeInv
    OBVIOUS
  <1>1. CallInv
    BY CallInvInit DEF SmokeInit
  <1>2. smoke \in Callers /\ SmokeBoard \in Boards
    BY SmokeAssumption
  <1>3. Boarded
    <2>1. board \in Scoreboards /\ DOMAIN http = Callers
      BY DEF SmokeInit, Init
    <2>2. board \in [Boards -> [PublicIDs -> Int \cup {None}]]
      BY <2>1, CallsAssumption
    <2> QED BY <1>2, <2>1, <2>2 DEF Boarded
  <1>4. \A c \in Callers : server[c] = "idle"
    BY DEF SmokeInit, Init
  <1>5. \A c \in Callers \ {smoke} : Elsewhere(c)
    BY <1>4 DEF Elsewhere, InService
  <1>6. line = 0 /\ faults = 0 /\ verdict = "running" /\ caller[smoke] = "idle"
    BY <1>2 DEF SmokeInit, Init
  <1>7. Present
    BY <1>2, <1>4, <1>6, NumberOfNames DEF Present, Done
  <1>8. OnTheWay
    BY <1>2, <1>4 DEF OnTheWay
  <1>9. Undisturbed
    BY <1>2, <1>4, <1>6, <1>7, <1>8 DEF Undisturbed
  <1> QED BY <1>1, <1>3, <1>5, <1>6, <1>9, ScriptIs DEF SmokeInv

\* What a step of the smoke test's own leaves alone.
LEMMA OwnStep ==
    ASSUME SmokeInv, Served(smoke), UNCHANGED <<line, verdict>>, Quiet'
    PROVE  Quiet /\ Undisturbed /\ Domains /\ Holds(smoke) /\ faults' = faults
  <1>1. smoke \in Callers /\ faults \in Nat /\ Domains /\ Holds(smoke)
    BY SmokeAssumption DEF SmokeInv, CallInv
  <1>2. faults' \in Nat /\ faults' >= faults /\ open' = open
    BY <1>1, FaultsNext
  <1>3. Quiet /\ faults' = faults
    BY <1>1, <1>2 DEF Quiet
  <1> QED BY <1>1, <1>3 DEF SmokeInv

LEMMA PresentStays ==
    ASSUME Present, line' = line, board'[SmokeBoard] = board[SmokeBoard],
           Done' => Done \/ line \notin 2 .. N + 1
    PROVE  Present'
  BY DEF Present

\* The health check is a page, all other lines are for the gateway.
LEMMA LinesAreClean ==
    ASSUME NEW k \in 1 .. Len(Script)
    PROVE  /\ IsClean(Script[k].path)
           /\ Script[k].path \in Pages <=> k = 1
           /\ Script[k].path \in Pages <=> k \notin 2 .. Len(Script)
  <1>1. CASE k = 1
    <2> DEFINE p == <<"healthcheck">>
    <2>1. Script[k].path = p
      BY <1>1, ScriptIs DEF DoHealthCheck, Plain, Send
    <2>2. Len(p) = 1
      OBVIOUS
    <2>3. p \in Pages
      BY DEF Pages
    <2> HIDE DEF p
    <2> QED BY <1>1, <2>1, <2>2, <2>3 DEF IsClean
  <1>2. CASE k # 1
    <2>1. k \in 2 .. Len(Script)
      BY <1>2, ScriptIs
    <2>2. PICK m, x, s : Leads(Script[k], m, x, s)
      BY <2>1, LinesAsk
    <2> QED BY <1>2, <2>1, <2>2 DEF Leads, Stands
  <1> QED BY <1>1, <1>2

\* Where the smoke test's request is served.
Serving ==
    /\ Undisturbed /\ line \in 1 .. Len(Script) /\ smoke \in Callers
    /\ caller[smoke] \in {"waiting", "answered"} /\ http[smoke] = Script[line]
    /\ caller[smoke] = "answered" => server[smoke] = "replied"

LEMMA ServingOwn ==
    ASSUME SmokeInv, Served(smoke), Undisturbed, Domains
    PROVE  Serving
  <1>1. server[smoke] # "idle"
    BY DEF Served, ServerStep, Receive, Deliver, FollowRedirection, Redirect, ServePage, EnterGateway,
           Unauthorized, PanicWithoutBody, Refuse, Begin, Respond, Read, RemoveScores,
           ReadPreviousRanks, WriteScores, ReadyToWrite, ReadWritten, CommandFails, PingFails,
           WriteAgain, AtCall, AtRedis
  <1>2. line \in Nat /\ line <= Len(Script) /\ line # 0
    BY <1>1 DEF SmokeInv, Undisturbed
  <1> QED BY <1>2, ScriptIs, SmokeAssumption DEF Serving, Undisturbed

\* An answer of 200.
LEMMA GoodAnswer ==
    ASSUME Serving, Domains, NEW json, Reply(smoke, 200, json),
           UNCHANGED <<caller, http, line, verdict>>,
           board'[SmokeBoard] = board[SmokeBoard], Done \/ line \notin 2 .. N + 1
    PROVE  Undisturbed'
  <1>1. server'[smoke] = "replied" /\ answer'[smoke].status = 200
    BY DEF Reply, Domains, Serving
  <1>2. Present'
    BY PresentStays DEF Serving, Undisturbed
  <1>3. OnTheWay'
    BY <1>1 DEF OnTheWay
  <1>4. line > 0 /\ verdict # "fatal"
    BY DEF Serving, Undisturbed
  <1> QED BY <1>1, <1>2, <1>3, <1>4 DEF Serving, Undisturbed

LEMMA FrontServes ==
    ASSUME Serving, Domains, Holds(smoke), UNCHANGED <<line, verdict>>, Quiet, Quiet',
           Redirect(smoke) \/ ServePage(smoke) \/ EnterGateway(smoke) \/ PingFails(smoke)
    PROVE  Undisturbed'
  <1> USE DEF callerVars, handlerVars, worldVars
  <1>1. smoke \in Callers /\ line \in 1 .. Len(Script) /\ http[smoke] = Script[line]
    BY DEF Serving
  <1>2. ~Redirect(smoke)
    BY <1>1, LinesAreClean DEF Redirect
  <1>3. CASE ServePage(smoke)
    <2>1. line = 1 /\ line \notin 2 .. N + 1
      BY <1>1, <1>3, LinesAreClean DEF ServePage
    <2>2. UNCHANGED <<caller, http, board>>
      BY <1>3 DEF ServePage
    <2> QED BY <1>3, <2>1, <2>2, GoodAnswer DEF ServePage
  <1>4. CASE EnterGateway(smoke)
    <2> DEFINE r == http[smoke]
               p == RemoveTrailingSlash(r.path)
               methods == MethodsFor(r.verb, p)
               decoded(m) == Decode(m, p, r.query, r.body)
    <2>1. server[smoke] = "received" /\ r.path \notin Pages /\ UNCHANGED <<caller, http, board>>
      BY <1>4 DEF EnterGateway
    <2>2. line \in 2 .. Len(Script)
      BY <1>1, <2>1, LinesAreClean
    <2>3. PICK m, x, s : Leads(Script[line], m, x, s) /\ Fitting(line, s)
      BY <2>2, LinesAsk
    <2>4. p = r.path /\ methods = {m} /\ decoded(m) = x /\ x \in RequestOf[m]
      BY <1>1, <2>3 DEF Leads, Stands, Decode
    <2>5. m \in Methods
      BY <2>4 DEF MethodsFor
    <2>6. x # Nil
      BY <2>4, <2>5, NilIsNoMessage
    <2>7. \E n \in methods : /\ decoded(n) # Nil
                             /\ method' = [method EXCEPT ![smoke] = n]
                             /\ msg' = [msg EXCEPT ![smoke] = decoded(n)]
                             /\ server' = [server EXCEPT ![smoke] = "routed"]
      <3> HIDE DEF r, p
      <3> HIDE DEF methods
      <3>1. methods # {} /\ \A n \in methods : decoded(n) # Nil
        BY <2>4, <2>6
      <3> QED BY <1>4, <3>1 DEF EnterGateway, r, p, methods
    <2> HIDE DEF methods, decoded
    <2>8. method'[smoke] = m /\ msg'[smoke] = x /\ server'[smoke] = "routed"
      BY <1>1, <2>4, <2>7 DEF Domains
    <2>9. Present'
      <3>1. Present /\ ~Done'
        BY <2>8 DEF Serving, Undisturbed, Done
      <3> QED BY <2>1, <3>1, PresentStays
    <2>10. OnTheWay'
      <3>1. line' >= 2 /\ Leads(Script[line'], method'[smoke], msg'[smoke], s) /\ Fitting(line', s)
        BY <2>2, <2>3, <2>8
      <3> QED BY <2>8, <3>1 DEF OnTheWay
    <2>11. caller[smoke] = "waiting" /\ verdict # "fatal" /\ line > 0
      BY <2>1 DEF Serving, Undisturbed
    <2> QED BY <1>1, <2>1, <2>8, <2>9, <2>10, <2>11 DEF Undisturbed
  <1>5. ~PingFails(smoke)
    BY DEF PingFails, Quiet
  <1> QED BY <1>2, <1>3, <1>4, <1>5

\* The service call under way.
LEMMA OwnCall ==
    ASSUME Serving, Domains, server[smoke] \in {"routed", "serving", "written"}
    PROVE  /\ line \in 2 .. Len(Script)
           /\ \E s : /\ Leads(Script[line], method[smoke], msg[smoke], s) /\ Fitting(line, s)
                     /\ server[smoke] # "routed" => todo[smoke] \in {<<>>, <<s>>}
                     /\ server[smoke] = "written" => todo[smoke] = <<s>> /\ line \in 2 .. N + 1
                     /\ server[smoke] # "routed" /\ todo[smoke] # <<>> => NextCall(smoke) = s
  <1>1. OnTheWay /\ line \in 1 .. Len(Script)
    BY DEF Serving, Undisturbed
  <1>2. PICK s : /\ Leads(Script[line], method[smoke], msg[smoke], s) /\ Fitting(line, s)
                 /\ server[smoke] # "routed" => todo[smoke] \in {<<>>, <<s>>}
                 /\ server[smoke] = "written" => todo[smoke] = <<s>> /\ line \in 2 .. N + 1
    BY <1>1 DEF OnTheWay
  <1>3. server[smoke] # "routed" /\ todo[smoke] # <<>> => NextCall(smoke) = s
    BY <1>2 DEF NextCall
  <1> QED BY <1>1, <1>2, <1>3 DEF OnTheWay

LEMMA HandlerServes ==
    ASSUME Serving, Domains, Holds(smoke), UNCHANGED <<line, verdict>>, Quiet, Quiet',
           Unauthorized(smoke) \/ PanicWithoutBody(smoke) \/ Refuse(smoke) \/ Begin(smoke)
             \/ Respond(smoke)
    PROVE  Undisturbed'
  <1> USE DEF callerVars, handlerVars, worldVars
  <1>1. server[smoke] \in {"routed", "serving"} /\ smoke \in Callers
    BY DEF Unauthorized, PanicWithoutBody, Refuse, Begin, Respond, Serving
  <1>2. line \in 2 .. Len(Script)
    BY <1>1, OwnCall
  <1>3. PICK s : /\ Leads(Script[line], method[smoke], msg[smoke], s) /\ Fitting(line, s)
    BY <1>1, OwnCall
  <1>4. ~Unauthorized(smoke)
    BY DEF Unauthorized, Quiet
  <1>5. ~PanicWithoutBody(smoke) /\ ~Refuse(smoke)
    BY <1>3 DEF PanicWithoutBody, Refuse, Leads
  <1>6. CASE Begin(smoke)
    <2>1. /\ server'[smoke] = "serving" /\ todo'[smoke] = <<s>>
          /\ method'[smoke] = method[smoke] /\ msg'[smoke] = msg[smoke]
          /\ UNCHANGED <<caller, http, board>> /\ server[smoke] = "routed"
      BY <1>1, <1>3, <1>6 DEF Begin, Domains, Leads
    <2>2. <<s>> # <<>>
      OBVIOUS
    <2>3. Present'
      <3>1. Present /\ ~Done'
        BY <2>1, <2>2 DEF Serving, Undisturbed, Done
      <3> QED BY <2>1, <3>1, PresentStays
    <2>4. OnTheWay'
      <3>1. line' >= 2 /\ Leads(Script[line'], method'[smoke], msg'[smoke], s) /\ Fitting(line', s)
            /\ todo'[smoke] \in {<<>>, <<s>>}
        BY <1>2, <1>3, <2>1
      <3> QED BY <2>1, <3>1 DEF OnTheWay
    <2>5. caller[smoke] = "waiting" /\ verdict # "fatal" /\ line > 0
      BY <2>1 DEF Serving, Undisturbed
    <2> QED BY <2>1, <2>3, <2>4, <2>5 DEF Serving, Undisturbed
  <1>7. CASE Respond(smoke)
    <2>1. Done /\ UNCHANGED <<caller, http, board>>
      BY <1>7 DEF Respond, Done
    <2> QED BY <1>7, <2>1, GoodAnswer DEF Respond, HTTPStatusFromCode
  <1> QED BY <1>4, <1>5, <1>6, <1>7

\* A service call went well: the handler has nothing left to do.
LEMMA GivenServes ==
    ASSUME Serving, Domains, UNCHANGED <<line, verdict, caller, http, method, msg>>,
           server[smoke] \in {"serving", "written"}, todo[smoke] # <<>>,
           NEW value, Gives(smoke, value), Present'
    PROVE  Undisturbed'
  <1>1. PICK s : /\ Leads(Script[line], method[smoke], msg[smoke], s) /\ Fitting(line, s)
                 /\ todo[smoke] = <<s>>
    BY OwnCall
  <1>2. line \in 2 .. Len(Script) /\ smoke \in Callers
    BY OwnCall DEF Serving
  <1>3. server'[smoke] = "serving" /\ todo'[smoke] = <<>>
    BY <1>1, <1>2 DEF Gives, Domains
  <1>4. OnTheWay'
    <2>1. line' >= 2 /\ Leads(Script[line'], method'[smoke], msg'[smoke], s) /\ Fitting(line', s)
      BY <1>1, <1>2
    <2> QED BY <1>3, <2>1 DEF OnTheWay
  <1>5. caller[smoke] = "waiting" /\ verdict # "fatal" /\ line > 0
    BY DEF Serving, Undisturbed
  <1> QED BY <1>3, <1>4, <1>5 DEF Serving, Undisturbed

\* Every member is there for a line that reads.
LEMMA FullForReads ==
    ASSUME Boarded, Present, line \in N + 2 .. FirstRemoval - 1
    PROVE  Full(board[SmokeBoard])
  <1>1. ASSUME NEW m \in PublicIDs PROVE m \in Entries(board[SmokeBoard])
    <2>1. PICK i \in DOMAIN MemberNames : m = MemberNames[i]
      BY <1>1 DEF PublicIDs
    <2>2. i \in 1 .. N /\ N \in Nat
      BY <2>1, NumberOfNames
    <2>3. i + 1 \in 2 .. N + 1 /\ i + 1 < line /\ line < FirstRemoval /\ (i + 1) - 1 = i
      BY <2>2, ScriptIs
    <2>4. board[SmokeBoard][m] # None
      BY <2>1, <2>3 DEF Present
    <2> QED BY <2>4 DEF Entries, Boarded
  <1> QED BY <1>1 DEF Full

LEMMA ReadServes ==
    ASSUME Serving, Domains, Boarded, UNCHANGED <<line, verdict>>, Read(smoke)
    PROVE  Undisturbed'
  <1>1. server[smoke] = "serving" /\ todo[smoke] # <<>> /\ NextCall(smoke).service \in Reads
    BY DEF Read, AtCall
  <1>2. PICK s : /\ Leads(Script[line], method[smoke], msg[smoke], s) /\ Fitting(line, s)
                 /\ NextCall(smoke) = s /\ line \in 2 .. Len(Script)
    BY <1>1, OwnCall
  <1>3. line \in N + 2 .. FirstRemoval - 1 /\ ReadsWell(s)
    BY <1>1, <1>2, KindsOfCalls
  <1>4. Full(board[SmokeBoard])
    BY <1>3, FullForReads DEF Serving, Undisturbed
  <1>5. s.leaderboard = SmokeBoard
    BY <1>2 DEF Leads
  <1>6. ReadError(board[NextCall(smoke).leaderboard], NextCall(smoke)) = "none"
    BY <1>2, <1>3, <1>4, <1>5 DEF ReadsWell
  <1>7. /\ \E value : Gives(smoke, value)
        /\ UNCHANGED <<caller, http, method, msg, board>>
    BY <1>6 DEF Read, callerVars, worldVars
  <1>8. Present'
    <2>1. line \notin 2 .. N + 1 /\ Present
      BY <1>3, NumberOfNames DEF Serving, Undisturbed
    <2> QED BY <1>7, <2>1, PresentStays
  <1> QED BY <1>1, <1>7, <1>8, GivenServes

LEMMA RemoveServes ==
    ASSUME Serving, Domains, UNCHANGED <<line, verdict>>, RemoveScores(smoke)
    PROVE  Undisturbed'
  <1>1. /\ server[smoke] = "serving" /\ todo[smoke] # <<>>
        /\ NextCall(smoke).service \in Removals
    BY DEF RemoveScores, AtCall, Removals
  <1>2. PICK s : Fitting(line, s) /\ NextCall(smoke) = s /\ line \in 2 .. Len(Script)
    BY <1>1, OwnCall
  <1>3. line >= FirstRemoval
    BY <1>1, <1>2, KindsOfCalls
  <1>4. Gives(smoke, <<>>) /\ UNCHANGED <<caller, http, method, msg>>
    BY DEF RemoveScores, callerVars
  <1>5. Present'
    BY <1>2, <1>3, ScriptIs DEF Present
  <1> QED BY <1>1, <1>4, <1>5, GivenServes

\* The score of one member is written as it is, and no other changes.
LEMMA OneWritten ==
    ASSUME NEW b, NEW n, NEW s, Adds(s, n)
    PROVE  /\ \A m \in DOMAIN b : Written(b, s)[m] = b[m] \/ Written(b, s)[m] # None
           /\ n \in DOMAIN b => Written(b, s)[n] # None
  <1>1. PICK v \in Int : s = SetScores(SmokeBoard, <<[PublicID |-> n, Score |-> v]>>, FALSE)
    BY DEF Adds
  <1> DEFINE e == [PublicID |-> n, Score |-> v]
             one == <<e>>
  <1>2. s.service = "SetMembersScore" /\ s.scores = one
    BY <1>1 DEF SetScores
  <1>3. DOMAIN one = {1} /\ one[1] = e /\ e.PublicID = n /\ e.Score = v
    OBVIOUS
  <1> HIDE DEF one, e
  <1>4. LastScoreOf(one, n) = v
    <2>1. \A i \in DOMAIN one : i = 1
      BY <1>3
    <2>2. 1 \in DOMAIN one /\ one[1].PublicID = n
          /\ \A j \in DOMAIN one : one[j].PublicID = n => j <= 1
      BY <1>3
    <2>3. (CHOOSE i \in DOMAIN one : /\ one[i].PublicID = n
                                     /\ \A j \in DOMAIN one : one[j].PublicID = n => j <= i) = 1
      BY <2>1, <2>2
    <2> QED BY <1>3, <2>3 DEF LastScoreOf
  <1>5. v # None
    BY MemberNamesAssumption
  <1>6. Written(b, s)
          = [m \in DOMAIN b |->
                IF \E i \in DOMAIN one : one[i].PublicID = m THEN LastScoreOf(one, m) ELSE b[m]]
    BY <1>2 DEF Written, Persisted
  <1>7. \A m : (\E i \in DOMAIN one : one[i].PublicID = m) <=> m = n
    BY <1>3
  <1> QED BY <1>4, <1>5, <1>6, <1>7

LEMMA WriteServes ==
    ASSUME Serving, Domains, Boarded, Holds(smoke), UNCHANGED <<line, verdict>>,
           WriteScores(smoke)
    PROVE  Undisturbed'
  <1>1. smoke \in Callers /\ server[smoke] # "ranked"
    BY DEF Serving, Undisturbed
  <1>2. /\ server[smoke] = "serving" /\ todo[smoke] # <<>>
        /\ NextCall(smoke).service \in WriteServices
    BY <1>1 DEF WriteScores, ReadyToWrite, AtCall, WriteServices
  <1>3. PICK s : /\ Leads(Script[line], method[smoke], msg[smoke], s) /\ Fitting(line, s)
                 /\ NextCall(smoke) = s /\ line \in 2 .. Len(Script) /\ todo[smoke] = <<s>>
    BY <1>2, OwnCall
  <1>4. line \in 2 .. N + 1 /\ Adds(s, MemberNames[line - 1])
    BY <1>2, <1>3, KindsOfCalls
  <1>5. s.leaderboard = SmokeBoard /\ SmokeBoard \in DOMAIN board
    BY <1>3, SmokeAssumption DEF Leads, Boarded
  <1>6. board'[SmokeBoard] = Written(board[SmokeBoard], s)
    BY <1>3, <1>5 DEF WriteScores
  <1>7. /\ server'[smoke] = "written"
        /\ UNCHANGED <<caller, http, method, msg, todo>>
    BY <1>1 DEF WriteScores, Domains, callerVars
  <1>8. Present'
    <2>1. ASSUME NEW k \in 2 .. N + 1, k < line \/ k = line, line < FirstRemoval
          PROVE  board'[SmokeBoard][MemberNames[k - 1]] # None
      <3>1. k - 1 \in DOMAIN MemberNames /\ MemberNames[k - 1] \in DOMAIN board[SmokeBoard]
        <4>1. k - 1 \in DOMAIN MemberNames
          BY NumberOfNames
        <4> QED BY <4>1 DEF PublicIDs, Boarded
      <3>2. CASE k = line
        BY <1>4, <1>6, <3>1, <3>2, OneWritten
      <3>3. CASE k < line
        <4>1. board[SmokeBoard][MemberNames[k - 1]] # None
          BY <2>1, <3>3 DEF Serving, Undisturbed, Present
        <4> QED BY <1>4, <1>6, <3>1, <4>1, OneWritten
      <3> QED BY <2>1, <3>2, <3>3
    <2> QED BY <2>1 DEF Present
  <1>9. OnTheWay'
    <2>1. /\ line' >= 2 /\ Leads(Script[line'], method'[smoke], msg'[smoke], s) /\ Fitting(line', s)
          /\ todo'[smoke] = <<s>> /\ line' \in 2 .. N + 1
      BY <1>3, <1>4, <1>7
    <2> QED BY <1>7, <2>1 DEF OnTheWay
  <1>10. caller[smoke] = "waiting" /\ verdict # "fatal" /\ line > 0
    BY <1>2 DEF Serving, Undisturbed
  <1> QED BY <1>7, <1>8, <1>9, <1>10 DEF Serving, Undisturbed

LEMMA ReadWrittenServes ==
    ASSUME Serving, Domains, Boarded, UNCHANGED <<line, verdict>>, ReadWritten(smoke)
    PROVE  Undisturbed'
  <1>1. server[smoke] = "written"
    BY DEF ReadWritten
  <1>2. PICK s : /\ Leads(Script[line], method[smoke], msg[smoke], s) /\ Fitting(line, s)
                 /\ todo[smoke] = <<s>> /\ line \in 2 .. N + 1
    BY <1>1, OwnCall
  <1>3. todo[smoke] # <<>> /\ NextCall(smoke) = s
    BY <1>2 DEF NextCall
  <1>4. s.leaderboard = SmokeBoard /\ SmokeBoard \notin SeasonOver
    BY <1>2, SmokeAssumption DEF Leads
  <1>5. Adds(s, MemberNames[line - 1])
    BY <1>2 DEF Fitting
  <1>6. \A i \in DOMAIN s.scores : s.scores[i].PublicID = MemberNames[line - 1]
    BY <1>5 DEF Adds, SetScores
  <1>7. MemberNames[line - 1] \in Entries(board[SmokeBoard])
    <2>1. line - 1 \in DOMAIN MemberNames /\ line < FirstRemoval
      BY <1>2, NumberOfNames, ScriptIs
    <2>2. board[SmokeBoard][MemberNames[line - 1]] # None
      BY <1>1, <1>2, <2>1 DEF Serving, Undisturbed, Present, Done
    <2> QED BY <2>1, <2>2 DEF Entries, Boarded, PublicIDs
  <1>8. /\ \E value : Gives(smoke, value)
        /\ UNCHANGED <<caller, http, method, msg, board>>
    <2>1. ~(\E i \in DOMAIN NextCall(smoke).scores :
              NextCall(smoke).scores[i].PublicID \notin Entries(board[NextCall(smoke).leaderboard]))
      BY <1>3, <1>4, <1>6, <1>7
    <2>2. NextCall(smoke).leaderboard \notin SeasonOver
      BY <1>3, <1>4
    <2> QED BY <2>1, <2>2 DEF ReadWritten, callerVars, worldVars
  <1>9. Present'
    <2>1. Present /\ Done
      BY <1>1 DEF Serving, Undisturbed, Done
    <2> QED BY <1>8, <2>1, PresentStays
  <1> QED BY <1>1, <1>3, <1>8, <1>9, GivenServes

\* Neither ranks before nor a second attempt: nothing fails.
LEMMA NothingFails ==
    ASSUME Serving, Domains, Quiet, Quiet'
    PROVE  ~ReadPreviousRanks(smoke) /\ ~CommandFails(smoke) /\ ~WriteAgain(smoke)
  <1>1. ASSUME ReadPreviousRanks(smoke) PROVE FALSE
    <2>1. /\ server[smoke] = "serving" /\ todo[smoke] # <<>> /\ NextCall(smoke).prevRank
          /\ NextCall(smoke).service \in WriteServices
      BY <1>1 DEF ReadPreviousRanks, AtCall, WriteServices
    <2>2. PICK s : Fitting(line, s) /\ NextCall(smoke) = s /\ line \in 2 .. Len(Script)
      BY <2>1, OwnCall
    <2>3. Adds(s, MemberNames[line - 1])
      BY <2>1, <2>2, KindsOfCalls
    <2>4. ~s.prevRank
      BY <2>3 DEF Adds, SetScores
    <2> QED BY <2>1, <2>2, <2>4
  <1>2. ASSUME CommandFails(smoke) PROVE FALSE
    <2>1. caller[smoke] # "gaveUp" /\ server[smoke] # "ranked"
      BY DEF Serving, Undisturbed
    <2>2. faults' # faults + 1
      BY DEF Quiet
    <2>3. ReadyToWrite(smoke) /\ NextCall(smoke).scores = <<>>
      BY <1>2, <2>1, <2>2 DEF CommandFails
    <2>4. /\ server[smoke] = "serving" /\ todo[smoke] # <<>>
          /\ NextCall(smoke).service \in WriteServices
      BY <2>1, <2>3 DEF ReadyToWrite, AtCall, WriteServices
    <2>5. PICK s : Fitting(line, s) /\ NextCall(smoke) = s /\ line \in 2 .. Len(Script)
      BY <2>4, OwnCall
    <2>6. Adds(s, MemberNames[line - 1])
      BY <2>4, <2>5, KindsOfCalls
    <2>7. s.scores # <<>>
      BY <2>6 DEF Adds, SetScores
    <2> QED BY <2>3, <2>5, <2>7
  <1>3. ASSUME WriteAgain(smoke) PROVE FALSE
    BY <1>3 DEF WriteAgain, Quiet
  <1> QED BY <1>1, <1>2, <1>3

LEMMA ReceiveServes ==
    ASSUME Serving, Domains, UNCHANGED <<line, verdict>>, Receive(smoke)
    PROVE  Undisturbed'
  <1> USE DEF handlerVars, worldVars
  <1>1. server[smoke] = "replied" /\ smoke \in Callers
    BY DEF Receive, Deliver, FollowRedirection, Serving
  <1>2. answer[smoke].status = 200 /\ line > 0
    BY <1>1 DEF Serving, Undisturbed
  <1>3. Deliver(smoke)
    BY <1>2 DEF Receive, FollowRedirection
  <1>4. /\ caller'[smoke] = "answered"
        /\ UNCHANGED <<http, server, method, msg, todo, answer, board>>
    BY <1>1, <1>3 DEF Deliver, Domains
  <1>5. Present'
    <2>1. Present /\ Done
      BY <1>1 DEF Serving, Undisturbed, Done
    <2> QED BY <1>4, <2>1, PresentStays
  <1>6. OnTheWay'
    BY <1>1, <1>4 DEF OnTheWay
  <1> QED BY <1>1, <1>2, <1>4, <1>5, <1>6 DEF Serving, Undisturbed

\* The server serves each line well.
LEMMA OwnServes ==
    ASSUME SmokeInv, Served(smoke), UNCHANGED <<line, verdict>>, Quiet'
    PROVE  Undisturbed'
  <1>1. Quiet /\ Undisturbed /\ Domains /\ Holds(smoke) /\ Boarded
    BY OwnStep DEF SmokeInv
  <1>2. Serving
    BY <1>1, ServingOwn
  <1>3. CASE Receive(smoke)
    BY <1>1, <1>2, <1>3, ReceiveServes
  <1>4. CASE Redirect(smoke) \/ ServePage(smoke) \/ EnterGateway(smoke) \/ PingFails(smoke)
    BY <1>1, <1>2, <1>4, FrontServes
  <1>5. CASE Unauthorized(smoke) \/ PanicWithoutBody(smoke) \/ Refuse(smoke) \/ Begin(smoke)
               \/ Respond(smoke)
    BY <1>1, <1>2, <1>5, HandlerServes
  <1>6. CASE Read(smoke)
    BY <1>1, <1>2, <1>6, ReadServes
  <1>7. CASE RemoveScores(smoke)
    BY <1>1, <1>2, <1>7, RemoveServes
  <1>8. CASE WriteScores(smoke)
    BY <1>1, <1>2, <1>8, WriteServes
  <1>9. CASE ReadWritten(smoke)
    BY <1>1, <1>2, <1>9, ReadWrittenServes
  <1>10. ~ReadPreviousRanks(smoke) /\ ~CommandFails(smoke) /\ ~WriteAgain(smoke)
    BY <1>1, <1>2, NothingFails
  <1> QED BY <1>3, <1>4, <1>5, <1>6, <1>7, <1>8, <1>9, <1>10 DEF Served, ServerStep

-----------------------------------------------------------------------------
(* The script goes on                                                      *)

\* A step of another caller.
LEMMA OthersSmoke ==
    ASSUME SmokeInv, NEW c \in Callers \ {smoke}, Ask(c) \/ GiveUp(c) \/ Served(c),
           UNCHANGED <<line, verdict>>
    PROVE  SmokeInv'
  <1>1. smoke \in Callers /\ CallInv /\ Boarded /\ Domains /\ Elsewhere(c)
    BY SmokeAssumption DEF SmokeInv, CallInv
  <1>2. Ask(c) \/ GiveUp(c) \/ ServerStep(c) \/ Receive(c)
    BY DEF Served
  <1>3. CallInv' /\ \A d \in Callers \ {c} : Untouched(d)
    <2>1. Next
      BY <1>2 DEF Next
    <2> QED BY <1>1, <1>2, <2>1, CallInvNext, OthersUntouched
  <1>4. Boarded' /\ Elsewhere(c)' /\ board'[SmokeBoard] = board[SmokeBoard]
    BY <1>1, BoardedNext, StepsElsewhere, BoardOfItsOwn DEF Boarded
  <1>5. faults' \in Nat /\ faults' >= faults /\ open' = open /\ faults \in Nat
    BY FaultsNext DEF SmokeInv
  <1>6. \A d \in Callers \ {c} : http'[d] = http[d]
    BY <1>1, HttpNext DEF Boarded
  <1>7. \A d \in Callers \ {smoke} : Elsewhere(d)'
    <2>1. ASSUME NEW d \in Callers \ {smoke, c} PROVE Elsewhere(d)'
      <3>1. Elsewhere(d) /\ Untouched(d) /\ http'[d] = http[d]
        BY <1>3, <1>6 DEF SmokeInv
      <3> QED BY <3>1 DEF Elsewhere, Untouched, KeepsOff, OffBoard
    <2> QED BY <1>4, <2>1
  <1>8. Quiet' => Undisturbed'
    <2> SUFFICES ASSUME Quiet' PROVE Undisturbed'
      OBVIOUS
    <2>1. Undisturbed
      BY <1>5 DEF SmokeInv, Quiet
    <2>2. Untouched(smoke) /\ http'[smoke] = http[smoke]
      BY <1>1, <1>3, <1>6
    <2>3. Present'
      <3>1. Present /\ (Done' => Done)
        BY <2>1, <2>2 DEF Undisturbed, Untouched, Done
      <3> QED BY <1>4, <3>1, PresentStays
    <2>4. OnTheWay'
      <3>1. OnTheWay
        BY <2>1 DEF Undisturbed
      <3> QED BY <2>2, <3>1 DEF OnTheWay, Untouched
    <2> QED BY <2>1, <2>2, <2>3, <2>4 DEF Undisturbed, Untouched
  <1>9. line' \in Nat /\ line' <= Len(Script)
    BY DEF SmokeInv
  <1> QED BY <1>3, <1>4, <1>5, <1>7, <1>8, <1>9 DEF SmokeInv

LEMMA OwnSmoke ==
    ASSUME SmokeInv, Served(smoke), UNCHANGED <<line, verdict>>
    PROVE  SmokeInv'
  <1>1. smoke \in Callers /\ CallInv /\ Boarded /\ Domains
    BY SmokeAssumption DEF SmokeInv, CallInv
  <1>2. ServerStep(smoke) \/ Receive(smoke)
    BY DEF Served
  <1>3. CallInv' /\ \A d \in Callers \ {smoke} : Untouched(d)
    <2>1. Next
      BY <1>1, <1>2 DEF Next
    <2> QED BY <1>1, <1>2, <2>1, CallInvNext, OthersUntouched
  <1>4. Boarded'
    BY <1>1, BoardedNext
  <1>5. faults' \in Nat
    BY <1>1, FaultsNext DEF SmokeInv
  <1>6. \A d \in Callers \ {smoke} : http'[d] = http[d]
    BY <1>1, HttpNext DEF Boarded
  <1>7. ASSUME NEW d \in Callers \ {smoke} PROVE Elsewhere(d)'
    <2>1. Elsewhere(d) /\ Untouched(d) /\ http'[d] = http[d]
      BY <1>3, <1>6 DEF SmokeInv
    <2> QED BY <2>1 DEF Elsewhere, Untouched, KeepsOff, OffBoard
  <1>8. Quiet' => Undisturbed'
    BY OwnServes
  <1>9. line' \in Nat /\ line' <= Len(Script)
    BY DEF SmokeInv
  <1> QED BY <1>3, <1>4, <1>5, <1>7, <1>8, <1>9 DEF SmokeInv

\* The next line finds the server done with the last one.
LEMMA SendsSmoke ==
    ASSUME SmokeInv, SmokeSends
    PROVE  SmokeInv'
  <1>1. smoke \in Callers /\ CallInv /\ Boarded /\ Domains
    BY SmokeAssumption DEF SmokeInv, CallInv
  <1>2. /\ caller'[smoke] = "waiting" /\ server'[smoke] = "received"
        /\ http'[smoke] = Script[line'] /\ line' = line + 1
        /\ answer'[smoke].status = 0 /\ carried'[smoke] = <<>>
    BY <1>1 DEF SmokeSends, Domains, Boarded, NoAnswer
  <1>3. Domains' /\ Boarded' /\ faults' \in Nat /\ board' = board
    BY <1>1 DEF SmokeSends, Domains, Boarded, SmokeInv
  <1>4. ASSUME NEW d \in Callers \ {smoke} PROVE Holds(d)' /\ Elsewhere(d)'
    <2>1. Untouched(d) /\ http'[d] = http[d]
      BY <1>1 DEF SmokeSends, Untouched, Domains, Boarded
    <2>2. Holds(d)'
      BY <1>1, <2>1, UntouchedHolds DEF CallInv
    <2>3. Elsewhere(d)'
      <3>1. Elsewhere(d)
        BY DEF SmokeInv
      <3> QED BY <2>1, <3>1 DEF Elsewhere, Untouched, KeepsOff, OffBoard
    <2> QED BY <2>2, <2>3
  <1>5. Holds(smoke)'
    BY <1>2 DEF Holds, FollowsMessage, WrittenSoFar, AnswerFits, InService
  <1>6. CallInv'
    BY <1>3, <1>4, <1>5 DEF CallInv
  <1>7. line \in Nat /\ line' \in Nat /\ line' <= Len(Script) /\ line' > 0
    BY <1>2, ScriptIs DEF SmokeInv, SmokeSends
  <1>8. Quiet' => Undisturbed'
    <2> SUFFICES ASSUME Quiet' PROVE Undisturbed'
      OBVIOUS
    <2>1. Undisturbed
      BY DEF SmokeInv, Quiet, SmokeSends
    <2>2. line = 0 \/ server[smoke] = "replied"
      BY <1>7, <2>1 DEF SmokeSends, Undisturbed
    <2>3. Present'
      <3> SUFFICES ASSUME NEW k \in 2 .. N + 1, k < line' \/ (k = line' /\ Done'), line' < FirstRemoval
                   PROVE  board'[SmokeBoard][MemberNames[k - 1]] # None
        BY DEF Present
      <3>1. ~Done' /\ N \in Nat
        BY <1>2, NumberOfNames DEF Done
      <3>2. k < line'
        BY <3>1
      <3>3. line # 0 /\ Done
        BY <1>2, <1>7, <2>2, <3>2 DEF Done
      <3>4. (k < line \/ k = line) /\ line < FirstRemoval
        BY <1>2, <1>7, <3>1, <3>2, ScriptIs
      <3>5. Present
        BY <2>1 DEF Undisturbed
      <3> QED BY <1>3, <3>3, <3>4, <3>5 DEF Present
    <2>4. OnTheWay'
      BY <1>2 DEF OnTheWay
    <2>5. verdict' # "fatal"
      BY DEF SmokeSends
    <2> QED BY <1>2, <1>7, <2>3, <2>4, <2>5 DEF Undisturbed
  <1> QED BY <1>3, <1>4, <1>6, <1>7, <1>8 DEF SmokeInv

\* What is said of the calls stays true while they are left alone.
LEMMA RestsSmoke ==
    ASSUME SmokeInv, UNCHANGED <<vars, line>>, Quiet' => verdict' # "fatal"
    PROVE  SmokeInv'
  <1> USE DEF vars, callerVars, handlerVars, worldVars
  <1>1. CallInv'
    <2>1. CallInv
      BY DEF SmokeInv
    <2> QED BY <2>1, CallInvNext
  <1>2. Boarded' /\ faults' \in Nat /\ line' \in Nat /\ line' <= Len(Script)
    BY DEF SmokeInv, Boarded
  <1>3. ASSUME NEW d \in Callers \ {smoke} PROVE Elsewhere(d)'
    <2>1. Elsewhere(d) /\ http'[d] = http[d] /\ Untouched(d)
      BY DEF SmokeInv, Untouched
    <2> QED BY <2>1 DEF Elsewhere, Untouched, KeepsOff, OffBoard
  <1>4. Quiet' => Undisturbed'
    <2> SUFFICES ASSUME Quiet' PROVE Undisturbed'
      OBVIOUS
    <2>1. Undisturbed
      BY DEF SmokeInv, Quiet
    <2>2. Present'
      <3>1. Present /\ (Done' => Done)
        BY <2>1 DEF Undisturbed, Done
      <3> QED BY <3>1, PresentStays
    <2>3. OnTheWay'
      BY <2>1 DEF Undisturbed, OnTheWay
    <2> QED BY <2>1, <2>2, <2>3 DEF Undisturbed
  <1> QED BY <1>1, <1>2, <1>3, <1>4 DEF SmokeInv

LEMMA SmokeInvNext == SmokeInv /\ [SmokeNext]_smokeVars => SmokeInv'
  <1> SUFFICES ASSUME SmokeInv, [SmokeNext]_smokeVars PROVE SmokeInv'
    OBVIOUS
  <1>1. CASE SmokeSends
    BY <1>1, SendsSmoke
  <1>2. CASE Fatal
    <2>1. ~Quiet
      <3> SUFFICES ASSUME Quiet PROVE FALSE
        OBVIOUS
      <3>1. Undisturbed /\ line \in Nat
        BY DEF SmokeInv
      <3> QED BY <1>2, <3>1 DEF Undisturbed, Fatal
    <2>2. UNCHANGED <<vars, line>>
      BY <1>2 DEF Fatal
    <2>3. ~Quiet'
      BY <2>1, <2>2 DEF Quiet, vars, worldVars
    <2> QED BY <2>2, <2>3, RestsSmoke
  <1>3. CASE Passes
    BY <1>3, RestsSmoke DEF Passes
  <1>4. CASE Served(smoke) /\ UNCHANGED <<line, verdict>>
    BY <1>4, OwnSmoke
  <1>5. CASE \E c \in Callers \ {smoke} :
                (Ask(c) \/ GiveUp(c) \/ Served(c)) /\ UNCHANGED <<line, verdict>>
    BY <1>5, OthersSmoke
  <1>6. CASE UNCHANGED smokeVars
    <2>1. UNCHANGED <<vars, line>> /\ verdict' = verdict
      BY <1>6 DEF smokeVars
    <2>2. Quiet' => verdict' # "fatal"
      <3>1. Quiet' => Quiet
        BY <2>1 DEF Quiet, vars, worldVars
      <3> QED BY <2>1, <3>1 DEF SmokeInv, Undisturbed
    <2> QED BY <2>1, <2>2, RestsSmoke
  <1> QED BY <1>1, <1>2, <1>3, <1>4, <1>5, <1>6 DEF SmokeNext, SmokeStep

\* The smoke test fails only if Redis did or the server wants credentials, for any
\* members and page size, whatever others call on other leaderboards and whenever
\* they give up: every line of cmd/smoke.go reaches its handler, which finds what
\* the lines before it left and is done with it when the next one is sent.
THEOREM SmokeFailsForAReasonAlways == SmokeSpec => []SmokeFailsForAReason
  <1>1. SmokeInv => SmokeFailsForAReason
    BY DEF SmokeInv, Quiet, Undisturbed, SmokeFailsForAReason
  <1> QED BY <1>1, SmokeInvInit, SmokeInvNext, PTL DEF SmokeSpec

=============================================================================
