------------------------------- MODULE Protocol -------------------------------
(***************************************************************************)
(* The messages of Podium's gRPC service (proto/podium/api/v1).            *)
(*                                                                         *)
(* A message is a record; one that is not there is Nil.  A field that was  *)
(* not set has its zero value, which is also what a getter gives of a nil  *)
(* message.  A double is counted in halves, so that a score of one and a   *)
(* half is 3.  A text of names separated by commas is the sequence of the  *)
(* names.                                                                  *)
(***************************************************************************)
EXTENDS Integers, Sequences

CONSTANT Nil   \* no message, and no object where JSON may have one

MaxInt32 == 2147483647
Int32 == (-MaxInt32 - 1) .. MaxInt32

Double == Int

\* A text that was not set is one without letters.
ASSUME ZeroText == "" \in STRING

Names == Seq(STRING)

Optional(message) == message \cup {Nil}

-----------------------------------------------------------------------------
(* Parts of messages                                                       *)

ScoreChange == [Score : Double]

Body == [Increment : Double]

ScoreMultiChange == [Score : Double, Leaderboards : Names]

MemberScore == [PublicID : STRING, Score : Double]

MemberScores == [Members : Seq(MemberScore)]

Member == [PublicID : STRING, Score : Double, Rank : Int32]

GetMembersResponse_Member ==
    [PublicID : STRING, Score : Double, Rank : Int32, ExpireAt : Int32, Position : Int32]

BulkUpsertScoresResponse_Member ==
    [PublicID : STRING, Score : Double, Rank : Int32, PreviousRank : Int32, ExpireAt : Int32]

UpsertScoreMultiLeaderboardsResponse_Member ==
    [PublicID : STRING, Score : Double, Rank : Int32, PreviousRank : Int32,
     ExpireAt : Int32, LeaderboardID : STRING]

GetRankMultiLeaderboardsResponse_Member ==
    [LeaderboardID : STRING, Rank : Int32, Score : Double, ExpireAt : Int32]

\* An object with nothing in it is one all the same.
ASSUME NilIsNoBody ==
    Nil \notin ScoreChange /\ Nil \notin Body /\ Nil \notin ScoreMultiChange
      /\ Nil \notin MemberScores

-----------------------------------------------------------------------------
(* Requests                                                                *)

UpsertScoreRequest ==
    [LeaderboardId : STRING, MemberPublicId : STRING, PrevRank : BOOLEAN,
     ScoreTTL : Int32, ScoreChange : Optional(ScoreChange)]

BulkUpsertScoresRequest ==
    [LeaderboardId : STRING, PrevRank : BOOLEAN, ScoreTTL : Int32,
     MemberScores : Optional(MemberScores)]

IncrementScoreRequest ==
    [LeaderboardId : STRING, MemberPublicId : STRING, ScoreTTL : Int32,
     Body : Optional(Body)]

UpsertScoreMultiLeaderboardsRequest ==
    [MemberPublicId : STRING, ScoreTTL : Int32, PrevRank : BOOLEAN,
     ScoreMultiChange : Optional(ScoreMultiChange)]

RemoveLeaderboardRequest == [LeaderboardId : STRING]

RemoveMemberRequest == [LeaderboardId : STRING, MemberPublicId : STRING]

RemoveMembersRequest == [LeaderboardId : STRING, Ids : Names]

TotalMembersRequest == [LeaderboardId : STRING]

GetMemberRequest ==
    [LeaderboardId : STRING, MemberPublicId : STRING, Order : STRING, ScoreTTL : BOOLEAN]

GetMembersRequest ==
    [LeaderboardId : STRING, Order : STRING, ScoreTTL : BOOLEAN, Ids : Names]

GetRankRequest == [LeaderboardId : STRING, MemberPublicId : STRING, Order : STRING]

GetRankMultiLeaderboardsRequest ==
    [MemberPublicId : STRING, LeaderboardIds : Names, Order : STRING, ScoreTTL : BOOLEAN]

GetAroundMemberRequest ==
    [LeaderboardId : STRING, MemberPublicId : STRING, Order : STRING,
     GetLastIfNotFound : BOOLEAN, PageSize : Int32]

GetAroundScoreRequest ==
    [LeaderboardId : STRING, Score : Double, Order : STRING, PageSize : Int32]

GetTopMembersRequest ==
    [LeaderboardId : STRING, PageNumber : Int32, Order : STRING, PageSize : Int32]

GetTopPercentageRequest == [LeaderboardId : STRING, Percentage : Int32, Order : STRING]

-----------------------------------------------------------------------------
(* Responses                                                               *)

UpsertScoreResponse ==
    [Success : BOOLEAN, PublicID : STRING, Score : Double, Rank : Int32,
     PreviousRank : Int32, ExpireAt : Int32]

IncrementScoreResponse ==
    [Success : BOOLEAN, PublicID : STRING, Score : Double, Rank : Int32,
     PreviousRank : Int32, ExpireAt : Int32]

GetMemberResponse ==
    [Success : BOOLEAN, PublicID : STRING, Score : Double, Rank : Int32,
     PreviousRank : Int32, ExpireAt : Int32]

BulkUpsertScoresResponse ==
    [Success : BOOLEAN, Members : Seq(BulkUpsertScoresResponse_Member)]

UpsertScoreMultiLeaderboardsResponse ==
    [Success : BOOLEAN, Scores : Seq(UpsertScoreMultiLeaderboardsResponse_Member)]

RemoveLeaderboardResponse == [Success : BOOLEAN, Reason : STRING]

RemoveMemberResponse == [Success : BOOLEAN, Reason : STRING]

RemoveMembersResponse == [Success : BOOLEAN, Reason : STRING]

TotalMembersResponse == [Success : BOOLEAN, Count : Int32]

GetMembersResponse ==
    [Success : BOOLEAN, Members : Seq(GetMembersResponse_Member), NotFound : Names]

GetRankResponse == [Success : BOOLEAN, PublicID : STRING, Rank : Int32]

GetRankMultiLeaderboardsResponse ==
    [Success : BOOLEAN, Scores : Seq(GetRankMultiLeaderboardsResponse_Member)]

GetAroundMemberResponse == [Success : BOOLEAN, Members : Seq(Member)]

GetAroundScoreResponse == [Success : BOOLEAN, Members : Seq(Member)]

GetTopMembersResponse == [Success : BOOLEAN, Members : Seq(Member)]

GetTopPercentageResponse == [Success : BOOLEAN, Members : Seq(Member)]

-----------------------------------------------------------------------------
(* The service: what a method takes and gives                              *)

RequestOf ==
    [UpsertScore |-> UpsertScoreRequest,
     BulkUpsertScores |-> BulkUpsertScoresRequest,
     IncrementScore |-> IncrementScoreRequest,
     UpsertScoreMultiLeaderboards |-> UpsertScoreMultiLeaderboardsRequest,
     RemoveLeaderboard |-> RemoveLeaderboardRequest,
     RemoveMember |-> RemoveMemberRequest,
     RemoveMembers |-> RemoveMembersRequest,
     TotalMembers |-> TotalMembersRequest,
     GetMember |-> GetMemberRequest,
     GetMembers |-> GetMembersRequest,
     GetRank |-> GetRankRequest,
     GetRankMultiLeaderboards |-> GetRankMultiLeaderboardsRequest,
     GetAroundMember |-> GetAroundMemberRequest,
     GetAroundScore |-> GetAroundScoreRequest,
     GetTopMembers |-> GetTopMembersRequest,
     GetTopPercentage |-> GetTopPercentageRequest]

Methods == DOMAIN RequestOf

ASSUME NilIsNoMessage == \A m \in Methods : Nil \notin RequestOf[m]

ResponseOf ==
    [UpsertScore |-> UpsertScoreResponse,
     BulkUpsertScores |-> BulkUpsertScoresResponse,
     IncrementScore |-> IncrementScoreResponse,
     UpsertScoreMultiLeaderboards |-> UpsertScoreMultiLeaderboardsResponse,
     RemoveLeaderboard |-> RemoveLeaderboardResponse,
     RemoveMember |-> RemoveMemberResponse,
     RemoveMembers |-> RemoveMembersResponse,
     TotalMembers |-> TotalMembersResponse,
     GetMember |-> GetMemberResponse,
     GetMembers |-> GetMembersResponse,
     GetRank |-> GetRankResponse,
     GetRankMultiLeaderboards |-> GetRankMultiLeaderboardsResponse,
     GetAroundMember |-> GetAroundMemberResponse,
     GetAroundScore |-> GetAroundScoreResponse,
     GetTopMembers |-> GetTopMembersResponse,
     GetTopPercentage |-> GetTopPercentageResponse]

\* The message in which nothing was set: what a handler that gave neither a
\* result nor an error is answered with.
EmptyResponse ==
    LET named == [Success |-> FALSE, PublicID |-> "", Score |-> 0, Rank |-> 0,
                  PreviousRank |-> 0, ExpireAt |-> 0]
        members == [Success |-> FALSE, Members |-> <<>>]
        scores == [Success |-> FALSE, Scores |-> <<>>]
        removed == [Success |-> FALSE, Reason |-> ""]
    IN  [UpsertScore |-> named,
         BulkUpsertScores |-> members,
         IncrementScore |-> named,
         UpsertScoreMultiLeaderboards |-> scores,
         RemoveLeaderboard |-> removed,
         RemoveMember |-> removed,
         RemoveMembers |-> removed,
         TotalMembers |-> [Success |-> FALSE, Count |-> 0],
         GetMember |-> named,
         GetMembers |-> [Success |-> FALSE, Members |-> <<>>, NotFound |-> <<>>],
         GetRank |-> [Success |-> FALSE, PublicID |-> "", Rank |-> 0],
         GetRankMultiLeaderboards |-> scores,
         GetAroundMember |-> members,
         GetAroundScore |-> members,
         GetTopMembers |-> members,
         GetTopPercentage |-> members]

=============================================================================
