SPECIFICATION Spec
CONSTANTS
  Count = 1
  Reporting = {1}
  Events = {"DA_Damage_Request_Event"}
  Answers <- SomeAnswers
  MaxWalks = 1
  MaxSlots = 1
INVARIANT VerdictComesFirst
