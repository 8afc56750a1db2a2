CONSTANTS
  laptop = laptop
  Home = phone
  Others <- OneOther
  MaxAccepts = 3
  Deadline = 2
SPECIFICATION FairSpec
INVARIANTS
  TypeOK
  NeverBoth
  NoHollowTrade
  AcceptOutranksCancel
  ReleaseOutranksWithdraw
PROPERTIES
  AcceptIsAnswered
  OwnWithdrawComesHome
