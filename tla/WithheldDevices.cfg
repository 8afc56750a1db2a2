CONSTANTS
  laptop = laptop
  Home = phone
  Others <- OneOther
  MaxAccepts = 1
  Deadline = 1
SPECIFICATION FairSpec
PROPERTIES
  WithdrawnComesHome
