SPECIFICATION Spec
CONSTANTS
  None = None
  RoomCapacity <- MCRoomCapacity
  DefaultCapacity = 3
  Center = 1
  JournalLaboratory = "L1"
  Group = {"ga", "gb", "gx"}
  YearOf <- MCYearOf
  GroupOrder <- MCGroupOrder
  TitleOrder <- MCTitleOrder
  StudentsPerGroup = 2
  GeneratedSuffixes = {1, 2, 3, 4}
  Journals <- MCJournals
  OrgFiles <- MCOrgFiles
  Drafts <- MCDrafts
  DraftSemesters = {"s1"}
  DekanatFiles <- MCDekanatFiles
  RepairCenters = {1}
  StartCatalogue <- MCStartCatalogue
  Commands = {"journals", "org", "drafts", "workload", "dekanat", "repair"}
  MaxRuns = 4
CHECK_DEADLOCK FALSE
INVARIANTS TypeOK OneWorkPerTitleAndRoom PlanWorksBookable RerunChangesNothing JournalsRead
PROPERTY RunKeepsItsStudents
