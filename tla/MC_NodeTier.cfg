CONSTANTS
  Nodes = {n1, n2}
  Rules <- MCRules
  Rule <- MCRule
  Machines <- MCMachines
  Paths <- MCPaths
  Proxies = {0, 32, 34}
  MaxChanges = 1
SPECIFICATION Spec
INVARIANTS TypeOK NodeBreaksShow NodeAlarmsWereTrue PathRulesPrinted
