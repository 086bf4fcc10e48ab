SPECIFICATION DisplaySpec
CONSTANTS
  BankCounts = {1, 2}
  PageDelay = 1
  CounterSize = 3
  MaxEvents = 1
PROPERTY ErrorKeepsScreenOn
